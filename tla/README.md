# Verification of webgpu-native-js

webgpu-native-js exposes the JavaScript WebGPU API to an embedded engine (Boa or
JavaScriptCore) on top of the C interface `webgpu.h`.  Its own logic is in four
places: the engine-agnostic core (`src/core/src/lib.rs`), which is called by
script, by native callbacks, by finalizers and by the host, none of which ever
sees the others' stack; the two adapters, each of which answers for the lifetime
of the values core holds; and the code generator, which derives from WebIDL,
`webgpu.yml` and a policy what every wrapper converts, keeps and releases.  This
directory models that logic in TLA+, checks it with TLC and proves part of it
with TLAPS.

Line numbers without a file are those of `src/core/src/lib.rs`; `imp.rs` is
`src/adapters/javascriptcore/src/imp.rs`, `lifecycle.rs` and `emission.rs` are
under `src/codegen/src/`, and document names are under `src/specs/`.

1. Inventory · 2. Modules · 3. Runs, bounds, fairness · 4. What the runs show ·
5. What is proved · 6. Plan · 7. What is not modelled · 8. Running it

## 1. Inventory

### How the parts interact

- **Script** calls methods of wrappers.  A call runs on the engine's thread and
  may run script again, inside the conversion of its arguments (getters,
  iterators, `valueOf`).
- **Native callbacks** (map, request, pipeline, pop-error-scope, device lost)
  fire inside `wgpuInstanceProcessEvents` only.  They may not touch the engine:
  they change plain Rust state and append a record to the settlement queue.  The
  uncaptured-error callback may fire on any thread.
- **The host** calls `tick()` or `frame()`, and forwards errors and the loss of
  the devices it owns, from any thread, through `DeviceEventForwarder`.
- **`tick()`** (1467) runs, in this order: ProcessEvents; the drain of the
  settlement queue (1067), which prepares every record, puts back the ones to be
  retried, settles all promises in one frame of script and then dispatches
  uncaptured errors; the engine's microtasks; the drain of the release queue.
- **Finalizers** run on any thread at any time.  They only mark and enqueue: a
  native handle is released by the release drain, on the engine's thread.
- **Native handles** are reference counted by the backend; a wrapper takes a
  reference on every handle it stores.
- **The engine boundary** (`JsEngine`) hands core values that belong to the scope
  of the running callback; what core keeps longer it duplicates and releases.
- **The generator** emits, per interface, the converters of its descriptors, the
  create, destroy and finalize functions and the class tables core registers.

### Components

| Component | State | Operations | Hard behaviour | What makes it correct | Modules |
|---|---|---|---|---|---|
| Buffer mapping | `BufferState` | mapAsync, getMappedRange, unmap, destroy, map callback, deferred start, finalizer | cancelled maps whose callbacks come later; detach failing half way; collection during a map | script reads only memory the backend has mapped; a promise is settled once and as its request ended | `BufferMapping`, `MapContract` |
| Settlement queue, tick, frame | `SettlementQueue`, `ReleaseQueue` | enqueue, drain, dispatch, microtasks, release | stages that fail half way; records added during the drain | every record is consumed once, every release is made | `RuntimeLifetime` |
| Device events and loss | `DeviceEventState`, registry | forwards, callbacks, destroy, preparation, prune | a loss reported by three parties; stale lists; racing flags | device.lost settled once, before what it explains | `DeviceEvents`, `LossContract` |
| Async pipelines | deferreds, retry records | create, callback, retry, settle | result and loss in either order | settled, after the loss, and not rejected because of it | `DeviceEvents`, `LossContract`, `RuntimeLifetime` |
| Error scopes | two stacks of scopes, pops in flight | push, pop, callback, raise, dispatch | two stacks in step; a pop failing between its halves | each error told once, by its own scope | `ErrorScopes` |
| EventTarget | listener list, handler | add, remove, dispatch, once | listeners that change the list under a dispatch | callbacks neither lost, kept nor called twice | `EventTarget` |
| Adapter and device requests | deferreds, native in flight, limits | request, callback, wrap | wrap failing after the native object exists | one owner per handle; limits as asked | `RuntimeLifetime`, `Limits` |
| Command encoding, submission | encoder, pass and command buffer states | commands, passes, finish, submit | check, conversion, use, with script in between | the backend is given nothing in a wrong state; nothing dropped goes unreported | `CommandEncoder`, `Methods` |
| Render bundles | bundle handles | finish, execute, destroy | destroy while recorded | released once | `Retention`, `CommandEncoder` |
| Retention, wrappers | native references, release queue | create, destroy, finalize, release | script that destroys what a conversion has just read | references equal owners | `RetentionPlan`, `Retention` |
| Teardown | queues and roots at the end | Runtime::drop of each adapter | callbacks after the context is gone | everything given back once, nothing touched late | `RuntimeLifetime`, `EngineValues` |
| Conversions | buffer sources, labels, limits, messages | one converter per dictionary and method | script that changes its answers between reads | each value read once and within bounds; a throwing call has not happened | `Descriptors`, `Methods`, `Conversions`, `Limits`, `Messages` |
| Interface objects | prototypes, class objects | register, get, set, call | inheritance, wrong receivers, two object models | as Web IDL says | `Interfaces` |
| CommonJS and file loader | module cache | require, import | cycles, throwing factories, spellings of a path | one module per place | `Loader` |
| Engines: Boa, JSC, mock | arena, protection ledger, scopes | JsEngine operations, settle, finalize, drop | a collector between any two steps | a handle reads its object; roots equal holders | `BoaArena`, `JscLedger`, `MockScope`, `EngineValues` |
| Code generator | policy, join report, plans | validate, join, derive, emit | policies that do not fit, C structs that do not match | what is accepted is emitted whole | `Generator`, `RetentionPlan` |
| FFI, CTS runner, examples | - | - | - | not modelled, section 7 | - |

`PROJECT.json` has the status of each under `components`; every behaviour of this
code that is hard to test is there under `hazards`, at its line, with the
property that covers it or the reason why none does.

## 2. Modules

Each model is a state machine with one action per operation.  Where one call of
the code is one action, nothing else can act on the same object in the middle of
it: the engine is single threaded, and between what a call reads of an object and
what it writes there is no engine call or the object's lock is held.  Some locks are
held while script runs (section 4, `lock_reentry`); script that uses the object then
waits for its own thread, so that what the other modules say of a call is said of
calls that end.
Where something else can act, because of a conversion that runs script, a registry
lock let go of, or a callback that comes later, the call is several actions and
the state it keeps in locals is a variable.  Definitions described as a mutant
(or as "as if ...") belong to no specification: they are plausible bugs, and each
property is broken by one of them under the configuration that checks it.

### Core state machines

**BufferMapping** and **MapContract**.  Variables follow `BufferState` by name
(`pendingMap` is `pending_map`).  A map id is the `mapAsync` call that drew it
(`next_map_id` is a 64-bit counter).  `getMappedRange` asks for a span of bytes,
an offset and a size, and `MappedRangesOverlap` is `mapped_ranges_overlap` (10084)
with its checked sums: an end beyond `MaxUsize` counts as an overlap, an empty
range as none of bytes but of places.  `MapAsyncDestroyed`, `MapAsyncBusy`, `MapAsyncAccepted` are
the exits of `buffer_map_async`; the last starts the native map, or queues a
`StartMap` when an earlier map is still being cancelled.  `Unmap`, `Destroy`,
`DeviceDestroy` have a failing variant for an engine that cannot detach.
`CompleteMap` is the backend finishing a map (9016-9050).  The drain takes the
queue record by record: `StartDeferredMap` starts a map that was put off,
`PrepareSettlement` makes what a promise will settle with and puts it in `batch`,
`EndPrepare` goes to the trampoline (`phase` "settle") and `SettlePromise` settles
the first of the batch; what is queued while records are prepared belongs to this
drain, what is queued while they settle to the next.  Script runs in
the drain as well (`ScriptRuns`): preparing a rejection makes an error and sets its
`name`, which calls a setter script has put on `Error.prototype` (936-946,
imp.rs:2518), and resolving a promise with an object looks up its `then`; so every
method may be called between two records and between two settlements.  `takenBack` is
history: the calls whose granted mapping script itself ended before it was told.
`ReleaseBuffer` is the release queue, `Finalize` the collector.  `unmap`, `destroy`
and `device.destroy()` detach with the locks of the buffers they detach held
(4906-4949, 5519-5541), so that script which a detach runs can finish only by
leaving those buffers alone, and the call is one action for them.  The backend is modelled from how `webgpu.h` is used.  `MapContract`
is what mapAsync promises script: mapState, the call a pending buffer is pending
for, each promise's fate, with no queue and no backend.

**CommandEncoder**.  `frames` is the stack of calls that have checked their
object and are converting their arguments: `Command`, `PassCommand` and
`BeginPass` push, the matching `...Returns` pops and goes on with what the check
said, however stale it is by then.  `misuse` collects the calls the backend was
handed in a state it refuses, by kind.  Commands that check alike are one action.
Whether script calls back is chosen by `Init` (`depth`).

**DeviceEvents** and **LossContract**.  `lost`, `lostSettled`, `lostPromise` are each wrapper's
`DeviceEventState`; `registered` the registry; `queue`, `retries`, `batch` and
`events` the settlement queue and the drain's locals; `producer` a thread of the
host in the middle of a forward, with the states it looked up.  `VisitState` and
`EnqueueEvent` are the two halves of `enqueue_uncaptured` and of
`forward_device_lost`.  `Prepare...` and `RetryPipeline` are one turn of the
drain's loop (1082-1098) each.  `Finalize` and `PrepareLoss` each store one flag
and load the other's (1677-1725): the stores are Release and the loads Acquire,
which does not order a store before the other thread's later load, so the tick
may miss a store (`finalizing`, until `Finalized`).  `LossContract` is what a loss promises script:
the lost promise and the promises of the pipelines made on the device, with no
queue, no tick, no thread and no collector.

**RuntimeLifetime**.  A runtime from its first request to its drop.  `call` is
where each native call stands, `slot` the boxes that still hold a deferred,
`settlements` the queue of records in order, `releases` the release queue as a
count per handle (its order is left open), `phase`, `mode` and `failed` where
`tick()` or `frame()` stands and whether it has an error to return, `step` the
step of `Runtime::drop`.  The actions are the requests, the callbacks (before
and after the drop), the stages of a tick with the exits each has (`Drain(bad, n)`:
the wraps in `bad` fail, or the batch fails having settled `n`), and the four
steps of a teardown in the order of either adapter (`TeardownSteps`).  What a
record carries is an ownership, counted and not copied: `spent`, `freed`.

**EventTarget**, extended by **ErrorScopes**.  `stack` is the dispatches under
way, each with the calls it has copied and still has to make.  A listener has an
id drawn in the order of `addEventListener`, so that the list and a dispatch's
copy of it are sets ordered by id; `refs` counts the duplicates of each callback
by the `duplicate_value` and `release_value` calls.
ErrorScopes adds the binding's stack of scopes (`scopes`), the backend's
(`native`), the pops in flight and the drain.  `PopErrorScope` is the call,
`PopCallback` its answer; `RaiseInBinding` and `RaiseInBackend` are the two
origins of an error; `Drain` and `DispatchUncaptured` are the tick.  Each error
carries where it was raised and where it has gone (`errors`), each scope the
errors raised in it, which only the properties look at.

### Generator and retention

**RetentionPlan** is the derivation of retention plans as pure operators
(`lifecycle.rs`).  **Generator** runs a world (WebIDL, C and policy) through the
stages of `generate_core`: policy validation, join, lifecycle validation,
retention, emission.  The walks through the types that joined members reach
(`transitive_idl_types`, `transitive_c_types`) take a step per name (`FollowIdl`,
`FollowC`).  A type is the identifiers it names; text is not modelled.
**Retention** is the program that comes out: wrappers with native references,
creates whose descriptors are converted step by step (`BeginCreate`,
`ReadHandle`, `MakeView`, `Create`, `CreateReturnsNull`, `CreateFails`,
`ConversionFails`), derived layouts, render bundles, `Destroy`, `Retire`,
`Collect` and `RunRequest`.  What a payload keeps (`held`) and what a release
request gives back are counts per native object, and `refs` is native's own
count.  MCRetention composes the
two: the plans the machine runs with are those the generator derived
(`PlansInUse`).

### The engine boundary

**EngineValues** is core on an engine: callbacks that nest, cached attributes,
handlers, promises settled in batches, class registration, host values, the
collector, finalizers and the drop.  It uses one of three engines: **BoaArena**
(a value is an index into slots that count holders, and an index is reused),
**JscLedger** (a value is a pointer, protected in a ledger; a finalizer may only
enqueue), **MockScope** (aliases that the scope reclaims and duplicates that are
counted).  An error the drain prepares is tracked by the tick's scope when core makes
it (`async_error_value`) and a bare pointer when JavaScriptCore threw it
(`error_value_from_error`): `Prepare` takes either.  A handle is `[of, ref]`: what the code has is `ref`, and `of` is what
it was got for, which only properties look at.  A batch of releases is one
operation on counts (`ReleaseAll`), since their order makes no difference.
`phase` is the step of `Runtime::drop`; `finalizing` and `passed` are what
JavaScriptCore's finalizer thread is about to enqueue, before and after it has
looked at the flag.  **Interfaces** is the other half
of the boundary: class specs, `register_class`, constructors, prototypes and
wrappers in Boa's and in JavaScriptCore's object model; `seen` holds what the
last operation gave script and what Web IDL says it should have.

### Conversions

**Descriptors** and **Methods** are data: each dictionary converter, method,
attribute and constructor as the sequence of steps it takes (reads, coercions,
iterations, handle reads, locks, native calls), translated from
`full_surface.rs` and lib.rs.  A `builtin` step is an engine call that looks up a
property of an ArrayBuffer or of the global object and calls it, which on
JavaScriptCore is how mapped ranges are made (`getMappedRange`) and detached (`unmap`,
both `destroy`s); script may have put its own function there.  `dispatchEvent` alone is
EventTarget's and not in the tables.  **Conversions** runs a call of one of them while
script throws, changes its answers, destroys wrappers, resizes the data or calls
again.  **Limits** is requestDevice's `requiredLimits` and the getters of
`device.limits`; **Messages** getCompilationInfo, whose offsets count UTF-8 bytes
on one side and UTF-16 units on the other; **Loader** the two module loaders.
These three carry values, Conversions carries control; each is a machine of its
own (`LimitsSpec`, `MessagesSpec`, `LoaderSpec`).

`MC*` modules hold what a configuration needs and nothing else: symmetry sets,
small constants, worlds, and the composition of models that share no state
(MCEngineValues, MCConversions), where `MCInit` chooses which of them runs.

## 3. Runs, bounds, fairness

| Run | Question | Instance | Distinct states |
|---|---|---|---|
| `mapping` | safety of mapping with script in the drain, the refinement of `MapContract`, every map settles | 2 buffers, 3 calls, spans [0, 2) and [1, 2), `MaxUsize` 2 | 306,744 |
| `encoder` | are the checks complete when conversions do not call back, and what holds when they do? | 2 encoders, 2 passes, 2 command buffers, depth 1 and 2 | 748,000 |
| `device_events` | safety of loss with a forwarding thread, the refinement of `LossContract` | 2 wrappers of 1 device, 1 pipeline, 1 error, 2 forwards | 2,556,558 |
| `device_events_liveness` | every loss and every pipeline promise is settled | 1 wrapper, adopted or requested | 37,624 |
| `runtime_lifetime` | who owns handles and resolving functions, to the end of the drop | 1 adapter, device, pipeline, handleless call and error, 2 requests by script | 308,996 |
| `errors` | scopes, pops, uncaptured errors, listeners | 2 errors, 2 pops, 2 scopes, 1 callback, 2 listeners, dispatch depth 2, 5 calls | 805,541 |
| `retention` | what does the generator accept and emit; do the references it plans balance? | 7,793 worlds; 5 natives, 4 wrappers, 2 elements | 412,688 |
| `boundary` | does each engine keep what core holds; does script see Web IDL's interfaces? | 1 wrapper, 2 plain objects, 1 promise, callbacks nested once | 255,582 |
| `conversions` | does every call take each value once, and nothing from a call that throws? | every member, 1 act of script per call; limits, messages of 3 characters, 3 loads | 850,888 |
| `late_pipelines`, `jsc_errors`, `lock_reentry` | a statement of the documents the code does not keep | small | - |

**Bounds.**  *Mapping:* three calls on one buffer are what it takes to have a map
being cancelled, one deferred behind it, and one accepted after both; a second
buffer is needed for `device.destroy()` to fail between two, and for a record of one
to be prepared or settled while another's grant waits, which takes two calls: the third
is made once a buffer has been collected and released (`LastCallAlone`); two spans, one
inside the other, are asked for in either order, and the longer one ends at
`MaxUsize`.  *Encoder:* two
encoders and two passes allow a pass of one to be misused through the other; two
frames let a call run inside each kind of conversion, and a third level repeats
the second; `MaxSubmit = 2` has a buffer given twice.  *Device events:* two
wrappers of one handle let the forwarder be between them; two forwards cover
"more than once".  *Lifetime:* one request of each kind, two per behaviour, let
any two meet in one queue and in one failing batch.  *Errors:* two errors and two
scopes are what it takes for the wrong scope to answer or a second error to
shadow a first; five calls of script are two pushes, two pops and one more.
*Retention:* five natives are a bind group with its layout, texture and the view
conversion makes, and one more object created under it; two elements distinguish
a sequence from a single handle.  *Boundary:* two of the five ways core comes to
hold a value (`MaxFocus`) are instantiated together; a plain object's name is
given to a new object after it is collected, as an address is.  *Conversions:*
one act of script at any step is enough for two reads to disagree; 64-bit
arithmetic is done with `MaxU64 = 7`, words of two bytes, and numbers at 0, in
the middle and at the edge; in `Limits` the three ranges keep their order
(`U32Undefined` 7 < `MaxSafe` 12 < `U64Undefined` 15).  Every bound is a constant
named as one where it is declared.

**Symmetry** is used in safety runs only, on sets whose members nothing tells
apart.  `CHECK_DEADLOCK FALSE` is said of runs in which the system ends: the
runtime is dropped, a call returns, a generation is refused, the bounded errors
and calls are used up.

**Fairness.**

- `BufferMapping`: `WF(Tick)`, since the host contract (`README.md`, "The host
  contract") is that it ticks once per frame and each stage of a tick ends by
  itself; `SF(Backend)`, since the backend answers in the end, but a callback
  fires inside ProcessEvents only, so that it is enabled again and again and
  never continuously.
- `DeviceEvents`: the same, per call; `WF` of the producer's steps, since a
  thread that has begun a forward goes on with it; `SF(ForwardLoss)`, since the
  host forwards the loss of devices it owns (blocks/07, S6 and S7) and its thread
  may be in the middle of another forward; `SF(LossCallback)`, since the terminal
  callback of a requested device fires.
- `RuntimeLifetime`: `WF` of beginning a tick, of the steps of one under way, and
  of the drop's steps.  Nothing is assumed of the backend.
- Nothing is assumed of script, of the collector, of errors or of the drop.

## 4. What the runs show

The passing runs found each property to hold in every reachable state of its
instance, and each property is broken there by a plausible bug in the definition
`PROJECT.json` names for it under `mutants`.  Three statements of the repository's
documents do not hold of the code; each has a run that ends in a counterexample.

- **An error JavaScriptCore makes has no owner** (`jsc_errors`, `ErrorsOwned`).
  The drain prepares every settlement before it settles the first.  What a
  rejection settles with comes from `error_value_from_error`, which in this
  adapter returns a pointer no scope tracks (imp.rs:2086), held in a `Vec` the
  collector does not see.  The next preparation may collect it.  `blocks/01`, R22,
  says that every engine value core obtains has an owner.
- **Script runs under a lock** (`lock_reentry`, `NeverStuck`), in two ways.
  `handle_or_throw` (9543) and `buffer_get_mapped_range` (5474) make an error while
  they hold the payload's lock; making it sets `name`, which can run a setter
  script has put on `Error.prototype`.  `unmap` and `destroy` (5533, 4862) detach
  script's ArrayBuffers inside `with_buffer_state`, `device.destroy()` with the locks
  of all the device's buffers (4931), and `getMappedRange` makes one there (5505): in
  JavaScriptCore each looks up `transfer` and `call` with `get_property` and calls
  what it finds (imp.rs:2246, 2214, 2405), so that an accessor script has put on its own
  ArrayBuffer runs.  If either uses the wrapper, the thread waits for itself.  R27
  says that core takes no engine call under a payload lock, and names `get_property` (`blocks/01`,
  338-349).  TLC stops at the first such state; the `conversions` run goes through
  all of them, and `ArgumentsUnlocked` says what does hold: these two ways are the
  only ones, and no argument is converted under a lock.
- **Late pipelines are put into a dead queue** (`late_pipelines`,
  `TeardownReleasesAll`).  After the runtime's drop the adapter and device
  callbacks release their handle directly, as `blocks/02` wants; the two pipeline
  callbacks (8884) enqueue it where nobody drains.

Seen while reading, and not the subject of a run:

- *Generator.*  `emit_create` returns null without giving back the views
  conversion made (lifecycle.rs:1203), against `cts.md:153`; `RefsCounted` and
  `ThrowLeavesNothing` except it.  `validate_lifecycle` cannot reach its check for
  entries nobody consumes (lifecycle.rs:280), against `blocks/05-codegen.md:88`.  An
  extension method and a reasoned mapping of one name outside the IDL are both
  emitted.  `validate_lifecycle` counts the creators of an interface without the
  mapped methods (lifecycle.rs:127), `standard_interfaces` looks for "validated
  creator" among all (lifecycle.rs:494): with a mapped method that returns the
  interface and comes first, the function it emits has that method's name, and the
  class table names one that is not there.  policy.toml has no such method; the
  run's worlds do, and `EmittedWhole` excepts them (`CreatorsFound`).  Only descriptors that are not raw C structs are read required members
  first.
- *Errors and loss.*  Whether a device is lost is looked at when an uncaptured
  error is prepared (1001) and not when it is dispatched (1112), so that an error
  may follow the loss by one batch; `cts.md:518` reads otherwise.
- *Encoders.*  A pass command that checks its pass and then converts (7775) can
  reach a pass the conversion has ended; `NoMisuse` says when.
- *Mapping.*  `getMappedRange` looks at `mapped`, which the backend's callback sets
  one drain before the promise settles (9023, 1112): script the drain runs in between
  is handed a range, where A14 (`blocks/02`, 412) says OperationError.  The same script may
  unmap the buffer, so that a promise is fulfilled for a mapping no longer in
  force; `FulfilledInForce` says that this is the only way.  A deferred `StartMap` ignores that it was cancelled (948), its
  callback leaves the buffer unmapped for script (9016) and a further `unmap()`
  does not reach native (5535).  It holds no reference on the buffer it will be
  given (5447).
- *Adapters.*  JavaScriptCore's `register_class`, failing late, keeps the methods it
  protected; Boa's keeps the prototype's second root until teardown.  `set_global`
  that throws keeps its protection in one adapter and gives it back in the other.
  A `begin...Pass` that fails after native began leaves the encoder locked.
- *Limits and loader.*  A limit native leaves undefined reads as 4294967295, and
  asking for that number is refused (2426); -0.5 is refused rather than truncated
  (2388).  A CommonJS module that threw stays in the cache.  `require(".")` in a
  module at the root does not look for `index.js`.
- *Interfaces.*  JavaScriptCore's class-level callbacks answer before own
  properties and patched prototypes, and it swallows an assignment to a read-only
  attribute in strict mode, where Boa throws.

## 5. What is proved

The theorems hold for every value of the constants that satisfies the modules'
assumptions: any number of buffers, encoders, devices, requests, scopes, wrappers,
any depth of re-entry, any bound.  Each proof is an invariant that holds initially
and is kept by every action, proved action by action and conjunct by conjunct,
and the property as its consequence.  TLC checked each invariant, or its parts,
on the run's instance before it was proved.

| Module | Theorems (property of a run) | Inductive invariant, and why the property is not inductive by itself |
|---|---|---|
| `BufferMapping_proofs` | `TypeCorrect`, `OverlapDecided`, `MappingAgreement` (`MappedAgrees`), `FulfilledMeansInForce` (`FulfilledInForce`), `ImplementsMapContract` (`KeepsMapContract`) | `MappingInv`: a buffer waiting for native is the one native has pending; a released one was finalized; ranges exist only while mapped; `RangesApart`: two that are out at once share no byte, which follows from `OverlapDecided`, that the comparison of ends decides whether two spans do.  `CallInv`: a call is in one place - queued to be started, at the backend, or recorded, in the settlement queue or prepared in the batch - and a recorded grant is in force unless it is in `takenBack` (`GrantedInForce`); grants are queued between ProcessEvents and the drain only, and prepared until the batch is settled (`GrantedInDrain`), so that no release or deferred start comes in between.  Without them a callback that comes late could be of any call. |
| `CommandEncoder_proofs` | `TypeCorrect`, `ReentrantSafety` (`SubmittedOnce`), `OneCommandBuffer` (`FinishedOnce`), `DroppedIsReported` (`DroppedPoisons`), `ChecksComplete` (`NoMisuse`), `LockFollowsPass` (`LockAgrees`) | `EncoderInv`, at any depth of re-entry; `ChecksInv`, without it: what a frame's check saw is still so (`ChecksFresh`), one pass is open per locked encoder. |
| `DeviceEvents_proofs` | `TypeCorrect`, `LossOrdering` (`LossSettledOnce`), `RegistryKept` (`RegisteredWhileNeeded`), `LossBeforePipelines` (`PipelineAfterLoss`), `LossExcusesPipelines`, `ImplementsLossContract` (`KeepsLossContract`) | `TypeInv`, `LossInv`: where a loss is between the flag, the queue, the batch and the promise, what the producer's looked-up states still are, what a finalizer between its store and its load may have missed.  `OnePlace`: a pipeline's result is in one of the callback, the queue, the retries and the batch, so that its verdict is given once. |
| `RuntimeLifetime_proofs` | `TypeCorrect`, `HandlesReleasedOnce` (`HandlesAccounted`), `ResolversSpentOnce` (`ResolversBalanced`), `TicksFinish` (`TicksDoTheirWork`) | `LifetimeInv`: the places a handle or a deferred may be in add up to one, and each finished step of the drop has left its place empty. |
| `ErrorScopes_proofs` | `TypeCorrect`, `ListenersAlwaysServed` (`ListenersServed`), `PopsReportTheirScope` (`PopReportsItsScope`), `ErrorsAccountedFor` (`ErrorsAccounted`) | `TargetInv`: ids order the list and every dispatch's copy of it; a once-listener is on the list, in one call of one dispatch, or called; duplicates add up.  `ScopesInv`: the binding's stack and the backend's are in step, each error is in one place, a pop has closed its scope. |
| `Retention_proofs` | `ReferencesBalance` (`RefsCounted`), `ConversionsHoldLive` (`ConversionHoldsLive`), `AcceptedIsEmittedWhole` (`EmittedWhole`), `JoinLosesNothing` (`JoinComplete`) | `Went`: the stages gone through have accepted the input, from which what is emitted follows: each member has one body and the emitter picks it.  `WalkInv`: what a walk has found and what is pending hold the roots and all that what was found names.  `RetentionInv`: each kind of owner is counted by itself and the sum is native's count; a view made for a conversion is in one place; a handle that was read is in a full slot or in a request not yet run. |
| `Conversions_proofs` | `WindowsInBounds` (`SourceInBounds`), `FailedCallsLeaveNothing` (`ThrowLeavesNothing`), `ConversionsUnlocked` (`ArgumentsUnlocked`), `LabelsInStep` (`LabelsAgree`), `LimitsKept` (`LimitsHonoured`), `EveryMessageShown`, `ModulesRunOnce` | `WindowInv`: what was checked of a window holds until script is asked for a part of it again.  `CallInv`: native and the new object have only what a finished step gave them.  `LimitsInv`: the names read so far are requested as the integers they stand for, and a rejection has a name to blame.  `LockInv`: the locks held are those the steps done have taken and not let go.  `LabelInv`: between the two stores of a label nothing runs script.  For Messages and Loader: each message is shown once and in order, a place's factory runs at most once and no place is twice under way, the part of `MessagesPointAtSource` and of `OneModulePerPlace` that takes no fold. |
| `EngineValues_proofs` | `TypeCorrect`, `ReadsWhatItHolds` (`HandlesTrue`), `RootsAreHolders` (`RootsBalanced`), `DropIsClean` (`TeardownClean`), `AttributeIsOne` (`SameObject`) | `IInv`: see below. |

**The engine boundary's invariant** (`IInv`) is for all three engines at once.
`Shaped` is types; `Framed`, `Batched`, `Kept` say what a callback has on its stack
and in its scope, that a prepared value is owned by the tick's scope, and that the
functions of a promise are there as long as something is to settle it, up to
which step of the drop.  `Balanced` is the core of it: the weight an engine
gives a key (Boa's slot, JavaScriptCore's cell) is the number of places that hold
it (`Weighed`), every place that is counted holds a handle that reads what it was
issued for (`AllValid`), and a rooted object is alive (`Lively`).
`MockOnly` says that an alias belongs to one place of one frame.  Each is needed
for the others: that a handle reads its object follows only if the slot was not
given away, that is if its count is not zero, which it is not because the handle's
own place is counted.  A lemma per operation of the engines (`Insert`, `Duplicate`,
`ReleaseAll`, `EndScope`, ...) says what it does to weights and to other handles,
and is proved once for Boa and once for JavaScriptCore; the actions are then
proved from these.

`ImplementsMapContract` and `ImplementsLossContract` are refinements: initial
states of the detailed module are initial states of the contract, and each action
is an action of the contract or leaves its variables as they are.

**Assumptions.**  `ConstantsAssumption` (BufferMapping, CommandEncoder,
DeviceEvents), `KindsAreDisjoint` (RuntimeLifetime), `LimitsAssumption`,
`EventTargetAssumption`, `ErrorScopesAssumption`, `RetentionAssumption`,
`ConversionsAssumption`, `MessagesAssumption` and `EnginesAssumption` say that
bounds are numbers, that different kinds of thing are different, that the three
undefined numbers are in the order the C headers give them, and that plans,
wrappers and promises are finite.  `WorldsAssumption` (Generator) says that
interfaces, dictionaries and enums have different names and that the members of an
interface have, since they are grouped by name (lib.rs:1585 of the generator).
`PlansAssumption` (Conversions) says in which order a call's steps come: a window is
looked at after the last thing script was asked for it, a method converts before
native acts, nothing that asks script for a value comes between a lock and its release
(an error or a `builtin` may), and a label is stored for native and for script with nothing of script's in between.  It
is a fact about the tables of `Methods`, that is about the source; the theorems show
that it is enough, however script interferes between the steps.  TLC evaluates every
assumption on the runs.

**Model-checked only**, and why:

- Liveness under fairness (`EveryMapSettles`, `LossReported`, `PipelinesSettle`,
  `FinalizedIsFreed`), which is beyond the prover.
- `PlansInUse`: the derivation of a plan walks dictionaries recursively, and what a
  recursive definition yields for every schema takes an induction over data.
- The positions of `MessagesPointAtSource` and the paths of `OneModulePerPlace` are
  folds over the source and over a path, for the same reason; the rest of both is
  proved.
- `AsInterface`: it compares what script gets with a second definition of what Web
  IDL says, member by member, over finite tables of classes.
- `ErrorsOwned`, `NeverStuck`, `TeardownReleasesAll` do not hold (section 4).  `ReadsWhatItHolds` therefore speaks of
  everything core holds but for an error JavaScriptCore threw at a preparation, and
  `ConversionsUnlocked` of every wait for a lock but those of the finding.
- `OneValue`: that no value is read twice is a fact about the tables in
  `Descriptors` and `Methods`, which are finite and which the run goes through
  completely; as an assumption about them it would be the theorem.

## 6. Plan

What could come next, most important first.

1. An abstract specification of RuntimeLifetime (an owner per handle), and its
   refinement.
2. `AsInterface` for Boa's object model, where it is a question of lookup order only.
3. The bodies of the dictionaries' converters as the generator emits them, in place
   of the checked-in `full_surface.rs`.

## 7. What is not modelled

- **FFI bindings** (`src/ffi`) are declarations; the **CTS runner**, the **examples**,
  spikes and parity tests are clients of the system and not part of it.
- **Data.**  BufferMapping has no alignment and no bounds check of a span against the
  buffer, which are checks without a state.  CommandEncoder has no arguments
  other than the objects whose state a check looks at.  The strings, numbers and
  array buffers that adapters convert, Boa's console and requestAdapter's options
  are left out.
- **DeviceEvents** has no native references, and does not wrap a device that is
  lost already.
- **Orders that make no difference to the properties.**  The release queue is a
  count per handle in RuntimeLifetime; the handles inside a payload or a request
  are counts in Retention; the generator's output has no order of text.
- **The generator's parsers** of WebIDL, YAML and C headers, and the text it writes;
  the converters it emits are modelled from the checked-in `full_surface.rs`.
- **JavaScriptCore's class prototypes.**  `register_class` keeps an interface's
  prototype (imp.rs:1897) without protecting it and `new_instance` uses it; what keeps it
  alive is the constructor, a property of the global object.  EngineValues takes
  script to leave that property where it is, and has only the functions of the
  methods, which are protected.
- **A host that moves the backend's error-scope stack** itself.
- **Hazards without a property**: an uncaptured error that follows the loss by a
  batch (1001), and the views of a null create (lifecycle.rs:1203), which the code
  does lose.

## 8. Running it

In this directory, with `tlc`, `tlapm` and the community modules on the path:

    tlc -workers 2 -config MCRetention.cfg MCRetention
    tlapm Retention_proofs.tla

`runs` in `PROJECT.json` lists module and configuration of each run.  With two workers
the long runs take one to three minutes (conversions and mapping are the
longest), the others seconds.  The proofs of EngineValues take about a quarter of an hour,
those of Retention five minutes, those of ErrorScopes and DeviceEvents about four, the
others about two.
