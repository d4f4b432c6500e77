--------------------------- MODULE BufferMapping ---------------------------
(***************************************************************************)
(* GPUBuffer mapping, from core/src/lib.rs.                                *)
(*                                                                         *)
(* A buffer's BufferState (mapped, pending_map, canceling_map, ranges) is  *)
(* changed by three parties that never see each other's stack: script      *)
(* (mapAsync, getMappedRange, unmap, destroy), the backend's map callbacks *)
(* (fired inside ProcessEvents only), and the settlement drain, which      *)
(* starts the native map of a request that arrived while an earlier map    *)
(* was still being cancelled.  A fourth one, the garbage collector, drops  *)
(* the wrapper at any moment; its native handle is released at the end of  *)
(* the tick.                                                               *)
(*                                                                         *)
(* A map id is the mapAsync call that drew it: next_map_id is a 64-bit     *)
(* counter, so ids are fresh for as long as a process can live.            *)
(***************************************************************************)
EXTENDS Naturals, Sequences

CONSTANTS
    Buffers,     \* GPUBuffer wrappers of one device
    Calls,       \* mapAsync calls, each with the promise it returned
    Spans,       \* the bytes getMappedRange is asked for: an offset and a size
    MaxUsize,    \* usize::MAX, which bounds both and their checked sum
    None,        \* Option::None
    AtCreation   \* the mapping made by mappedAtCreation: true

ASSUME ConstantsAssumption ==
    /\ None \notin Calls
    /\ AtCreation \notin Calls
    /\ None # AtCreation
    /\ MaxUsize \in Nat
    /\ Spans \subseteq [offset : 0..MaxUsize, size : 0..MaxUsize]

VARIABLES
    \* BufferState, one per buffer
    destroyed, mapped, pendingMap, cancelingMap, ranges,
    \* the JavaScript side: wrappers, the promises, the device's destroyed flag
    wrapper, promise, deviceDestroyed,
    \* the environment's queues, the records a drain has prepared and not yet
    \* settled, and where tick() is
    settlements, batch, releases, phase,
    \* the backend: each native buffer, and the map futures not yet called back
    native, futures,
    \* history: the calls whose granted mapping script ended before they settled
    takenBack

bufferVars == <<destroyed, mapped, pendingMap, cancelingMap, ranges>>
queueVars == <<settlements, batch, releases, phase>>
nativeVars == <<native, futures>>
vars == <<bufferVars, wrapper, promise, deviceDestroyed, queueVars, nativeVars, takenBack>>

Verdicts == {"Success", "OperationError", "AbortError"}

Request == [kind : {"StartMap"} \cup Verdicts, call : Calls, buffer : Buffers]
Prepared == [kind : Verdicts, call : Calls, buffer : Buffers]

Future == [call   : Calls,
           buffer : Buffers,
           status : {"Waiting", "Error", "Aborted"}]

NativeBuffer == [st : {"unmapped", "pending", "mapped", "destroyed", "freed"},
                 by : Calls \cup {None, AtCreation}]

Range == [span : Spans, by : Calls \cup {None, AtCreation}]

Phases == {"host", "events", "drain", "settle", "microtasks", "release"}

TypeOK ==
    /\ destroyed \in [Buffers -> BOOLEAN]
    /\ mapped \in [Buffers -> BOOLEAN]
    /\ pendingMap \in [Buffers -> Calls \cup {None}]
    /\ cancelingMap \in [Buffers -> Calls \cup {None}]
    /\ ranges \in [Buffers -> SUBSET Range]
    /\ wrapper \in [Buffers -> {"live", "finalized"}]
    /\ promise \in [Calls -> {"unused", "pending", "fulfilled",
                              "OperationError", "AbortError"}]
    /\ deviceDestroyed \in BOOLEAN
    /\ settlements \in Seq(Request)
    /\ batch \in Seq(Prepared)
    /\ releases \in Seq(Buffers)
    /\ phase \in Phases
    /\ native \in [Buffers -> NativeBuffer]
    /\ futures \in SUBSET Future
    /\ takenBack \in SUBSET Calls

----------------------------------------------------------------------------
(* The backend, from how webgpu.h is used: a native buffer has at most one *)
(* pending map; unmapping, destroying or freeing it completes that map as  *)
(* aborted; the callback of a completed map waits for ProcessEvents.       *)

Aborted(fs, bs) ==
    {IF f.buffer \in bs /\ f.status = "Waiting" THEN [f EXCEPT !.status = "Aborted"]
                                                ELSE f : f \in fs}

NativeMapAsync(b, c) ==
    \/ /\ native[b].st = "unmapped"
       /\ native' = [native EXCEPT ![b] = [st |-> "pending", by |-> c]]
       /\ futures' = futures \cup {[call |-> c, buffer |-> b, status |-> "Waiting"]}
    \/ /\ native[b].st \in {"pending", "mapped", "destroyed"}
       /\ futures' = futures \cup
            {[call |-> c, buffer |-> b,
              status |-> IF deviceDestroyed THEN "Aborted" ELSE "Error"]}
       /\ UNCHANGED native
    \/ \* a handle the binding has already released: an error, or no answer at all
       /\ native[b].st = "freed"
       /\ \/ futures' = futures \cup {[call |-> c, buffer |-> b, status |-> "Error"]}
          \/ UNCHANGED futures
       /\ UNCHANGED native

NativeUnmap(b) ==
    /\ native' = [native EXCEPT ![b] =
                    IF @.st \in {"pending", "mapped"} THEN [st |-> "unmapped", by |-> None]
                                                      ELSE @]
    /\ futures' = Aborted(futures, {b})

NativeDestroy(bs) ==
    /\ native' = [b \in Buffers |->
                    IF b \in bs /\ native[b].st # "freed" THEN [st |-> "destroyed", by |-> None]
                                                          ELSE native[b]]
    /\ futures' = Aborted(futures, bs)

NativeRelease(b) ==
    /\ native' = [native EXCEPT ![b] = [st |-> "freed", by |-> None]]
    /\ futures' = Aborted(futures, {b})

----------------------------------------------------------------------------
(* A buffer starts out unmapped, or mapped by mappedAtCreation.            *)

Init ==
    /\ mapped \in [Buffers -> BOOLEAN]
    /\ native = [b \in Buffers |-> IF mapped[b] THEN [st |-> "mapped", by |-> AtCreation]
                                                ELSE [st |-> "unmapped", by |-> None]]
    /\ destroyed = [b \in Buffers |-> FALSE]
    /\ pendingMap = [b \in Buffers |-> None]
    /\ cancelingMap = [b \in Buffers |-> None]
    /\ ranges = [b \in Buffers |-> {}]
    /\ wrapper = [b \in Buffers |-> "live"]
    /\ promise = [c \in Calls |-> "unused"]
    /\ deviceDestroyed = FALSE
    /\ settlements = <<>>
    /\ batch = <<>>
    /\ releases = <<>>
    /\ phase = "host"
    /\ futures = {}
    /\ takenBack = {}

(* Script runs between ticks, and inside one while microtasks (and, under  *)
(* frame(), the callback) run.  It also runs inside the drain: preparing a *)
(* rejection sets the name of an error, which calls a setter script put on *)
(* Error.prototype; other records of the same queue make instances; and a  *)
(* promise settled with an object has its "then" looked up.  It can call   *)
(* what it can still reach.                                                *)
ScriptRuns == phase \in {"host", "drain", "settle", "microtasks"}

CanCall(b) == ScriptRuns /\ wrapper[b] = "live"

Enqueue(kind, b, c) ==
    settlements' = Append(settlements, [kind |-> kind, call |-> c, buffer |-> b])

(* Calls are taken in one fixed order: which name a call has is no matter. *)
NextCall(c) == promise[c] = "unused" /\ c = CHOOSE d \in Calls : promise[d] = "unused"

(* mapAsync on a destroyed buffer: a queued OperationError.                *)
MapAsyncDestroyed(b, c) ==
    /\ CanCall(b) /\ promise[c] = "unused"
    /\ destroyed[b]
    /\ promise' = [promise EXCEPT ![c] = "pending"]
    /\ Enqueue("OperationError", b, c)
    /\ UNCHANGED <<bufferVars, wrapper, deviceDestroyed, batch, releases, phase, nativeVars,
                   takenBack>>

(* mapAsync on a mapped or pending buffer: rejected before it returns.     *)
MapAsyncBusy(b, c) ==
    /\ CanCall(b) /\ promise[c] = "unused"
    /\ ~destroyed[b]
    /\ mapped[b] \/ pendingMap[b] # None
    /\ promise' = [promise EXCEPT ![c] = "OperationError"]
    /\ UNCHANGED <<bufferVars, wrapper, deviceDestroyed, queueVars, nativeVars, takenBack>>

(* mapAsync accepted: the native map starts now, or, while an earlier map  *)
(* is still being cancelled, when the settlement queue is drained.         *)
MapAsyncAccepted(b, c) ==
    /\ CanCall(b) /\ promise[c] = "unused"
    /\ ~destroyed[b] /\ ~mapped[b] /\ pendingMap[b] = None
    /\ promise' = [promise EXCEPT ![c] = "pending"]
    /\ pendingMap' = [pendingMap EXCEPT ![b] = c]
    /\ \/ /\ cancelingMap[b] # None
          /\ Enqueue("StartMap", b, c)
          /\ UNCHANGED nativeVars
       \/ /\ cancelingMap[b] = None
          /\ NativeMapAsync(b, c)
          /\ UNCHANGED settlements
    /\ UNCHANGED <<destroyed, mapped, cancelingMap, ranges, wrapper, deviceDestroyed,
                   batch, releases, phase, takenBack>>

End(s) == s.offset + s.size

(* Mutant: a span is refused only if it begins inside an earlier one.      *)
OverlapsWhereItBegins(first, second) ==
    first.offset >= second.offset /\ first.offset < End(second)

(* A sum that overflows overlaps everything; an empty span overlaps what   *)
(* it lies strictly inside, not what it touches.                           *)
MappedRangesOverlap(first, second) ==
    \/ End(first) > MaxUsize
    \/ End(second) > MaxUsize
    \/ ~(first.offset >= End(second) \/ second.offset >= End(first))

(* getMappedRange over a span that no tracked one overlaps.  The backend   *)
(* answers null for one it does not map; every refusal leaves the state    *)
(* alone.  Asking twice for the same empty span tracks one more copy of    *)
(* nothing, which the set of ranges does not tell.                         *)
GetMappedRange(b, s) ==
    /\ CanCall(b)
    /\ ~destroyed[b] /\ mapped[b]
    /\ \A r \in ranges[b] : ~MappedRangesOverlap(s, r.span)
    /\ native[b].st = "mapped"
    /\ ranges' = [ranges EXCEPT ![b] = @ \cup {[span |-> s, by |-> native[b].by]}]
    /\ UNCHANGED <<destroyed, mapped, pendingMap, cancelingMap, wrapper, promise,
                   deviceDestroyed, queueVars, nativeVars, takenBack>>

(* The unsettled calls whose mappings of these buffers are in force.       *)
Granted(bs) == {c \in Calls : /\ promise[c] = "pending"
                              /\ \E b \in bs : native[b] = [st |-> "mapped", by |-> c]}

(* unmap: cancels a pending map, detaches every range, then unmaps.        *)
CancelPending(b) ==
    /\ pendingMap' = [pendingMap EXCEPT ![b] = None]
    /\ cancelingMap' = [cancelingMap EXCEPT ![b] =
                          IF pendingMap[b] # None THEN pendingMap[b] ELSE @]

Unmap(b) ==
    /\ CanCall(b)
    /\ ~destroyed[b]
    /\ CancelPending(b)
    /\ ranges' = [ranges EXCEPT ![b] = IF mapped[b] THEN {} ELSE @]
    /\ IF mapped[b] \/ pendingMap[b] # None THEN NativeUnmap(b) ELSE UNCHANGED nativeVars
    /\ takenBack' = takenBack \cup Granted({b})
    /\ mapped' = [mapped EXCEPT ![b] = FALSE]
    /\ UNCHANGED <<destroyed, wrapper, promise, deviceDestroyed, queueVars>>

(* The engine refuses to detach a range: unmap throws, after the ranges    *)
(* were taken and before the native unmap.                                 *)
UnmapDetachFails(b) ==
    /\ CanCall(b)
    /\ ~destroyed[b] /\ mapped[b] /\ ranges[b] # {}
    /\ CancelPending(b)
    /\ ranges' = [ranges EXCEPT ![b] = {}]
    /\ UNCHANGED <<destroyed, mapped, wrapper, promise, deviceDestroyed, queueVars, nativeVars,
                   takenBack>>

(* destroy: canceling_map becomes whatever was pending, None included.     *)
Destroy(b) ==
    /\ CanCall(b)
    /\ ~destroyed[b]
    /\ cancelingMap' = [cancelingMap EXCEPT ![b] = pendingMap[b]]
    /\ pendingMap' = [pendingMap EXCEPT ![b] = None]
    /\ ranges' = [ranges EXCEPT ![b] = {}]
    /\ \/ /\ NativeDestroy({b})
          /\ destroyed' = [destroyed EXCEPT ![b] = TRUE]
          /\ mapped' = [mapped EXCEPT ![b] = FALSE]
          /\ takenBack' = takenBack \cup Granted({b})
       \/ /\ ranges[b] # {}     \* a detach failed: destroy throws here
          /\ UNCHANGED <<destroyed, mapped, nativeVars, takenBack>>
    /\ UNCHANGED <<wrapper, promise, deviceDestroyed, queueVars>>

(* A BufferState lives while its wrapper does, or a map request holds it.  *)
LiveState(b) ==
    \/ wrapper[b] = "live"
    \/ \E f \in futures : f.buffer = b
    \/ \E i \in DOMAIN settlements : settlements[i].kind = "StartMap" /\ settlements[i].buffer = b

(* device.destroy(): every live buffer is cancelled and unmapped, but not  *)
(* flagged destroyed; the native device destroys the native buffers.       *)
DeviceDestroy ==
    /\ ScriptRuns
    /\ ~deviceDestroyed
    /\ ranges' = [b \in Buffers |-> IF LiveState(b) THEN {} ELSE ranges[b]]
    /\ \/ /\ cancelingMap' = [b \in Buffers |-> IF LiveState(b) THEN pendingMap[b]
                                                               ELSE cancelingMap[b]]
          /\ pendingMap' = [b \in Buffers |-> IF LiveState(b) THEN None ELSE pendingMap[b]]
          /\ mapped' = [b \in Buffers |-> mapped[b] /\ ~LiveState(b)]
          /\ deviceDestroyed' = TRUE
          /\ NativeDestroy(Buffers)
          /\ takenBack' = takenBack \cup Granted(Buffers)
       \/ /\ \E b \in Buffers : LiveState(b) /\ ranges[b] # {}  \* a detach failed
          /\ UNCHANGED <<cancelingMap, pendingMap, mapped, deviceDestroyed, nativeVars,
                         takenBack>>
    /\ UNCHANGED <<destroyed, wrapper, promise, queueVars>>

(* The collector drops a wrapper, on any thread and at any moment: the     *)
(* finalizer lets the ranges go and only enqueues the native release.      *)
Finalize(b) ==
    /\ wrapper[b] = "live"
    /\ wrapper' = [wrapper EXCEPT ![b] = "finalized"]
    /\ ranges' = [ranges EXCEPT ![b] = {}]
    /\ releases' = Append(releases, b)
    /\ UNCHANGED <<destroyed, mapped, pendingMap, cancelingMap, promise, deviceDestroyed,
                   settlements, batch, phase, nativeVars, takenBack>>

----------------------------------------------------------------------------
(* tick(): ProcessEvents, the settlement drain, microtasks, releases.  The *)
(* drain prepares the queued records one by one and settles what it has    *)
(* prepared as one batch, in order.                                        *)

BeginTick ==
    /\ phase = "host"
    /\ phase' = "events"
    /\ UNCHANGED <<bufferVars, wrapper, promise, deviceDestroyed, settlements, batch, releases,
                   nativeVars, takenBack>>

(* Mutant: the backend's status decides, cancelled or not.                 *)
SettlementByStatus(canceled, status) ==
    CASE status = "Success" -> "Success"
      [] status = "Aborted" -> "AbortError"
      [] OTHER -> "OperationError"

Settlement(canceled, status) ==
    IF canceled \/ status = "Aborted" THEN "AbortError"
    ELSE IF status = "Success" THEN "Success" ELSE "OperationError"

(* buffer_map_callback.  A request that is no longer the buffer's pending  *)
(* one has been cancelled, whatever the backend says of it.                *)
MapCallback(f, status) ==
    LET b == f.buffer
        canceled == pendingMap[b] # f.call
    IN  /\ Enqueue(Settlement(canceled, status), b, f.call)
        /\ pendingMap' = [pendingMap EXCEPT ![b] = IF canceled THEN @ ELSE None]
        /\ cancelingMap' = [cancelingMap EXCEPT ![b] =
                              IF canceled /\ @ = f.call THEN None ELSE @]
        /\ mapped' = [mapped EXCEPT ![b] = @ \/ (~canceled /\ status = "Success")]

CompleteMap(f, status) ==
    /\ phase = "events"
    /\ f \in futures
    /\ \/ /\ f.status = "Waiting"
          /\ native' = [native EXCEPT ![f.buffer] =
                          IF status = "Success" THEN [st |-> "mapped", by |-> f.call]
                                                ELSE [st |-> "unmapped", by |-> None]]
       \/ /\ f.status = status
          /\ UNCHANGED native
    /\ futures' = futures \ {f}
    /\ MapCallback(f, status)
    /\ UNCHANGED <<destroyed, ranges, wrapper, promise, deviceDestroyed, batch, releases, phase,
                   takenBack>>

(* ProcessEvents returns once every completed map has been called back.    *)
EndEvents ==
    /\ phase = "events"
    /\ \A f \in futures : f.status = "Waiting"
    /\ phase' = "drain"
    /\ UNCHANGED <<bufferVars, wrapper, promise, deviceDestroyed, settlements, batch, releases,
                   nativeVars, takenBack>>

(* Mutant: a start whose request was cancelled is dropped, deferred and all. *)
StartDeferredMapDropsCanceled ==
    /\ phase = "drain" /\ settlements # <<>>
    /\ Head(settlements).kind = "StartMap"
    /\ IF pendingMap[Head(settlements).buffer] = Head(settlements).call
       THEN NativeMapAsync(Head(settlements).buffer, Head(settlements).call)
       ELSE UNCHANGED nativeVars
    /\ settlements' = Tail(settlements)
    /\ UNCHANGED <<bufferVars, wrapper, promise, deviceDestroyed, batch, releases, phase,
                   takenBack>>

(* SettlementRequest::prepare of a StartMap: it starts the native map of   *)
(* its request whatever happened to the buffer since it was queued.        *)
StartDeferredMap ==
    /\ phase = "drain" /\ settlements # <<>>
    /\ Head(settlements).kind = "StartMap"
    /\ NativeMapAsync(Head(settlements).buffer, Head(settlements).call)
    /\ settlements' = Tail(settlements)
    /\ UNCHANGED <<bufferVars, wrapper, promise, deviceDestroyed, batch, releases, phase,
                   takenBack>>

(* The others join the batch.  Whatever script does meanwhile, the record  *)
(* keeps the verdict it was queued with.                                   *)
PrepareSettlement ==
    /\ phase = "drain" /\ settlements # <<>>
    /\ Head(settlements).kind # "StartMap"
    /\ batch' = Append(batch, Head(settlements))
    /\ settlements' = Tail(settlements)
    /\ UNCHANGED <<bufferVars, wrapper, promise, deviceDestroyed, releases, phase, nativeVars,
                   takenBack>>

(* The loop ends when a pop finds the queue empty: what script queues      *)
(* while records are prepared is part of this drain, what it queues while  *)
(* they settle is left for the next.                                       *)
EndPrepare ==
    /\ phase = "drain" /\ settlements = <<>>
    /\ phase' = "settle"
    /\ UNCHANGED <<bufferVars, wrapper, promise, deviceDestroyed, settlements, batch, releases,
                   nativeVars, takenBack>>

SettlePromise ==
    /\ phase = "settle" /\ batch # <<>>
    /\ promise' = [promise EXCEPT ![Head(batch).call] =
                     IF Head(batch).kind = "Success" THEN "fulfilled" ELSE Head(batch).kind]
    /\ batch' = Tail(batch)
    /\ takenBack' = takenBack \ {Head(batch).call}
    /\ UNCHANGED <<bufferVars, wrapper, deviceDestroyed, settlements, releases, phase,
                   nativeVars>>

EndDrain ==
    /\ phase = "settle" /\ batch = <<>>
    /\ phase' = "microtasks"
    /\ UNCHANGED <<bufferVars, wrapper, promise, deviceDestroyed, settlements, batch, releases,
                   nativeVars, takenBack>>

EndMicrotasks ==
    /\ phase = "microtasks"
    /\ phase' = "release"
    /\ UNCHANGED <<bufferVars, wrapper, promise, deviceDestroyed, settlements, batch, releases,
                   nativeVars, takenBack>>

(* Mutant: releases are drained before the batch is settled.               *)
ReleaseBufferEarly ==
    /\ phase \in {"settle", "release"} /\ releases # <<>>
    /\ NativeRelease(Head(releases))
    /\ releases' = Tail(releases)
    /\ UNCHANGED <<bufferVars, wrapper, promise, deviceDestroyed, settlements, batch, phase,
                   takenBack>>

ReleaseBuffer ==
    /\ phase = "release" /\ releases # <<>>
    /\ NativeRelease(Head(releases))
    /\ releases' = Tail(releases)
    /\ UNCHANGED <<bufferVars, wrapper, promise, deviceDestroyed, settlements, batch, phase,
                   takenBack>>

EndTick ==
    /\ phase = "release" /\ releases = <<>>
    /\ phase' = "host"
    /\ UNCHANGED <<bufferVars, wrapper, promise, deviceDestroyed, settlements, batch, releases,
                   nativeVars, takenBack>>

Script ==
    \/ \E b \in Buffers, c \in Calls :
          /\ NextCall(c)
          /\ \/ MapAsyncDestroyed(b, c)
             \/ MapAsyncBusy(b, c)
             \/ MapAsyncAccepted(b, c)
    \/ \E b \in Buffers, s \in Spans : GetMappedRange(b, s)
    \/ \E b \in Buffers : Unmap(b) \/ UnmapDetachFails(b) \/ Destroy(b)
    \/ DeviceDestroy

Tick ==
    \/ BeginTick
    \/ EndEvents
    \/ StartDeferredMap
    \/ PrepareSettlement
    \/ EndPrepare
    \/ SettlePromise
    \/ EndDrain
    \/ EndMicrotasks
    \/ ReleaseBuffer
    \/ EndTick

Backend == \E f \in futures, status \in {"Success", "Error", "Aborted"} : CompleteMap(f, status)

Next == Script \/ Tick \/ Backend \/ \E b \in Buffers : Finalize(b)

Spec == Init /\ [][Next]_vars

(* The host keeps ticking and the backend does not put maps off for ever:  *)
(* a future is only called back while ProcessEvents runs, hence SF.        *)
Fairness == WF_vars(Tick) /\ SF_vars(Backend)
FairSpec == Spec /\ Fairness

----------------------------------------------------------------------------
(* Safety.                                                                 *)

(* getMappedRange hands script memory whenever BufferState says mapped: a  *)
(* buffer script can reach is mapped there only while the backend has it   *)
(* mapped too, whatever was cancelled, restarted or destroyed in between.  *)
MappedByBackend ==
    \A b \in Buffers : wrapper[b] = "live" /\ mapped[b] => native[b].st = "mapped"

(* unmap copies each tracked range back through the native pointer it was  *)
(* created with: a tracked range always belongs to the mapping the backend *)
(* has in force, never to an earlier one.                                  *)
RangesInForce ==
    \A b \in Buffers : \A r \in ranges[b] : native[b].st = "mapped" /\ native[b].by = r.by

(* Each range is a copy of its bytes, written back on its own by unmap: no *)
(* byte is in two of them, or the order of the write-backs would show.     *)
Bytes(s) == s.offset .. (End(s) - 1)

RangesApart ==
    \A b \in Buffers : \A r, q \in ranges[b] : r # q => Bytes(r.span) \cap Bytes(q.span) = {}

(* The memory script has been handed is that of the mapping in force, once *)
(* each byte.                                                              *)
MappedAgrees == MappedByBackend /\ RangesInForce /\ RangesApart

(* A call is outstanding on a buffer while its MapRequest exists: queued   *)
(* to be started, or with the backend.                                     *)
Outstanding(b, c) ==
    \/ \E f \in futures : f.buffer = b /\ f.call = c
    \/ \E i \in DOMAIN settlements :
          settlements[i] = [kind |-> "StartMap", call |-> c, buffer |-> b]

(* When mapAsync's promise is fulfilled, the buffer is mapped and by that  *)
(* very call, unless script itself, running inside the drain, has ended    *)
(* the mapping since the callback granted it: no deferred start, late      *)
(* callback, finalizer or release came between the two.                    *)
FulfilledInForce ==
    [][\A c \in Calls \ takenBack :
          promise[c] # "fulfilled" /\ promise'[c] = "fulfilled"
          => /\ mapped[Head(batch).buffer]
             /\ native[Head(batch).buffer] = [st |-> "mapped", by |-> c]]_vars

----------------------------------------------------------------------------
(* Refinement: what script sees of a buffer and its promises is what       *)
(* MapContract allows.                                                     *)

MapState == [b \in Buffers |-> IF mapped[b] THEN "mapped"
                               ELSE IF pendingMap[b] # None THEN "pending" ELSE "unmapped"]

(* The records on their way to the trampoline, oldest first.               *)
Recorded == batch \o settlements

(* The fate of an unsettled promise is its recorded settlement if there is *)
(* one; before that, the request is still asked for, or was cancelled.     *)
FateOf(c) ==
    LET queued == {i \in DOMAIN Recorded : /\ Recorded[i].call = c
                                          /\ Recorded[i].kind # "StartMap"}
    IN  IF promise[c] # "pending" THEN promise[c]
        ELSE IF queued # {} THEN CASE Recorded[CHOOSE i \in queued : TRUE].kind = "Success"
                                        -> "granted"
                                   [] Recorded[CHOOSE i \in queued : TRUE].kind = "AbortError"
                                        -> "aborting"
                                   [] OTHER -> "failing"
        ELSE IF \E b \in Buffers : pendingMap[b] = c THEN "asked" ELSE "aborting"

Contract == INSTANCE MapContract WITH
                mapState <- MapState,
                asked <- pendingMap,
                fate <- [c \in Calls |-> FateOf(c)]

(* mapAsync, unmap and destroy as the code implements them, with its two   *)
(* queues and the backend's callbacks, keep the contract: in particular a  *)
(* map cancelled before its callback ends in AbortError even when the      *)
(* backend reports that it succeeded.                                      *)
KeepsMapContract == Contract!Spec

----------------------------------------------------------------------------
(* Liveness: with a host that keeps ticking, every map request of a buffer *)
(* script still holds is settled, cancelled and deferred ones included.    *)
EveryMapSettles ==
    \A b \in Buffers, c \in Calls :
       Outstanding(b, c) ~> (promise[c] # "pending" \/ wrapper[b] = "finalized")

=============================================================================
