----------------------------- MODULE EngineValues -----------------------------
(***************************************************************************)
(* Who keeps a JavaScript value alive while core holds it.  Core sees an   *)
(* engine through JsEngine: the values an operation returns belong to the  *)
(* scope of the running callback, a value kept longer is duplicated, the   *)
(* functions of a promise are kept from the call to the tick that settles  *)
(* it, and the runtime's drop gives everything back.  The three engines    *)
(* root values in three ways (BoaArena, JscLedger, MockScope).             *)
(*                                                                         *)
(* Wrappers carry a payload with a cached attribute and an event handler;  *)
(* other objects are plain.  A collected object's name may be given to a   *)
(* new one, as an address is.  Scripts are trusted to leave the built-ins  *)
(* alone, as the repository assumes.                                       *)
(***************************************************************************)
EXTENDS Integers, Sequences, SequencesExt, FiniteSets

CONSTANTS Wrappers, Plain, Promises, Engines, None,
          MaxDepth, MaxOwned, MaxAliases, MaxRegistrations, MaxFocus

Objects == Wrappers \cup Plain
Resolvers == {"resolve", "reject"}
Trampoline == <<"trampoline">>
Prototype  == <<"prototype">>
Function(p, r) == <<r, p>>
Functions == {Function(p, r) : p \in Promises, r \in Resolvers}
Cells == Objects \cup Functions \cup {Trampoline, Prototype}
\* Where a payload holds a value, and where a pending promise has its functions.
Fields == Wrappers \X {"attribute", "handler"}
Halves == Promises \X Resolvers

ASSUME EnginesAssumption ==
  /\ Engines \subseteq {"boa", "jsc", "mock"} /\ IsFiniteSet(Wrappers) /\ IsFiniteSet(Promises)
  /\ None \notin Cells /\ Wrappers \cap Plain = {} /\ Objects \cap (Functions \cup {Trampoline, Prototype}) = {}
  /\ {MaxDepth, MaxOwned, MaxAliases, MaxRegistrations} \subseteq Nat

B == INSTANCE BoaArena
J == INSTANCE JscLedger
M == INSTANCE MockScope

VARIABLES
  engine,      \* which of them runs
  focus,       \* what callbacks and the host do in this behaviour
  phase,       \* "running", then the steps of the drop, then "done"
  store,       \* the engine's roots
  script,      \* the objects script reaches
  live,        \* the objects that are not collected
  frames,      \* the callbacks and the tick that run
  payload,     \* what a wrapper's payload holds: a cached attribute, an event handler
  deferred,    \* where a promise's deferred is
  functions,   \* and its two functions
  outstanding, \* the registered deferreds of requests
  removals,    \* Boa: registrations dropped and not yet taken out
  batch,       \* what the tick has prepared to settle: of a promise, the value
  host,        \* handles the host keeps
  classes,     \* the prototypes or method objects of registered classes
  finalizing,  \* JSC's finalizer thread: values a finalizer is to enqueue, cell -> number
  passed,      \* and those for which it has seen that the flag is not up
  dangling     \* the drop has touched a request that was gone
vars == <<engine, focus, phase, store, script, live, frames, payload, deferred, functions, outstanding,
          removals, batch, host, classes, finalizing, passed, dangling>>

NoHandle == [of |-> None, ref |-> 0]

(***************************************************************************)
(* The operations of JsEngine on the store s of the engine that runs.      *)
(***************************************************************************)
\* get_property, call, construct and the like: a value the scope owns.
Returned(s, c) ==
  CASE engine = "boa" -> B!Returned(s, c) [] engine = "jsc" -> J!Returned(s, c) [] engine = "mock" -> M!Returned(s, c)
\* new_instance and the like: an object made for core.
Made(s, c) ==
  CASE engine = "boa" -> B!Made(s, c) [] engine = "jsc" -> J!Made(s, c) [] engine = "mock" -> M!Made(s, c)
\* An error core is given, or makes.
Thrown(s, c) ==
  CASE engine = "boa" -> B!Thrown(s, c) [] engine = "jsc" -> J!Thrown(s, c) [] engine = "mock" -> M!Thrown(s, c)
Entered(s, this, args) ==
  CASE engine = "boa" -> B!Entered(s, this, args) [] engine = "jsc" -> J!Entered(s, this, args)
    [] engine = "mock" -> M!Entered(s, this, args)
EndScope(s, hs) ==
  CASE engine = "boa" -> B!EndScope(s, hs) [] engine = "jsc" -> J!EndScope(s, hs) [] engine = "mock" -> M!EndScope(s, hs)
\* duplicate_value and the handle it returns, which in the mock is the value itself.
Duplicate(s, h) ==
  CASE engine = "boa" -> B!Duplicate(s, h) [] engine = "jsc" -> J!Protect(s, h.of)
    [] engine = "mock" -> M!DuplicateValue(s, h.of)
Duplicated(h) == IF engine = "mock" THEN M!Canonical(h.of) ELSE h
\* release_value, of the handles hs by where they were kept; the places that are empty have NoHandle.
ReleaseAll(s, hs) ==
  CASE engine = "boa" -> B!ReleaseAll(s, hs) [] engine = "jsc" -> J!UnprotectAll(s, hs)
    [] engine = "mock" -> M!ReleaseValues(s, hs)
Release(s, h) == ReleaseAll(s, <<h>>)
\* The object a handle reads, or None.
Reads(h) ==
  CASE engine = "boa" -> B!Get(store, h) [] engine = "jsc" -> h.of
    [] engine = "mock" -> IF M!Reads(store, h) THEN h.of ELSE None
Rooted ==
  CASE engine = "boa" -> B!Rooted(store) [] engine = "jsc" -> J!Rooted(store) [] engine = "mock" -> Cells

(***************************************************************************)
(* Frames: a callback with its receiver and its argument, or the tick.     *)
(* The engine's own stack keeps the receiver and the argument alive; JSC   *)
(* sees what is on the machine stack and nothing in Rust's heap.           *)
(***************************************************************************)
Depth == Len(frames)
NoFrame == [kind |-> "none", step |-> "none"]
Top   == IF frames = <<>> THEN NoFrame ELSE frames[Depth]
SetTop(f) == frames' = [frames EXCEPT ![Depth] = f]
InCall == phase = "running" /\ Top.kind = "call"
InTick == phase = "running" /\ Top.kind = "tick"
Stack  == UNION {frames[i].stack : i \in DOMAIN frames}
\* Script runs from the host, where a callback makes its value, and when promises settle; wherever
\* else a callback calls it, what its own frame holds is the same.  Naming an error JSC makes for a
\* rejection assigns a property, and script may have given it a setter.
ScriptRuns ==
  phase = "running" /\ (Top.step \in {"none", "making", "settling", "drain"} \/ (engine = "jsc" /\ Top.step = "prepare"))

Frame(kind, this, arg, owned, stack) ==
  [kind |-> kind, step |-> IF kind = "tick" THEN "pump" ELSE "body", this |-> this, arg |-> arg,
   owned |-> owned, stack |-> stack, result |-> NoHandle]

\* What is instantiated together: MaxFocus of the ways core comes to hold a value.
Focuses == {f \in SUBSET {"attribute", "handler", "promise", "class", "host"} : Cardinality(f) = MaxFocus}

Init ==
  /\ engine \in Engines /\ phase = "running" /\ focus \in Focuses
  /\ live = Objects /\ script = live
  /\ store = CASE engine = "boa" -> B!Insert(B!Arena, Trampoline)
               [] engine = "jsc" -> J!Protect(J!Ledger, Trampoline) [] engine = "mock" -> M!Values
  /\ frames = <<>> /\ payload = [x \in Fields |-> NoHandle]
  /\ deferred = [p \in Promises |-> "none"] /\ functions = [x \in Halves |-> NoHandle]
  /\ outstanding = {} /\ removals = {} /\ batch = <<>> /\ host = <<>> /\ classes = <<>>
  /\ finalizing = [c \in Cells |-> 0] /\ passed = finalizing /\ dangling = FALSE

heap  == <<engine, focus, phase, script, live>>
async == <<deferred, functions, outstanding, removals, batch>>
rest  == <<host, classes, finalizing, passed, dangling>>

(***************************************************************************)
(* Callbacks.                                                              *)
(***************************************************************************)
\* Script calls a method or an accessor.
Call(w, args) ==
  LET e == Entered(store, w, args) IN
  /\ ScriptRuns /\ Depth < MaxDepth /\ w \in script \cap Wrappers
  /\ store' = e.store
  /\ frames' = Append(frames, Frame("call", e.handles[1], IF args = <<>> THEN NoHandle ELSE e.handles[2],
                                    IF engine = "boa" THEN e.handles ELSE <<>>, {w} \cup Range(args)))
  /\ UNCHANGED <<heap, payload, async, rest>>
\* A getter or a method has no argument, the setter of a handler has one.
CallMethod(w) == Call(w, <<>>)
CallSetter(w, a) == "handler" \in focus /\ a \in script \cap Plain /\ Call(w, <<a>>)

\* The scope of the frame owns a handle, unless it is the mock's own value or JSC's bare error.
Owning(f, h, owns) == IF owns THEN [f EXCEPT !.owned = Append(@, h)] ELSE f
Room ==
  /\ Len(Top.owned) < MaxOwned + (IF engine = "boa" THEN 1 ELSE 0)
  /\ engine = "mock" => M!Unused(store) # {}
\* A callback looks a value up, or calls a function that returns it.
LookUp(c) ==
  /\ InCall /\ Top.step = "body" /\ Room
  /\ c \in script \/ c \in Plain \ live
  /\ live' = live \cup {c} /\ store' = Returned(store, c).store
  /\ SetTop(Owning(Top, Returned(store, c).handle, TRUE))
  /\ UNCHANGED <<engine, focus, phase, script, payload, async, rest>>
\* A callback makes an object and returns it.
NewInstance(c) ==
  /\ InCall /\ Top.step = "body" /\ Room /\ Top.result = NoHandle /\ c \in Objects \ live
  /\ live' = live \cup {c} /\ store' = Made(store, c).store
  /\ LET h == Made(store, c).handle IN SetTop(Owning([Top EXCEPT !.result = h], h, engine # "mock"))
  /\ UNCHANGED <<engine, focus, phase, script, payload, async, rest>>

\* The setter of an event handler: the new value is duplicated before the old one is released.
Handler == <<Top.this.of, "handler">>
SetHandler ==
  /\ InCall /\ Top.arg # NoHandle /\ Top.step = "body"
  /\ store' = Release(Duplicate(store, Top.arg), payload[Handler])
  /\ payload' = [payload EXCEPT ![Handler] = Duplicated(Top.arg)]
  /\ UNCHANGED <<heap, frames, async, rest>>
ClearHandler ==
  /\ InCall /\ Top.step = "body" /\ Top.arg = NoHandle /\ payload[Handler] # NoHandle
  /\ store' = Release(store, payload[Handler])
  /\ payload' = [payload EXCEPT ![Handler] = NoHandle]
  /\ UNCHANGED <<heap, frames, async, rest>>

\* A cached getter finds its value, or makes one; script may run while it does.
Attribute == <<Top.this.of, "attribute">>
ReadAttribute ==
  /\ "attribute" \in focus /\ InCall /\ Top.arg = NoHandle /\ Top.step = "body" /\ Top.result = NoHandle
  /\ SetTop(IF payload[Attribute] # NoHandle
            THEN [Top EXCEPT !.result = payload[Attribute]] ELSE [Top EXCEPT !.step = "making"])
  /\ UNCHANGED <<heap, store, payload, async, rest>>
\* As if the getter did not look again after it made its value.
MakeAttributeAlways(c) ==
  /\ InCall /\ Top.step = "making" /\ c \in Plain \ live
  /\ live' = live \cup {c}
  /\ LET r == Made(store, c) IN
     /\ store' = Duplicate(r.store, r.handle) /\ payload' = [payload EXCEPT ![Attribute] = Duplicated(r.handle)]
     /\ SetTop(Owning([Top EXCEPT !.step = "body", !.result = r.handle], r.handle, engine # "mock"))
  /\ UNCHANGED <<engine, focus, phase, script, async, rest>>
\* A value cached meanwhile wins, and the duplicate is released.
MakeAttribute(c) ==
  /\ InCall /\ Top.step = "making" /\ c \in Plain \ live
  /\ live' = live \cup {c}
  /\ LET r == Made(store, c) s == Duplicate(r.store, r.handle) IN
     /\ IF payload[Attribute] = NoHandle
        THEN store' = s /\ payload' = [payload EXCEPT ![Attribute] = Duplicated(r.handle)]
        ELSE store' = Release(s, Duplicated(r.handle)) /\ UNCHANGED payload
     /\ SetTop(Owning([Top EXCEPT !.step = "body", !.result = payload'[Attribute]], r.handle, engine # "mock"))
  /\ UNCHANGED <<engine, focus, phase, script, async, rest>>

\* register_class leaves a root behind, whether it fails after that or not: a failed one is not in
\* the registry and will be made again.
RegisterClass ==
  /\ "class" \in focus /\ InCall /\ Top.step = "body" /\ engine # "mock" /\ Len(classes) < MaxRegistrations
  /\ LET r == IF engine = "boa" THEN B!RegisterClass(store, Prototype) ELSE J!RegisterClass(store, Prototype) IN
     /\ store' = r.store /\ classes' = Append(classes, r.kept)
     /\ SetTop([Top EXCEPT !.owned = @ \o r.owned])
  /\ UNCHANGED <<heap, payload, async, host, finalizing, passed, dangling>>

Requested(p, resolve, reject) ==
  /\ deferred' = [deferred EXCEPT ![p] = "request"]
  /\ functions' = [functions EXCEPT ![<<p, "resolve">>] = resolve, ![<<p, "reject">>] = reject]
  /\ outstanding' = (outstanding \ removals) \cup {p} /\ removals' = {}
\* As if register_deferred were handed functions only the scope owns.
NewPromiseScoped(p) ==
  /\ InCall /\ Top.step = "body" /\ deferred[p] = "none"
  /\ LET f == Returned(store, Function(p, "resolve")) g == Returned(f.store, Function(p, "reject")) IN
     /\ store' = g.store /\ Requested(p, f.handle, g.handle)
     /\ SetTop([Top EXCEPT !.owned = @ \o <<f.handle, g.handle>>])
  /\ UNCHANGED <<heap, payload, batch, rest>>
\* new_promise and register_deferred, whose functions outlive the call.
NewPromise(p) ==
  /\ "promise" \in focus /\ InCall /\ Top.step = "body" /\ deferred[p] = "none"
  /\ LET f == Function(p, "resolve") g == Function(p, "reject")
         r == CASE engine = "boa" -> B!NewPromise(store, f, g) [] engine = "jsc" -> J!NewPromise(store, f, g)
                [] engine = "mock" -> M!NewPromise(store, f, g)
     IN  /\ store' = r.store /\ Requested(p, r.resolve, r.reject)
         /\ SetTop([Top EXCEPT !.owned = @ \o r.owned])
  /\ UNCHANGED <<heap, payload, batch, rest>>

\* The callback returns one of the values it has, or nothing.  The engine reads the value before the
\* scope ends (Boa) or takes it out of the scope while it is on the stack (JSC).
Return(h) ==
  /\ InCall /\ Top.step = "body"
  /\ h \in IF Top.result # NoHandle THEN {Top.result} ELSE Range(Top.owned) \cup {NoHandle}
  /\ script' = script \cup ({Reads(h)} \cap live)
  /\ store' = EndScope(store, Top.owned) /\ frames' = Front(frames)
  /\ UNCHANGED <<engine, focus, phase, live, payload, async, rest>>

(***************************************************************************)
(* The tick: the pump answers requests, the drain prepares what is queued  *)
(* and settles it in one call of the trampoline, reactions run.            *)
(***************************************************************************)
BeginTick ==
  /\ phase = "running" /\ frames = <<>>
  /\ frames' = <<Frame("tick", NoHandle, NoHandle, <<>>, {})>>
  /\ UNCHANGED <<heap, store, payload, async, rest>>

\* The callback takes the deferred out of its request; the registration is dropped with the request.
Answer(p) ==
  /\ InTick /\ Top.step = "pump" /\ deferred[p] = "request"
  /\ deferred' = [deferred EXCEPT ![p] = "queue"]
  /\ IF engine = "boa" THEN removals' = removals \cup {p} /\ UNCHANGED outstanding
     ELSE outstanding' = outstanding \ {p} /\ UNCHANGED removals
  /\ UNCHANGED <<heap, store, frames, payload, functions, batch, rest>>

Queued == {p \in Promises : deferred[p] = "queue"}
StartDrain ==
  /\ InTick /\ Top.step = "pump" /\ SetTop([Top EXCEPT !.step = "prepare"])
  /\ UNCHANGED <<heap, store, payload, async, rest>>
\* What the promise settles with is made.  An error made for a rejection is tracked like any object;
\* one that JSC threw while a value was being made (error_value_from_error) is a bare pointer.
Prepare(p, c, fails, bare) ==
  /\ bare => fails /\ engine = "jsc"
  /\ InTick /\ Top.step = "prepare" /\ p \in Queued /\ c \in Objects \ live
  /\ live' = live \cup {c}
  /\ deferred' = [deferred EXCEPT ![p] = "batch"]
  /\ LET r == IF bare THEN Thrown(store, c) ELSE Made(store, c) IN
     /\ store' = r.store
     /\ batch' = [q \in DOMAIN batch \cup {p} |->
                  IF q = p THEN [value |-> r.handle, fails |-> fails, bare |-> bare] ELSE batch[q]]
     /\ SetTop(Owning(Top, r.handle, engine = "boa" \/ (engine = "jsc" /\ ~bare)))
  /\ UNCHANGED <<engine, focus, phase, script, payload, functions, outstanding, removals, rest>>

Selected == {<<p, IF batch[p].fails THEN "reject" ELSE "resolve">> : p \in DOMAIN batch}
Unused   == {<<p, IF batch[p].fails THEN "resolve" ELSE "reject">> : p \in DOMAIN batch}
\* The functions of some promises, and what is left when they are given back.
FunctionsOf(halves) == [x \in halves |-> functions[x]]
WithoutFunctions(halves) == [x \in Halves |-> IF x \in halves THEN NoHandle ELSE functions[x]]
Settling(s, hs) ==
  CASE engine = "boa" -> B!Settling(s, hs) [] engine = "jsc" -> J!Settling(s, hs) [] engine = "mock" -> s
AfterCall(s, hs) ==
  CASE engine = "boa" -> B!Settled(s, hs) [] engine = "jsc" -> J!Settled(s, hs) [] engine = "mock" -> M!Settled(s, hs)
\* settle_deferreds up to the call: the unused functions are released and the trampoline calls the
\* others, which may throw before it has reached them all.
Settle(reached) ==
  /\ InTick /\ Top.step = "prepare" /\ Queued = {} /\ batch # <<>>
  /\ reached \subseteq DOMAIN batch
  /\ script' = script \cup ({Reads(batch[p].value) : p \in reached} \cap live)
  /\ store' = Settling(store, FunctionsOf(Unused)) /\ functions' = WithoutFunctions(Unused)
  /\ SetTop([Top EXCEPT !.step = "settling"])
  /\ UNCHANGED <<engine, focus, phase, live, payload, deferred, outstanding, removals, batch, rest>>
\* As if the call's failure left by `?`.
SettledIfCalled ==
  /\ InTick /\ Top.step = "settling"
  /\ SetTop([Top EXCEPT !.step = "drain"]) /\ batch' = <<>>
  /\ \E failed \in BOOLEAN : store' = IF failed THEN store ELSE AfterCall(store, FunctionsOf(Selected))
  /\ functions' = WithoutFunctions(Selected)
  /\ deferred' = [p \in Promises |-> IF p \in DOMAIN batch THEN "settled" ELSE deferred[p]]
  /\ UNCHANGED <<heap, payload, outstanding, removals, rest>>
\* Whether the call failed or not, the functions it was given are released.
Settled ==
  /\ InTick /\ Top.step = "settling"
  /\ SetTop([Top EXCEPT !.step = "drain"]) /\ batch' = <<>>
  /\ store' = AfterCall(store, FunctionsOf(Selected)) /\ functions' = WithoutFunctions(Selected)
  /\ deferred' = [p \in Promises |-> IF p \in DOMAIN batch THEN "settled" ELSE deferred[p]]
  /\ UNCHANGED <<heap, payload, outstanding, removals, rest>>

\* The tick's scope ends; JSC then unprotects what finalizers have enqueued.
EndTick ==
  /\ InTick /\ (Top.step = "drain" \/ (Top.step = "prepare" /\ Queued = {} /\ batch = <<>>))
  /\ LET s == EndScope(store, Top.owned) IN store' = IF engine = "jsc" THEN J!DrainDeferred(s) ELSE s
  /\ frames' = <<>>
  /\ UNCHANGED <<heap, payload, async, rest>>

(***************************************************************************)
(* The host, outside of any callback.                                      *)
(***************************************************************************)
Eval(c) ==
  /\ "host" \in focus /\ phase = "running" /\ frames = <<>> /\ engine # "mock" /\ host = <<>> /\ c \in script
  /\ store' = Returned(store, c).store /\ host' = <<Returned(store, c).handle>>
  /\ UNCHANGED <<heap, frames, payload, async, classes, finalizing, passed, dangling>>
SetGlobal ==
  /\ phase = "running" /\ frames = <<>> /\ host # <<>>
  /\ script' = script \cup {Reads(host[1])} /\ store' = Release(store, host[1]) /\ host' = <<>>
  /\ UNCHANGED <<engine, focus, phase, live, frames, payload, async, classes, finalizing, passed, dangling>>
DrainReleases ==
  /\ phase = "running" /\ frames = <<>> /\ engine = "jsc"
  /\ store' = J!DrainDeferred(store)
  /\ UNCHANGED <<heap, frames, payload, async, rest>>

(***************************************************************************)
(* The collector.                                                          *)
(***************************************************************************)
Forget(c) ==
  /\ phase = "running" /\ c \in script /\ script' = script \ {c}
  /\ UNCHANGED <<engine, focus, phase, live, store, frames, payload, async, rest>>

\* What a payload holds is given back: by Boa's finalizer at once, by JSC's on its way to the queue.
Held(ws) == [x \in {y \in Fields : y[1] \in ws} |-> payload[x]]
Emptied(ws) == [x \in Fields |-> IF x[1] \in ws THEN NoHandle ELSE payload[x]]
Finalizes(ws) ==
  /\ payload' = Emptied(ws)
  /\ IF engine = "boa" THEN store' = B!Finalized(store, Held(ws)) /\ UNCHANGED finalizing
     ELSE /\ finalizing' = [c \in Cells |-> finalizing[c] + J!Times(Held(ws), c)] /\ UNCHANGED store
Collect(c) ==
  /\ phase = "running" /\ engine # "mock"
  /\ c \in live \ (script \cup Rooted \cup Stack)
  /\ live' = live \ {c} /\ Finalizes({c})
  /\ UNCHANGED <<engine, focus, phase, script, frames, async, host, classes, passed, dangling>>

\* defer_unprotect looks at the flag and then enqueues; the tick thread may tear down in between.
DeferChecks(c) ==
  /\ engine = "jsc" /\ finalizing[c] > 0
  /\ finalizing' = [finalizing EXCEPT ![c] = @ - 1]
  /\ passed' = IF store.tearing THEN passed ELSE [passed EXCEPT ![c] = @ + 1]
  /\ UNCHANGED <<heap, store, frames, payload, async, host, classes, dangling>>
DeferEnqueues(c) ==
  /\ engine = "jsc" /\ passed[c] > 0
  /\ passed' = [passed EXCEPT ![c] = @ - 1] /\ store' = J!DeferUnprotect(store, c)
  /\ UNCHANGED <<heap, frames, payload, async, host, classes, finalizing, dangling>>

(***************************************************************************)
(* The runtime's drop.                                                     *)
(***************************************************************************)
To(p) == phase' = p
BeginDrop ==
  /\ phase = "running" /\ frames = <<>>
  /\ To(IF engine = "jsc" THEN "outstanding" ELSE IF engine = "boa" THEN "pending" ELSE "payloads")
  /\ UNCHANGED <<engine, focus, store, script, live, frames, payload, async, rest>>

HalvesOf(ps) == ps \X Resolvers
Released(ps) ==
  /\ functions' = WithoutFunctions(HalvesOf(ps))
  /\ deferred' = [p \in Promises |-> IF p \in ps THEN "released" ELSE deferred[p]]
ReleaseDeferreds(ps) == store' = ReleaseAll(store, FunctionsOf(HalvesOf(ps))) /\ Released(ps)
\* As if the registrations dropped since were still looked up.
ReleaseOutstandingAll ==
  /\ phase = "outstanding" /\ To(IF engine = "jsc" THEN "pending" ELSE "clear")
  /\ dangling' = \E p \in outstanding : deferred[p] # "request"
  /\ ReleaseDeferreds({p \in outstanding : deferred[p] = "request"})
  /\ outstanding' = {} /\ removals' = {}
  /\ UNCHANGED <<engine, focus, script, live, frames, payload, batch, host, classes, finalizing, passed>>
\* release_outstanding_deferreds reads the requests that are registered still.
ReleaseOutstanding ==
  LET registered == outstanding \ removals IN
  /\ phase = "outstanding" /\ To(IF engine = "jsc" THEN "pending" ELSE "clear")
  /\ dangling' = \E p \in registered : deferred[p] # "request"
  /\ ReleaseDeferreds({p \in registered : deferred[p] = "request"})
  /\ outstanding' = {} /\ removals' = {}
  /\ UNCHANGED <<engine, focus, script, live, frames, payload, batch, host, classes, finalizing, passed>>
\* release_pending gives back what is queued, unsettled, and release_device_event_values the handlers
\* of the devices there are.
Handlers == {x \in Fields : x[2] = "handler"}
ReleasePending ==
  /\ phase = "pending" /\ To(IF engine = "jsc" THEN "trampoline" ELSE "outstanding")
  /\ Released(Queued)
  /\ payload' = [x \in Fields |-> IF x \in Handlers THEN NoHandle ELSE payload[x]]
  /\ store' = ReleaseAll(ReleaseAll(store, FunctionsOf(HalvesOf(Queued))), [x \in Handlers |-> payload[x]])
  /\ UNCHANGED <<engine, focus, script, live, frames, outstanding, removals, batch, rest>>

\* JSC: the trampoline, then begin_teardown: the flag, what finalizers enqueued, everything else.
ReleaseTrampoline ==
  /\ phase = "trampoline" /\ To("tearing") /\ store' = J!UnprotectAll(store, <<J!Pointer(Trampoline)>>)
  /\ UNCHANGED <<engine, focus, script, live, frames, payload, async, rest>>
StoreTearing ==
  /\ phase = "tearing" /\ To("enqueued") /\ store' = [store EXCEPT !.tearing = TRUE]
  /\ UNCHANGED <<engine, focus, script, live, frames, payload, async, rest>>
DrainEnqueued ==
  /\ phase = "enqueued" /\ To("mopping") /\ store' = J!DrainDeferred(store)
  /\ UNCHANGED <<engine, focus, script, live, frames, payload, async, rest>>
MopUp ==
  /\ phase = "mopping" /\ To("context") /\ store' = J!MopUp(store) /\ host' = <<>> /\ classes' = <<>>
  /\ UNCHANGED <<engine, focus, script, live, frames, payload, async, finalizing, passed, dangling>>

\* Boa: the arena is emptied before the context goes, so late finalizers find nothing to release.
ClearSlots ==
  /\ phase = "clear" /\ To("context") /\ store' = B!Arena /\ host' = <<>> /\ classes' = <<>>
  /\ UNCHANGED <<engine, focus, script, live, frames, payload, async, finalizing, passed, dangling>>

\* The context goes, and with it every object; the finalizers of the wrappers run.
DropContext ==
  /\ phase = "context" /\ To("done") /\ live' = {} /\ script' = {} /\ Finalizes(Wrappers)
  /\ UNCHANGED <<engine, focus, frames, async, host, classes, passed, dangling>>

\* The mock gives back what the payloads hold and looks whether anything is left.
DropMock ==
  /\ phase = "payloads" /\ To("done") /\ live' = {} /\ script' = {}
  /\ store' = ReleaseAll(store, Held(Wrappers)) /\ payload' = Emptied(Wrappers)
  /\ UNCHANGED <<engine, focus, frames, async, rest>>

Next ==
  \/ \E w \in Wrappers : CallMethod(w) \/ \E a \in Plain : CallSetter(w, a)
  \/ \E c \in Objects : LookUp(c) \/ NewInstance(c) \/ MakeAttribute(c) \/ Forget(c) \/ Collect(c) \/ Eval(c)
  \/ SetHandler \/ ClearHandler \/ ReadAttribute \/ RegisterClass
  \/ \E p \in Promises : NewPromise(p) \/ Answer(p) \/ \E c \in Objects, fails, bare \in BOOLEAN : Prepare(p, c, fails, bare)
  \/ frames # <<>> /\ \E h \in Range(Top.owned) \cup {Top.result, NoHandle} : Return(h)
  \/ BeginTick \/ StartDrain \/ (\E reached \in SUBSET DOMAIN batch : Settle(reached)) \/ Settled \/ EndTick
  \/ SetGlobal \/ DrainReleases \/ \E c \in Cells : DeferChecks(c) \/ DeferEnqueues(c)
  \/ BeginDrop \/ ReleaseOutstanding \/ ReleasePending \/ ReleaseTrampoline \/ StoreTearing
  \/ DrainEnqueued \/ MopUp \/ ClearSlots \/ DropContext \/ DropMock
Spec == Init /\ [][Next]_vars

(***************************************************************************)
(* Properties.                                                             *)
(***************************************************************************)
Rooting == phase \notin {"context", "done"}
Alive(c) == c \in live \cup Rooted
\* Prepared values are read until the trampoline has them; an error JSC threw is owned by nothing,
\* and is left to ErrorsOwned.
BatchValues(errors) ==
  IF frames # <<>> /\ frames[1].step = "prepare"
  THEN {batch[p].value : p \in {q \in DOMAIN batch : errors \/ ~batch[q].bare}} ELSE {}
InUse ==
  ((UNION {Range(frames[i].owned) \cup {frames[i].this, frames[i].arg, frames[i].result} : i \in DOMAIN frames})
   \cup Range(payload) \cup Range(functions) \cup Range(host) \cup Range(classes) \cup BatchValues(FALSE)) \ {NoHandle}

\* Whatever core, a payload, a pending request or the host holds reads, in each engine, the object it
\* was got for, and that object is alive: no collection, scope end, cached attribute or settled
\* promise takes it away.
HandlesTrue == Rooting => \A h \in InUse : Reads(h) = h.of /\ (engine # "mock" => Alive(h.of))

\* The roots an engine counts are the holders there are, those on their way through JSC's finalizer
\* thread included: none leaks before the drop, and none is given back twice.
PlacesOf(hs, handles) == Cardinality({x \in DOMAIN hs : hs[x] \in handles})
OwnedPlaces(handles) ==
  {x \in UNION {{i} \X DOMAIN frames[i].owned : i \in DOMAIN frames} : frames[x[1]].owned[x[2]] \in handles}
Count(handles) ==
  Cardinality(OwnedPlaces(handles)) + PlacesOf(payload, handles) + PlacesOf(functions, handles) + PlacesOf(host, handles)
TrampolineHeld(c) == IF c = Trampoline /\ phase \notin {"tearing", "enqueued", "mopping"} THEN 1 ELSE 0
ToSlot(i) == [of : Cells, ref : {i}]
RootsBalanced ==
  Rooting =>
    CASE engine = "boa" ->
           \A i \in DOMAIN store.slots :
             /\ store.slots[i].cell = None <=> store.slots[i].refs = 0
             /\ store.slots[i].refs = Count(ToSlot(i)) + PlacesOf(classes, ToSlot(i)) + TrampolineHeld(store.slots[i].cell)
      [] engine = "jsc" ->
           \A c \in Cells :
             /\ ~store.tearing =>
                  store.protected[c] = Count({J!Pointer(c)}) + TrampolineHeld(c)
                                         + store.deferred[c] + finalizing[c] + passed[c]
             /\ store.methods[c] = IF c = Prototype THEN Len(classes) ELSE 0
      [] engine = "mock" ->
           /\ ~store.panicked
           /\ \A c \in Cells : store.dups[c] = PlacesOf(payload, {M!Canonical(c)})
           /\ Cardinality(store.aliases) = Cardinality(OwnedPlaces([of : Cells, ref : 1 .. MaxAliases]))

\* The drop leaves no root behind, reads no request that is gone and leaves no registered promise
\* with its functions; what JSC undoes by force is only what payloads, the host and the finalizer
\* thread hold.
TeardownClean ==
  /\ ~dangling
  /\ phase = "mopping" =>
       \A c \in Cells : store.protected[c] > 0 => c \in Objects
  /\ phase = "done" =>
       /\ engine # "mock" => \A x \in Halves : functions[x] = NoHandle
       /\ CASE engine = "boa" -> B!Rooted(store) \subseteq {None} [] engine = "jsc" -> J!Rooted(store) = {}
            [] engine = "mock" -> ~store.panicked /\ \A c \in Cells : store.dups[c] = 0

\* An attribute is one object for as long as its wrapper lives, however getters nest.
SameObject ==
  [][\A w \in Wrappers : payload[<<w, "attribute">>] # NoHandle /\ w \in live'
       => payload'[<<w, "attribute">>] = payload[<<w, "attribute">>]]_vars

\* What the tick has prepared to settle is alive until the trampoline has it, errors included.
ErrorsOwned == \A h \in BatchValues(TRUE) : Reads(h) = h.of /\ (engine # "mock" => Alive(h.of))
=============================================================================
