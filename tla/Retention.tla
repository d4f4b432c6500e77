------------------------------ MODULE Retention ------------------------------
(***************************************************************************)
(* Native references held by wrappers: the create functions, finalizers,   *)
(* retire functions and release requests the generator emits, the views    *)
(* conversion creates for textures, the derived bind group layouts and     *)
(* the render bundles.                                                     *)
(*                                                                         *)
(* Script runs while a descriptor is converted (getters, iterators,        *)
(* toString): it may destroy wrappers, drop them so that they are          *)
(* collected, and create others.  Requests wait in the release queue and   *)
(* run when the host ticks.                                                *)
(*                                                                         *)
(* What a payload keeps and a request releases is counted: how many        *)
(* references of each native object, their order left out.                 *)
(***************************************************************************)
EXTENDS Integers, Sequences, FiniteSets, SequencesExt

CONSTANTS Kinds,        \* interfaces in the model
          Plan,         \* per kind, the handles a wrapper keeps (RetentionPlan!Retains)
          Destroyable,  \* kinds with the destroy() extension
          Creator,      \* the interface that creates a kind
          Starts,       \* the kinds of the wrappers there may be at the start, which keep nothing
          Creatable,    \* bound: kinds script creates afterwards
          MaxNatives,   \* bound: native objects in a behaviour
          MaxWrappers,  \* bound: wrappers in a behaviour
          MaxDepth,     \* bound: creates inside each other's conversions
          MaxElements   \* bound: handles read for one sequence

Natives == 1 .. MaxNatives
Null    == 0
\* The device is not counted here: its handle is not retained.
Device  == "GPUDevice"

ASSUME RetentionAssumption ==
  /\ MaxNatives \in Nat /\ MaxWrappers \in Nat /\ MaxDepth \in Nat /\ MaxElements \in Nat
  /\ Destroyable \subseteq Kinds
  /\ Creatable \subseteq Kinds
  /\ \A k \in Kinds : /\ IsFiniteSet(DOMAIN Plan[k])
                       /\ \A i \in DOMAIN Plan[k] : Plan[k][i].source = "creator" => Creator[k] # Device
  /\ \A s \in Starts : /\ s \in Seq(Kinds) /\ Len(s) <= MaxNatives
                       /\ \A i \in DOMAIN s : Plan[s[i]] = <<>>
  /\ Creator \in [Kinds -> Kinds \cup {Device}]

VARIABLES
  kinds,     \* kind of each native object created so far
  refs,      \* references native counts for each, 0 before it is created and when it is freed
  wrappers,  \* payloads: kind, handle, slot, what they keep
  calls,     \* create functions under way, innermost last
  queue,     \* ReleaseQueue: a request is what it releases
  draining,  \* the tick is in ReleaseQueue::drain
  orphans    \* history: created views whose create returned null

vars == <<kinds, refs, wrappers, calls, queue, draining, orphans>>

\* Counts of handles.
Nothing    == [n \in Natives |-> 0]
RefTo(h)   == [n \in Natives |-> IF n = h THEN 1 ELSE 0]
RefsTo(hs) == [n \in Natives |-> Cardinality({i \in DOMAIN hs : hs[i] = n})]
Plus(a, b)  == [n \in Natives |-> a[n] + b[n]]
Minus(a, b) == [n \in Natives |-> a[n] - b[n]]

Init ==
  /\ kinds \in Starts /\ refs = [n \in Natives |-> IF n \in DOMAIN kinds THEN 1 ELSE 0] /\ calls = <<>>
  /\ wrappers = [n \in DOMAIN kinds |->
                   [kind |-> kinds[n], handle |-> n, slot |-> "full", held |-> Nothing]]
  /\ queue = <<>> /\ draining = FALSE /\ orphans = {}

InScript == ~draining
Top      == calls[Len(calls)]
SetTop(c) == calls' = [calls EXCEPT ![Len(calls)] = c]
Return   == calls' = Front(calls)
Live(w)  == wrappers[w].slot = "full" /\ wrappers[w].handle # Null
\* The engine keeps the receiver of a call.
Receiver(w) == \E i \in DOMAIN calls : calls[i].creator = w
NewWrapper(k, h, held) == wrappers' = Append(wrappers, [kind |-> k, handle |-> h, slot |-> "full", held |-> held])
Next1    == Len(kinds) + 1

(***************************************************************************)
(* Creating: the conversion reads handles, native creates, the binding     *)
(* takes its references and makes the wrapper.                             *)
(***************************************************************************)
\* emit_create up to the conversion: the creator's handle is read from the receiver.
BeginCreate(k, w) ==
  /\ InScript /\ Len(calls) < MaxDepth /\ Len(wrappers) < MaxWrappers
  /\ IF Creator[k] = Device THEN w = 0
     ELSE w \in DOMAIN wrappers /\ Live(w) /\ wrappers[w].kind = Creator[k]
  /\ calls' = Append(calls, [kind |-> k, creator |-> w, got |-> [i \in DOMAIN Plan[k] |-> <<>>], made |-> <<>>])
  /\ UNCHANGED <<kinds, refs, wrappers, queue, draining, orphans>>

\* The converter of a member reads the handle a wrapper holds now; captures are in plan order.
ReadHandle(w) ==
  /\ InScript /\ calls # <<>> /\ Live(w)
  /\ \E i \in DOMAIN Plan[Top.kind] :
       LET e == Plan[Top.kind][i] IN
       /\ e.source = "descriptor" /\ e.handle = wrappers[w].kind
       /\ Len(Top.got[i]) < (IF e.sequence THEN MaxElements ELSE 1)
       /\ \A j \in DOMAIN Plan[Top.kind] : j > i => Top.got[j] = <<>>
       /\ SetTop([Top EXCEPT !.got[i] = Append(@, wrappers[w].handle)])
  /\ UNCHANGED <<kinds, refs, wrappers, queue, draining, orphans>>

\* A texture in place of a view: conversion creates a default view.
MakeView(w) ==
  /\ InScript /\ calls # <<>> /\ Len(kinds) < MaxNatives /\ Len(Top.made) < MaxElements
  /\ \E i \in DOMAIN Plan[Top.kind] : Plan[Top.kind][i].source = "conversion"
  /\ Live(w) /\ wrappers[w].kind = "GPUTexture"
  /\ kinds' = Append(kinds, "GPUTextureView") /\ refs' = Plus(refs, RefTo(Next1))
  /\ SetTop([Top EXCEPT !.made = Append(@, Next1)])
  /\ UNCHANGED <<wrappers, queue, draining, orphans>>

\* Anything of the conversion throws, a destroyed wrapper among them: the drop of the capture
\* queues the views one by one.
ConversionFails ==
  /\ InScript /\ calls # <<>>
  /\ queue' = queue \o [i \in DOMAIN Top.made |-> RefTo(Top.made[i])]
  /\ Return
  /\ UNCHANGED <<kinds, refs, wrappers, draining, orphans>>

\* A handle that must be there was read; an absent nullable one stays null.
Converted(c) == \A i \in DOMAIN Plan[c.kind] :
  LET e == Plan[c.kind][i] IN e.source = "descriptor" /\ ~e.sequence /\ ~e.nullable => c.got[i] # <<>>
\* What the payload retains: the handles of the plan, a created view apart.
Part(c, e) == IF Plan[c.kind][e].source = "creator" THEN << wrappers[c.creator].handle >> ELSE c.got[e]
Kept(c)    == [n \in Natives |-> Cardinality(
                 UNION {{e} \X {i \in DOMAIN Part(c, e) : Part(c, e)[i] = n} : e \in DOMAIN Plan[c.kind]})]

CreateReturnsNull ==
  /\ InScript /\ calls # <<>> /\ Converted(Top)
  /\ orphans' = orphans \cup Range(Top.made)
  /\ Return
  /\ UNCHANGED <<kinds, refs, wrappers, queue, draining>>

\* Native creates, the retained handles get a reference each (a created view has its own), the
\* class is registered and the wrapper made.
Create ==
  /\ InScript /\ calls # <<>> /\ Converted(Top) /\ Len(kinds) < MaxNatives /\ Len(wrappers) < MaxWrappers
  /\ kinds' = Append(kinds, Top.kind)
  /\ refs' = Plus(Plus(refs, Kept(Top)), RefTo(Next1))
  /\ NewWrapper(Top.kind, Next1, Plus(Kept(Top), RefsTo(Top.made)))
  /\ Return
  /\ UNCHANGED <<queue, draining, orphans>>

\* emit_cleanup: register_class or new_instance fails, everything is released at once.
CreateFails ==
  /\ InScript /\ calls # <<>> /\ Converted(Top) /\ Len(kinds) < MaxNatives
  /\ kinds' = Append(kinds, Top.kind)
  /\ refs' = Minus(Plus(Plus(refs, Kept(Top)), RefTo(Next1)), Plus(Plus(RefTo(Next1), Kept(Top)), RefsTo(Top.made)))
  /\ Return
  /\ UNCHANGED <<wrappers, queue, draining, orphans>>

\* new_derived_bind_group_layout: the layout keeps its pipeline.
DeriveLayout(w, fails) ==
  /\ InScript /\ Len(kinds) < MaxNatives /\ Len(wrappers) < MaxWrappers
  /\ Live(w) /\ wrappers[w].kind = "GPUComputePipeline"
  /\ LET p == RefTo(wrappers[w].handle) IN
     /\ kinds' = Append(kinds, "GPUBindGroupLayout")
     /\ IF fails
        THEN refs' = Minus(Plus(Plus(refs, p), RefTo(Next1)), Plus(RefTo(Next1), p)) /\ UNCHANGED wrappers
        ELSE refs' = Plus(Plus(refs, p), RefTo(Next1)) /\ NewWrapper("GPUBindGroupLayout", Next1, p)
  /\ UNCHANGED <<calls, queue, draining, orphans>>

\* render_bundle_encoder_finish: a second finish gives an invalid bundle without a handle.
FinishBundle(invalid) ==
  /\ InScript /\ Len(wrappers) < MaxWrappers
  /\ IF invalid
     THEN NewWrapper("GPURenderBundle", Null, Nothing) /\ UNCHANGED <<kinds, refs>>
     ELSE /\ Len(kinds) < MaxNatives
          /\ kinds' = Append(kinds, "GPURenderBundle") /\ refs' = Plus(refs, RefTo(Next1))
          /\ NewWrapper("GPURenderBundle", Next1, Nothing)
  /\ UNCHANGED <<calls, queue, draining, orphans>>

(***************************************************************************)
(* Releasing.                                                              *)
(***************************************************************************)
Request(w) == Plus(RefTo(wrappers[w].handle), wrappers[w].held)

\* As if destroy() released the handles there and then.
RetireAtOnce(w) ==
  /\ wrappers' = [wrappers EXCEPT ![w].slot = "empty"]
  /\ refs' = IF Live(w) THEN Minus(refs, Request(w)) ELSE refs
  /\ UNCHANGED queue

\* retire_*: the handle is taken out of the slot, once, and the request queued.
Retire(w) ==
  /\ wrappers' = [wrappers EXCEPT ![w].slot = "empty"]
  /\ queue' = IF Live(w) THEN Append(queue, Request(w)) ELSE queue
  /\ UNCHANGED refs
\* As if the handle were copied and not taken.
DestroyKeepsSlot(w) ==
  /\ InScript /\ w \in DOMAIN wrappers /\ wrappers[w].kind \in Destroyable
  /\ wrappers[w].slot = "full"
  /\ queue' = IF Live(w) THEN Append(queue, Request(w)) ELSE queue
  /\ UNCHANGED <<kinds, refs, wrappers, calls, draining, orphans>>

\* extension_destroy
Destroy(w) ==
  /\ InScript /\ w \in DOMAIN wrappers /\ wrappers[w].kind \in Destroyable
  /\ wrappers[w].slot = "full"
  /\ Retire(w)
  /\ UNCHANGED <<kinds, calls, draining, orphans>>
\* The finalizer of a wrapper the script has dropped, on any thread; after a destroy() it finds the
\* slot empty and does nothing.
Collect(w) ==
  /\ w \in DOMAIN wrappers /\ wrappers[w].slot = "full" /\ ~Receiver(w)
  /\ Retire(w)
  /\ UNCHANGED <<kinds, calls, draining, orphans>>

\* ReleaseQueue::drain on a tick of the host, no script on the stack: the requests run one by one,
\* and finalizers may add some, until the queue is empty.
RunRequest ==
  /\ calls = <<>> /\ queue # <<>>
  /\ refs' = Minus(refs, Head(queue))
  /\ queue' = Tail(queue)
  /\ draining' = (Tail(queue) # <<>>)
  /\ UNCHANGED <<kinds, wrappers, calls, orphans>>

Next ==
  \/ \E k \in Creatable, w \in {0} \cup DOMAIN wrappers : BeginCreate(k, w)
  \/ \E w \in DOMAIN wrappers :
       \/ ReadHandle(w) \/ MakeView(w) \/ Destroy(w) \/ Collect(w)
       \/ \E fails \in BOOLEAN : DeriveLayout(w, fails)
  \/ ConversionFails \/ CreateReturnsNull \/ Create \/ CreateFails
  \/ \E invalid \in BOOLEAN : FinishBundle(invalid)
  \/ RunRequest

Spec == Init /\ [][Next]_vars

(***************************************************************************)
(* Properties.                                                             *)
(***************************************************************************)
\* The places that own a reference of n.
InLists(n, lists, tag) == UNION {{<<tag, k, i>> : i \in 1 .. lists[k][n]} : k \in DOMAIN lists}
Owners(n) ==
  {<<"slot", w>> : w \in {v \in DOMAIN wrappers : Live(v) /\ wrappers[v].handle = n}}
  \cup InLists(n, [w \in {v \in DOMAIN wrappers : Live(v)} |-> wrappers[w].held], "held")
  \cup InLists(n, queue, "queue")
  \cup InLists(n, [i \in DOMAIN calls |-> RefsTo(calls[i].made)], "made")
  \cup (IF n \in orphans THEN {<<"orphan">>} ELSE {})

\* Native counts exactly the references that somebody will give back: a full slot with what its
\* payload keeps, a queued request, a conversion with its views.  A handle released twice, by
\* destroy() and the finalizer or by a cleanup and the payload, and one never released both break
\* it.  A view a null create left behind (lifecycle.rs:1203) is counted as an orphan.
RefsCounted == \A n \in Natives : refs[n] = Cardinality(Owners(n))

\* The handles a conversion has read, the receiver's among them, are alive until native has been
\* called with them, whatever script does to their wrappers in the getters after the read.
ConversionHoldsLive ==
  \A i \in DOMAIN calls :
    /\ \A e \in DOMAIN calls[i].got : \A k \in DOMAIN calls[i].got[e] : refs[calls[i].got[e][k]] > 0
    /\ \A k \in DOMAIN calls[i].made : refs[calls[i].made[k]] > 0
    /\ calls[i].creator # 0 => refs[wrappers[calls[i].creator].handle] > 0
=============================================================================
