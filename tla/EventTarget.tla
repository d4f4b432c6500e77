----------------------------- MODULE EventTarget -----------------------------
(***************************************************************************)
(* The listeners of a GPUDevice: addEventListener, removeEventListener,    *)
(* onuncapturederror and dispatchEvent, with listeners that call any of    *)
(* them.  A plain EventTarget runs the same code without the handler.      *)
(*                                                                         *)
(* The binding keeps engine values: one duplicate of a callback for a      *)
(* listener, one for the handler, one for each call a dispatch has still   *)
(* to make.  refs counts them by the duplicate_value and release_value     *)
(* calls of the code.                                                      *)
(*                                                                         *)
(* A listener is pushed with the next id and no list is ever reordered, so *)
(* that a list is a set here: its order is that of the ids.                *)
(***************************************************************************)
EXTENDS Naturals, Sequences, FiniteSets, SequencesExt

CONSTANTS Callbacks,     \* functions of the script
          Types,         \* event types
          None,
          MaxListeners,  \* bound: registrations in a behaviour
          MaxDepth       \* bound: dispatches inside each other

Uncaptured == "uncapturederror"

ASSUME EventTargetAssumption ==
  /\ Uncaptured \in Types
  /\ None \notin Callbacks
  /\ MaxListeners \in Nat /\ MaxDepth \in Nat

VARIABLES
  listeners,  \* RegisteredEventListener entries; the handler's has no callback
  nextId,     \* next_listener_id
  handler,    \* onuncapturederror
  stack,      \* the dispatches under way, innermost last
  refs,       \* duplicates of a callback the binding holds
  once,       \* history: the registrations made with once
  called,     \* history: the calls of those
  finalized   \* the wrapper of the device is gone

targetVars == <<listeners, nextId, handler, stack, refs, once, called, finalized>>

Listener == [id : 0 .. MaxListeners - 1, type : Types, callback : Callbacks \cup {None}, once : BOOLEAN]
Call     == [id : 0 .. MaxListeners - 1, callback : Callbacks]
\* A dispatch: the calls it has still to make, and the one under way, if there is one.
Frame    == [todo : SUBSET Call, running : SUBSET Call]

TargetInit ==
  /\ listeners = {} /\ nextId = 0 /\ handler = None /\ stack = <<>>
  /\ refs = [c \in Callbacks |-> 0]
  /\ once = {} /\ called = <<>>
  /\ finalized = FALSE

Top     == stack[Len(stack)]
SetTop(f) == stack' = [stack EXCEPT ![Len(stack)] = f]
Entries(type) == {l \in listeners : l.type = type}

Duplicate(counts, c) == [counts EXCEPT ![c] = @ + 1]
Release(counts, c)   == IF c = None THEN counts ELSE [counts EXCEPT ![c] = @ - 1]
\* How many of the calls or listeners in items hold a duplicate of c.
HeldBy(items, c) == Cardinality({x \in items : x.callback = c})

\* Script runs outside of any dispatch, or inside the callback of the innermost one.
InScript == stack # <<>> => Top.running # {}

(***************************************************************************)
(* Registration.                                                           *)
(***************************************************************************)
\* event_target_add_event_listener: the same type and callback is added once, the flag of the
\* first call stays.
AddListener(type, c, isOnce) ==
  /\ InScript /\ ~finalized /\ nextId < MaxListeners
  /\ ~\E l \in listeners : l.type = type /\ l.callback = c
  /\ listeners' = listeners \cup {[id |-> nextId, type |-> type, callback |-> c, once |-> isOnce]}
  /\ nextId' = nextId + 1
  /\ refs' = Duplicate(refs, c)
  /\ once' = IF isOnce THEN once \cup {nextId} ELSE once
  /\ UNCHANGED <<handler, stack, called, finalized>>

\* event_target_remove_event_listener
RemoveListener(type, c) ==
  /\ InScript /\ ~finalized
  /\ \E l \in listeners :
       /\ l.type = type /\ l.callback = c
       /\ listeners' = listeners \ {l}
  /\ refs' = Release(refs, c)
  /\ UNCHANGED <<nextId, handler, stack, once, called, finalized>>

\* device_on_uncaptured_error_set: the handler takes its place among the listeners when it is
\* set the first time and keeps it while it is only replaced.
SetHandler(new) ==
  /\ InScript /\ ~finalized
  /\ handler = None /\ new # None => nextId < MaxListeners
  /\ handler' = new
  /\ refs' = Release(IF new = None THEN refs ELSE Duplicate(refs, new), handler)
  /\ IF new # None /\ handler = None
     THEN /\ listeners' = listeners \cup
                  {[id |-> nextId, type |-> Uncaptured, callback |-> None, once |-> FALSE]}
          /\ nextId' = nextId + 1
     ELSE /\ listeners' = IF new = None /\ handler # None
                          THEN {l \in listeners : l.callback # None}
                          ELSE listeners
          /\ UNCHANGED nextId
  /\ UNCHANGED <<stack, once, called, finalized>>

(***************************************************************************)
(* Dispatch.                                                               *)
(***************************************************************************)
\* The calls of a dispatch, with the handler as it is now.
Snapshot(type) ==
  {[id |-> l.id, callback |-> IF l.callback = None THEN handler ELSE l.callback] :
     l \in {l \in Entries(type) : l.callback # None \/ handler # None}}

\* snapshot_device_listeners and the release of the once-listeners it has taken out.
Begin(type) ==
  /\ Len(stack) < MaxDepth
  /\ LET calls == Snapshot(type)
         gone  == {l \in Entries(type) : l.once}
     IN /\ stack' = Append(stack, [todo |-> calls, running |-> {}])
        /\ refs' = [c \in Callbacks |-> (refs[c] + HeldBy(calls, c)) - HeldBy(gone, c)]
        /\ listeners' = listeners \ gone
  /\ UNCHANGED <<nextId, handler, once, called, finalized>>

\* event_target_dispatch_event; whether the event is cancelled changes only its result.
DispatchEvent(type) == InScript /\ ~finalized /\ Begin(type)

\* dispatch_callbacks: one call at a time, in the order of the list, its duplicate released when
\* it returns or throws; the first error is kept for the caller and ends nothing.
CallNext ==
  /\ stack # <<>> /\ Top.running = {}
  /\ \E call \in Top.todo :
       /\ \A other \in Top.todo : call.id <= other.id
       /\ SetTop([todo |-> Top.todo \ {call}, running |-> {call}])
       /\ called' = IF call.id \in once THEN Append(called, call.id) ELSE called
  /\ UNCHANGED <<listeners, nextId, handler, refs, once, finalized>>

\* Mutant: a callback that throws ends the dispatch.
CallbackReturnsStops ==
  /\ stack # <<>>
  /\ \E call \in Top.running :
       /\ \E rest \in {{}, Top.todo} : SetTop([todo |-> rest, running |-> {}])
       /\ refs' = Release(refs, call.callback)
  /\ UNCHANGED <<listeners, nextId, handler, once, called, finalized>>

CallbackReturns ==
  /\ stack # <<>>
  /\ \E call \in Top.running :
       /\ SetTop([todo |-> Top.todo, running |-> {}])
       /\ refs' = Release(refs, call.callback)
  /\ UNCHANGED <<listeners, nextId, handler, once, called, finalized>>

\* dispatchEvent returns its result, or throws the first error, to the script that called it.
EndDispatch ==
  /\ stack # <<>> /\ Top.running = {} /\ Top.todo = {}
  /\ stack' = Front(stack)
  /\ UNCHANGED <<listeners, nextId, handler, refs, once, called, finalized>>

(***************************************************************************)
(* The wrapper is collected, or the environment torn down: take_engine_    *)
(* values, through release_payload_values or release_device_event_values.  *)
(* A collection may come while a listener runs.                            *)
(***************************************************************************)
ReleaseEngineValues ==
  /\ ~finalized
  /\ finalized' = TRUE
  /\ refs' = Release([c \in Callbacks |-> refs[c] - HeldBy(listeners, c)], handler)
  /\ listeners' = {} /\ handler' = None
  /\ UNCHANGED <<nextId, stack, once, called>>

TargetScript ==
  \/ \E type \in Types : \E c \in Callbacks :
       \/ \E isOnce \in BOOLEAN : AddListener(type, c, isOnce)
       \/ RemoveListener(type, c)
  \/ \E new \in Callbacks \cup {None} : SetHandler(new)
  \/ \E type \in Types : DispatchEvent(type)

TargetSteps == CallNext \/ CallbackReturns \/ EndDispatch \/ ReleaseEngineValues

TargetTypeOK ==
  /\ listeners \subseteq Listener /\ nextId \in 0 .. MaxListeners
  /\ handler \in Callbacks \cup {None} /\ stack \in Seq(Frame)
  /\ refs \in [Callbacks -> Nat]
  /\ once \subseteq 0 .. MaxListeners - 1 /\ called \in Seq(0 .. MaxListeners - 1)
  /\ finalized \in BOOLEAN

(* Calls not yet returned from, in every dispatch under way.               *)
Unreturned == UNION {{i} \X (stack[i].todo \cup stack[i].running) : i \in DOMAIN stack}
Waiting(c) == Cardinality({w \in Unreturned : w[2].callback = c})

(* A callback is a live engine value for as long as a listener, the        *)
(* handler or a dispatch that has still to call it needs it, and not       *)
(* longer, whatever a listener does meanwhile to the list, the handler or  *)
(* the event, and although the wrapper is collected.                       *)
CallbacksHeld ==
  \A c \in Callbacks :
    refs[c] = HeldBy(listeners, c) + (IF handler = c THEN 1 ELSE 0) + Waiting(c)

(* A listener added with once is called once, and by one dispatch: not     *)
(* again by a dispatch its own callback, or an earlier one, has made.      *)
CalledOnce == \A i, j \in DOMAIN called : called[i] = called[j] => i = j

(* The attribute has exactly one place in the list while it is set.        *)
HandlerHasOnePlace ==
  HeldBy(listeners, None) = IF handler = None THEN 0 ELSE 1

(* The three together: a listener list that is changed under a dispatch    *)
(* neither loses a callback, nor keeps one, nor calls one twice.           *)
ListenersServed ==
  CallbacksHeld /\ CalledOnce /\ HandlerHasOnePlace
=============================================================================
