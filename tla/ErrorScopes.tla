----------------------------- MODULE ErrorScopes -----------------------------
(***************************************************************************)
(* The errors of one GPUDevice, from where they are raised to the promise  *)
(* or the event that reports them.                                         *)
(*                                                                         *)
(* An error scope has two halves: an entry of the binding's own stack, for *)
(* the validation errors the binding generates, and one of the backend's.  *)
(* pushErrorScope and popErrorScope move both; popErrorScope's promise     *)
(* joins what the halves caught.  An error no scope catches is queued and  *)
(* the drain of tick() dispatches it to the listeners of EventTarget.      *)
(*                                                                         *)
(* The backend's stack is that of webgpu.h.  The host of an adopted device *)
(* is taken to leave the scopes to script.                                 *)
(***************************************************************************)
EXTENDS EventTarget

CONSTANTS Errors,     \* errors that may be raised
          Pops,       \* popErrorScope calls
          MaxScopes,  \* bound: scopes pushed in a behaviour
          MaxCalls    \* bound: calls script makes in a behaviour

Filters    == {"validation", "internal"}
ErrorTypes == Filters \cup {"other"}

ASSUME ErrorScopesAssumption ==
  /\ MaxScopes \in Nat /\ MaxCalls \in Nat /\ None \notin Errors /\ Errors \cap Callbacks = {}

VARIABLES
  scopes,     \* DeviceEventState::error_scopes
  native,     \* the backend's stack
  nextScope,  \* history: scopes pushed
  pops,       \* popErrorScope requests
  queue,      \* the settlement queue
  collected,  \* uncaptured errors the drain has yet to dispatch, with their places in the queue
  lost,       \* DeviceEventState::lost
  errors,     \* each error: where it is, and by whom it was raised
  raised,     \* history: the errors in the order they were raised
  calls       \* history: calls script has made

scopeVars == <<scopes, native, nextScope>>
errorVars == <<scopeVars, pops, queue, collected, lost, errors, raised>>
vars == <<targetVars, errorVars, calls>>

Scope == [id : 1 .. MaxScopes, filter : Filters, error : Errors \cup {None}]
Error == [at   : {"nowhere", "scope", "shadowed", "backend", "queue", "drain", "dispatched",
                  "reported", "eclipsed", "silenced", "failed"},
          half : {"binding", "backend"},
          type : ErrorTypes,
          home : 0 .. MaxScopes]
Pop   == [state : {"unused", "pending", "queued", "rejected", "resolved"},
          scope : 0 .. MaxScopes,
          ok    : BOOLEAN,
          synthetic : Errors \cup {None}, native : Errors \cup {None},
          value : Errors \cup {None}]
Record == [kind : {"pop"}, of : Pops] \cup [kind : {"error"}, of : Errors]

Init ==
  /\ TargetInit
  /\ scopes = <<>> /\ native = <<>> /\ nextScope = 0
  /\ pops = [p \in Pops |-> [state |-> "unused", scope |-> 0, ok |-> TRUE, synthetic |-> None,
                             native |-> None, value |-> None]]
  /\ queue = <<>> /\ collected = {}
  /\ lost = FALSE
  /\ errors = [e \in Errors |-> [at |-> "nowhere", half |-> "binding", type |-> "validation",
                                 home |-> 0]]
  /\ raised = <<>> /\ calls = 0

Move(who, where) == [e \in Errors |-> IF e \in who THEN [errors[e] EXCEPT !.at = where] ELSE errors[e]]

\* Between ticks, and in listeners the drain or script itself calls.
ScriptRuns == InScript /\ (stack = <<>> => collected = {})

(***************************************************************************)
(* Scopes.                                                                 *)
(***************************************************************************)
PushErrorScope(filter) ==
  /\ ScriptRuns /\ ~finalized /\ nextScope < MaxScopes
  /\ nextScope' = nextScope + 1
  /\ LET scope == [id |-> nextScope', filter |-> filter, error |-> None]
     IN scopes' = Append(scopes, scope) /\ native' = Append(native, scope)
  /\ UNCHANGED <<targetVars, pops, queue, collected, lost, errors, raised>>

Caught(stackOf) == IF stackOf = <<>> THEN None ELSE stackOf[Len(stackOf)].error
Popped(stackOf) == IF stackOf = <<>> THEN <<>> ELSE Front(stackOf)

\* Mutant: the binding's half is read and left on its stack.
PopErrorScopePeeks(p) ==
  /\ ScriptRuns /\ ~finalized /\ pops[p].state = "unused"
  /\ pops' = [pops EXCEPT ![p].state = "pending",
                          ![p].scope = IF native = <<>> THEN 0 ELSE native[Len(native)].id,
                          ![p].ok = native # <<>>,
                          ![p].synthetic = Caught(scopes),
                          ![p].native = Caught(native)]
  /\ native' = Popped(native)
  /\ UNCHANGED <<targetVars, scopes, nextScope, queue, collected, lost, errors, raised>>

\* The request takes the binding's half with it; the backend answers with its own later.  An
\* empty stack is an error of the backend.
PopErrorScope(p) ==
  /\ ScriptRuns /\ ~finalized /\ pops[p].state = "unused"
  /\ pops' = [pops EXCEPT ![p].state = "pending",
                          ![p].scope = IF native = <<>> THEN 0 ELSE native[Len(native)].id,
                          ![p].ok = native # <<>>,
                          ![p].synthetic = Caught(scopes),
                          ![p].native = Caught(native)]
  /\ scopes' = Popped(scopes) /\ native' = Popped(native)
  /\ UNCHANGED <<targetVars, nextScope, queue, collected, lost, errors, raised>>

\* pop_error_scope_callback, in order or not; the backend may fail or cancel it.
PopCallback(p, ok) ==
  /\ stack = <<>> /\ collected = {}
  /\ pops[p].state = "pending"
  /\ pops' = [pops EXCEPT ![p].state = "queued", ![p].ok = @ /\ ok]
  /\ queue' = Append(queue, [kind |-> "pop", of |-> p])
  /\ UNCHANGED <<targetVars, scopeVars, collected, lost, errors, raised>>

(***************************************************************************)
(* Errors.                                                                 *)
(***************************************************************************)
Matching(stackOf, type) == {i \in DOMAIN stackOf : stackOf[i].filter = type}
\* Mutant: the search starts at the outermost scope.
CatchesOutermost(i, stackOf, type) ==
  i \in Matching(stackOf, type) /\ \A j \in Matching(stackOf, type) : i <= j
\* The innermost scope with the filter of an error catches it.
Catches(i, stackOf, type) ==
  i \in Matching(stackOf, type) /\ \A j \in Matching(stackOf, type) : j <= i

\* The open scope it belongs to, 0 for none.
HomeOf(type) == Max({0} \cup {native[i].id : i \in Matching(native, type)})

Raise(e, half, type, where) ==
  /\ ScriptRuns /\ errors[e].at = "nowhere"
  /\ errors' = [errors EXCEPT
                  ![e] = [at |-> where, half |-> half, type |-> type, home |-> HomeOf(type)]]
  /\ raised' = Append(raised, e)
  /\ UNCHANGED <<targetVars, nextScope, pops, collected, lost>>

\* A scope keeps the first error it catches.
Keep(stackOf, e, i) ==
  IF stackOf[i].error = None THEN [stackOf EXCEPT ![i].error = e] ELSE stackOf
KeptAs(stackOf, i) == IF stackOf[i].error = None THEN "scope" ELSE "shadowed"

\* generate_validation_error; an encoder may outlive the wrapper of its device.
RaiseInBinding(e) ==
  /\ UNCHANGED native
  /\ LET type == "validation" IN
     \/ /\ lost
        /\ Raise(e, "binding", type, "silenced")
        /\ UNCHANGED <<scopes, queue>>
     \/ /\ ~lost
        /\ \E i \in DOMAIN scopes :
             /\ Catches(i, scopes, type)
             /\ scopes' = Keep(scopes, e, i)
             /\ Raise(e, "binding", type, KeptAs(scopes, i))
        /\ UNCHANGED queue
     \/ /\ ~lost /\ Matching(scopes, type) = {}
        /\ queue' = Append(queue, [kind |-> "error", of |-> e])
        /\ Raise(e, "binding", type, "queue")
        /\ UNCHANGED scopes

\* A command the backend finds invalid: its innermost scope, or the uncaptured error callback.
RaiseInBackend(e, type) ==
  /\ UNCHANGED <<scopes, queue>>
  /\ \/ \E i \in DOMAIN native :
          /\ Catches(i, native, type)
          /\ native' = Keep(native, e, i)
          /\ Raise(e, "backend", type, KeptAs(native, i))
     \/ /\ Matching(native, type) = {}
        /\ Raise(e, "backend", type, "backend")
        /\ UNCHANGED native

\* uncaptured_error_callback, or the host's forward of one.
UncapturedCallback(e) ==
  /\ stack = <<>> /\ collected = {}
  /\ errors[e].at = "backend"
  /\ queue' = IF lost THEN queue ELSE Append(queue, [kind |-> "error", of |-> e])
  /\ errors' = Move({e}, IF lost THEN "silenced" ELSE "queue")
  /\ UNCHANGED <<targetVars, scopeVars, pops, collected, lost, raised>>

\* mark_lost, from destroy(), the backend or the host's thread: the scopes forget.
MarkLost ==
  /\ ~lost
  /\ lost' = TRUE
  /\ scopes' = [i \in DOMAIN scopes |-> [scopes[i] EXCEPT !.error = None]]
  /\ errors' = Move({scopes[i].error : i \in DOMAIN scopes}, "silenced")
  /\ UNCHANGED <<targetVars, native, nextScope, pops, queue, collected, raised>>

(***************************************************************************)
(* The drain.                                                              *)
(***************************************************************************)
\* SettlementRequest::prepare of a PopErrorScope record: the backend's error goes first.
Value(pop)  == IF ~pop.ok \/ lost THEN None ELSE IF pop.native # None THEN pop.native ELSE pop.synthetic
PopState(pop) == IF pop.ok THEN "resolved" ELSE "rejected"
\* What becomes of an error the request holds.
PopFate(pop, e) ==
  IF ~pop.ok THEN "failed" ELSE IF lost THEN "silenced" ELSE IF Value(pop) = e THEN "reported" ELSE "eclipsed"

Holds(pop, e) == e # None /\ e \in {pop.synthetic, pop.native}

Drain ==
  /\ stack = <<>> /\ collected = {} /\ queue # <<>>
  /\ LET of(kind)      == {i \in DOMAIN queue : queue[i].kind = kind}
         drained(kind) == {queue[i].of : i \in of(kind)}
     IN /\ pops' = [p \in Pops |-> IF p \in drained("pop")
                      THEN [pops[p] EXCEPT !.state = PopState(pops[p]), !.value = Value(pops[p])]
                      ELSE pops[p]]
        /\ collected' = IF lost THEN {} ELSE {[at |-> i, of |-> queue[i].of] : i \in of("error")}
        /\ errors' = [e \in Errors |->
             [errors[e] EXCEPT !.at =
                IF e \in drained("error") THEN IF lost THEN "silenced" ELSE "drain"
                ELSE IF \E p \in drained("pop") : Holds(pops[p], e)
                THEN PopFate(pops[CHOOSE p \in drained("pop") : Holds(pops[p], e)], e)
                ELSE @]]
  /\ queue' = <<>>
  /\ UNCHANGED <<targetVars, scopeVars, lost, raised>>

\* dispatch_uncaptured_error: an error of a type the binding does not know has no class, and
\* no event.
DispatchUncaptured ==
  /\ stack = <<>> /\ collected # {}
  /\ \E next \in collected :
       /\ \A other \in collected : next.at <= other.at
       /\ IF errors[next.of].type = "other"
          THEN errors' = Move({next.of}, "failed") /\ UNCHANGED targetVars
          ELSE errors' = Move({next.of}, "dispatched") /\ Begin(Uncaptured)
       /\ collected' = collected \ {next}
  /\ UNCHANGED <<scopeVars, pops, queue, lost, raised>>

ScriptErrors ==
  \/ \E filter \in Filters : PushErrorScope(filter)
  \/ \E p \in Pops : PopErrorScope(p)
  \/ \E e \in Errors : RaiseInBinding(e) \/ \E type \in ErrorTypes : RaiseInBackend(e, type)

Script ==
  /\ calls < MaxCalls /\ calls' = calls + 1
  /\ ScriptErrors \/ (ScriptRuns /\ TargetScript /\ UNCHANGED errorVars)

Steps ==
  \/ TargetSteps /\ UNCHANGED errorVars
  \/ \E p \in Pops : \E ok \in BOOLEAN : PopCallback(p, ok)
  \/ \E e \in Errors : UncapturedCallback(e)
  \/ MarkLost
  \/ Drain
  \/ DispatchUncaptured

Next == Script \/ (Steps /\ UNCHANGED calls)

Spec == Init /\ [][Next]_vars

(***************************************************************************)
(* Correctness.                                                            *)
(***************************************************************************)
\* Every variable has its shape.
TypeOK ==
  /\ TargetTypeOK
  /\ scopes \in Seq(Scope) /\ native \in Seq(Scope) /\ nextScope \in 0 .. MaxScopes
  /\ pops \in [Pops -> Pop] /\ queue \in Seq(Record) /\ collected \subseteq [at : Nat, of : Errors]
  /\ lost \in BOOLEAN /\ errors \in [Errors -> Error] /\ raised \in Seq(Errors)
  /\ calls \in 0 .. MaxCalls

Before(e, f) == \E i, j \in DOMAIN raised : i < j /\ raised[i] = e /\ raised[j] = f
RaisedIn(s)  == {e \in Errors : errors[e].at # "nowhere" /\ errors[e].home = s}

\* popErrorScope answers for its own scope: an error that was raised while that scope was the
\* innermost one with its filter, the first one of its half; null only when there was none or the
\* device is lost (S2).  The backend may call back late and out of order, script may open and
\* close other scopes and raise more errors before the promise is settled.
PopReportsItsScope ==
  \A p \in Pops : pops[p].state = "resolved" =>
    LET s == pops[p].scope  e == pops[p].value
    IN IF e = None THEN lost \/ RaisedIn(s) = {}
       ELSE /\ e \in RaisedIn(s)
            /\ ~\E f \in RaisedIn(s) : errors[f].half = errors[e].half /\ Before(f, e)

InScopes(stackOf, e) == Cardinality({i \in DOMAIN stackOf : stackOf[i].error = e})
PlacesOf(e) ==
  InScopes(scopes, e) + InScopes(native, e)
  + Cardinality({p \in Pops : pops[p].state \in {"pending", "queued"} /\ Holds(pops[p], e)})

\* No error is told twice or vanishes: it is in one scope, request, queue or drain, or was
\* reported by one promise or one event, or there is a reason why nobody hears of it: its scope
\* has told another, the pop failed, its type has no class, or the device is lost.
ErrorsAccounted ==
  \A e \in Errors :
    /\ PlacesOf(e) = IF errors[e].at = "scope" THEN 1 ELSE 0
    /\ Cardinality({i \in DOMAIN queue : queue[i] = [kind |-> "error", of |-> e]})
         = IF errors[e].at = "queue" THEN 1 ELSE 0
    /\ Cardinality({r \in collected : r.of = e}) = IF errors[e].at = "drain" THEN 1 ELSE 0
    /\ Cardinality({p \in Pops : pops[p].state = "resolved" /\ pops[p].value = e})
         = IF errors[e].at = "reported" THEN 1 ELSE 0
    /\ errors[e].at \in {"shadowed", "eclipsed"} =>
         \E f \in RaisedIn(errors[e].home) : f # e
    /\ errors[e].at = "silenced" => lost
    /\ errors[e].at \in {"dispatched", "drain", "queue", "backend"} => errors[e].home = 0
=============================================================================
