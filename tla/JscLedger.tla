------------------------------ MODULE JscLedger ------------------------------
(***************************************************************************)
(* The JavaScriptCore adapter's side of JsEngine.  A value core holds is   *)
(* the engine's own pointer; JSValueProtect makes it a root, and a ledger  *)
(* remembers every protection so that only one it made is undone.  What a  *)
(* finalizer gives back it may only enqueue: the tick thread unprotects it.*)
(* A handle has no number of its own (ref is 0).                           *)
(***************************************************************************)
EXTENDS Naturals, Sequences, FiniteSets
CONSTANT Cells

Ledger == [protected |-> [c \in Cells |-> 0], methods |-> [c \in Cells |-> 0],
           deferred |-> [c \in Cells |-> 0], tearing |-> FALSE]
Pointer(c) == [of |-> c, ref |-> 0]
Without(n, k) == IF n > k THEN n - k ELSE 0

Protect(l, c) == [l EXCEPT !.protected[c] = @ + 1]
\* protect_class_method: the value stays protected until the teardown, in a ledger of its own.
ProtectClassMethod(l, c) == IF l.tearing THEN l ELSE [l EXCEPT !.methods[c] = @ + 1]
\* Several handles are given back, in whichever order: hs has them by where they were kept.  A value
\* the ledger does not list is left alone.
Times(hs, c) == Cardinality({j \in DOMAIN hs : hs[j].of = c})
UnprotectAll(l, hs) == [l EXCEPT !.protected = [c \in Cells |-> Without(@[c], Times(hs, c))]]
Rooted(l) == {c \in Cells : l.protected[c] + l.methods[c] > 0}

DeferUnprotect(l, c) == [l EXCEPT !.deferred[c] = @ + 1]
DrainDeferred(l) ==
  [l EXCEPT !.protected = [c \in Cells |-> Without(@[c], l.deferred[c])], !.deferred = [c \in Cells |-> 0]]
\* begin_teardown, after it has set the flag and drained what was enqueued: every protection still
\* there is undone, then those of the class methods.
MopUp(l) == [l EXCEPT !.protected = [c \in Cells |-> 0], !.methods = [c \in Cells |-> 0]]

\* The scope tracks what an operation returns and the objects it makes; an error it throws is a bare
\* pointer.
Returned(l, c) == [store |-> Protect(l, c), handle |-> Pointer(c)]
Made(l, c) == Returned(l, c)
Thrown(l, c) == [store |-> l, handle |-> Pointer(c)]
\* What the engine hands a callback it keeps on its own stack.
Entered(l, this, args) ==
  [store |-> l, handles |-> IF args = <<>> THEN <<Pointer(this)>> ELSE <<Pointer(this), Pointer(args[1])>>]
EndScope(l, hs) == UnprotectAll(l, hs)

\* register_class protects the function objects of the methods.  The prototype it keeps beside them
\* has no entry in either ledger: the constructor holds it, and the global object the constructor
\* (new_instance relies on that), which script is taken to leave where it is.
RegisterClass(l, c) == [store |-> ProtectClassMethod(l, c), kept |-> Pointer(c), owned |-> <<>>]
\* new_promise protects the functions outside of any scope.
NewPromise(l, f, g) ==
  [store |-> Protect(Protect(l, f), g), resolve |-> Pointer(f), reject |-> Pointer(g), owned |-> <<>>]
\* settle_deferreds: as Boa's.
Settling(l, unused) == UnprotectAll(l, unused)
Settled(l, called) == UnprotectAll(l, called)
=============================================================================
