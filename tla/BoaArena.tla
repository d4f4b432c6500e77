------------------------------- MODULE BoaArena -------------------------------
(***************************************************************************)
(* The Boa adapter's side of JsEngine.  A value core holds is an index into*)
(* an arena of slots; a slot roots its JavaScript value and counts its     *)
(* holders.  The index of a slot nobody holds is given to the next value,  *)
(* so a handle kept too long reads a value it was never issued for.        *)
(*                                                                         *)
(* A handle is [of, ref]: ref is the index the code has, of the cell the   *)
(* handle was issued for, which only the properties look at.  An operation *)
(* that yields a handle is a record of the arena and the handle.           *)
(***************************************************************************)
EXTENDS Naturals, Integers, Sequences, FiniteSets
CONSTANT None
Empty == [cell |-> None, refs |-> 0]

Arena == [slots |-> <<>>, free |-> {}]

\* The index the next insert takes: a freed one, or a new one.  The code takes the last freed; which
\* of them it is makes no difference to a holder.
Index(a) == IF a.free = {} THEN Len(a.slots) + 1 ELSE CHOOSE i \in a.free : TRUE
Insert(a, c) ==
  LET slot == [cell |-> c, refs |-> 1] IN
  IF a.free = {} THEN [a EXCEPT !.slots = Append(@, slot)]
  ELSE [slots |-> [a.slots EXCEPT ![Index(a)] = slot], free |-> a.free \ {Index(a)}]

\* What get returns; a stale handle, for which it panics, is None.
Get(a, h) == IF h.ref \in DOMAIN a.slots THEN a.slots[h.ref].cell ELSE None
Duplicate(a, h) == [a EXCEPT !.slots[h.ref].refs = @ + 1]
\* Several handles are released, in whichever order: hs has them by where they were kept.  Releasing a
\* handle the arena no longer knows does nothing.
Times(hs, i) == Cardinality({j \in DOMAIN hs : hs[j].ref = i})
Left(a, hs, i) == a.slots[i].refs - Times(hs, i)
ReleaseAll(a, hs) ==
  [slots |-> [i \in DOMAIN a.slots |->
                IF Left(a, hs, i) > 0 THEN [a.slots[i] EXCEPT !.refs = Left(a, hs, i)] ELSE Empty],
   free  |-> a.free \cup {i \in DOMAIN a.slots : Left(a, hs, i) <= 0}]
\* The cells the slots root.
Rooted(a) == {a.slots[i].cell : i \in DOMAIN a.slots}

\* Every value an operation returns, an object it makes and an error it throws are inserted, and
\* belong to the innermost scope.
Returned(a, c) == [store |-> Insert(a, c), handle |-> [of |-> c, ref |-> Index(a)]]
Made(a, c) == Returned(a, c)
Thrown(a, c) == Returned(a, c)
\* A callback inserts this and its argument.
Entered(a, this, args) ==
  LET t == Returned(a, this) IN
  IF args = <<>> THEN [store |-> t.store, handles |-> <<t.handle>>]
  ELSE LET r == Returned(t.store, args[1]) IN [store |-> r.store, handles |-> <<t.handle, r.handle>>]
EndScope(a, hs) == ReleaseAll(a, hs)

\* register_class keeps the prototype past its scope.
RegisterClass(a, c) ==
  LET r == Returned(a, c) IN [store |-> Duplicate(r.store, r.handle), kept |-> r.handle, owned |-> <<r.handle>>]
\* new_promise puts the functions in the scope and keeps them past it.
NewPromise(a, f, g) ==
  LET resolve == Returned(a, f)
      reject  == Returned(resolve.store, g)
  IN  [store   |-> Duplicate(Duplicate(reject.store, resolve.handle), reject.handle),
       resolve |-> resolve.handle, reject |-> reject.handle, owned |-> <<resolve.handle, reject.handle>>]
\* settle_deferreds releases the function of each promise it will not call, and after the call the
\* others.
Settling(a, unused) == ReleaseAll(a, unused)
Settled(a, called) == ReleaseAll(a, called)
\* WrapperData::finalize gives back what the payload holds at once.
Finalized(a, hs) == ReleaseAll(a, hs)
=============================================================================
