------------------------------ MODULE MockScope ------------------------------
(***************************************************************************)
(* The mock engine core is tested with.  It collects nothing; it checks    *)
(* instead.  What a lookup or a call returns is an alias the scope         *)
(* reclaims, so a value used after its scope reads undefined; a duplicate  *)
(* is counted, and the runtime's drop asserts that none is left.  What the *)
(* mock makes itself is the value, number 0, which nothing reclaims.       *)
(***************************************************************************)
EXTENDS Naturals, Integers, Sequences, FiniteSets
CONSTANTS Cells, MaxAliases

Values == [dups |-> [c \in Cells |-> 0], aliases |-> {}, panicked |-> FALSE]

Canonical(c) == [of |-> c, ref |-> 0]
\* The code never takes a number again; a stale one is found when its alias is reclaimed, before it
\* could be.
Unused(v) == 1 .. MaxAliases \ v.aliases
FreshAlias(v) == CHOOSE n \in Unused(v) : TRUE
TrackedAlias(v) == [v EXCEPT !.aliases = @ \cup {FreshAlias(v)}]
Reads(v, h) == h.ref = 0 \/ h.ref \in v.aliases
EndScope(v, hs) == [v EXCEPT !.aliases = @ \ {hs[i].ref : i \in DOMAIN hs}]

DuplicateValue(v, c) == [v EXCEPT !.dups[c] = @ + 1]
\* Several are released, in whichever order.  A release without a duplicate panics.
Times(hs, c) == Cardinality({j \in DOMAIN hs : hs[j].of = c})
ReleaseValues(v, hs) ==
  [v EXCEPT !.dups = [c \in Cells |-> IF Times(hs, c) > @[c] THEN 0 ELSE @[c] - Times(hs, c)],
            !.panicked = @ \/ (\E j \in DOMAIN hs : hs[j].ref # 0) \/ \E c \in Cells : Times(hs, c) > v.dups[c]]

Returned(v, c) == [store |-> TrackedAlias(v), handle |-> [of |-> c, ref |-> FreshAlias(v)]]
Made(v, c) == [store |-> v, handle |-> Canonical(c)]
Thrown(v, c) == Made(v, c)
Entered(v, this, args) ==
  [store |-> v, handles |-> IF args = <<>> THEN <<Canonical(this)>> ELSE <<Canonical(this), Canonical(args[1])>>]
NewPromise(v, f, g) == [store |-> v, resolve |-> Canonical(f), reject |-> Canonical(g), owned |-> <<>>]
\* settle_deferreds stores the result and keeps the functions.
Settled(v, called) == v
=============================================================================
