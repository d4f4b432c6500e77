-------------------------- MODULE Retention_proofs --------------------------
(***************************************************************************)
(* Proofs about Retention, for any interfaces, plans and bounds, and about *)
(* Generator, for any inputs of which WorldsAssumption holds.              *)
(***************************************************************************)
EXTENDS Retention, Generator, FiniteSetTheorems, WellFoundedInduction, TLAPS

(***************************************************************************)
(* Counting the places that own a reference.                               *)
(***************************************************************************)
Counts(S, c) == IsFiniteSet(S) /\ Cardinality(S) = c

LEMMA CountIsNat ==
  ASSUME NEW S, NEW c, Counts(S, c)
  PROVE  c \in Nat
  BY FS_CardinalityType DEF Counts

(* Disjoint sets: their counts add up.                                     *)
LEMMA CountsAdd ==
  ASSUME NEW S, NEW T, NEW a, NEW b, Counts(S, a), Counts(T, b), S \cap T = {}
  PROVE  Counts(S \cup T, a + b)
  <1>1. IsFiniteSet(S) /\ IsFiniteSet(T) /\ a \in Nat /\ b \in Nat
    BY CountIsNat DEF Counts
  <1>2. IsFiniteSet(S \cup T) /\ Cardinality(S \cup T) = Cardinality(S) + Cardinality(T) - Cardinality(S \cap T)
    BY <1>1, FS_Union
  <1>3. Cardinality(S \cap T) = 0
    BY FS_EmptySet
  <1> QED
    BY <1>1, <1>2, <1>3 DEF Counts

(* What is left when disjoint places go.                                   *)
LEMMA CountsDrop ==
  ASSUME NEW S, NEW T, NEW a, NEW b, Counts(S \cup T, a), Counts(T, b), S \cap T = {}
  PROVE  Counts(S, a - b)
  <1>1. IsFiniteSet(S)
    BY FS_Subset, S \in SUBSET (S \cup T) DEF Counts
  <1>2. PICK c : Counts(S, c)
    BY <1>1 DEF Counts
  <1>3. Counts(S \cup T, c + b)
    BY <1>2, CountsAdd
  <1>4. a \in Nat /\ b \in Nat /\ c \in Nat /\ a = c + b
    BY <1>2, <1>3, CountIsNat DEF Counts
  <1> QED
    BY <1>2, <1>4

LEMMA CountOfRow ==
  ASSUME NEW tag, NEW k, NEW m \in Nat
  PROVE  Counts({<<tag, k, i>> : i \in 1 .. m}, m)
  <1> DEFINE f == [i \in 1 .. m |-> <<tag, k, i>>]
  <1>1. f \in Bijection(1 .. m, {<<tag, k, i>> : i \in 1 .. m})
    <2>1. f \in Injection(1 .. m, {<<tag, k, i>> : i \in 1 .. m})
      BY DEF Injection, IsInjective
    <2>2. f \in Surjection(1 .. m, {<<tag, k, i>> : i \in 1 .. m})
      BY DEF Surjection
    <2> QED
      BY <2>1, <2>2 DEF Bijection
  <1>2. IsFiniteSet(1 .. m) /\ Cardinality(1 .. m) = m
    BY FS_Interval
  <1>3. ExistsBijection(1 .. m, {<<tag, k, i>> : i \in 1 .. m})
    BY <1>1 DEF ExistsBijection
  <1> QED
    BY <1>2, <1>3, FS_Bijection DEF Counts

(* One list more, the others of the same length.                           *)
LEMMA ListAdded ==
  ASSUME NEW n, NEW tag, NEW lists, NEW more, NEW k, k \notin DOMAIN lists,
         DOMAIN more = DOMAIN lists \cup {k},
         \A j \in DOMAIN lists : more[j][n] = lists[j][n],
         more[k][n] \in Nat
  PROVE  /\ \A c : Counts(InLists(n, lists, tag), c) => Counts(InLists(n, more, tag), c + more[k][n])
         /\ \A c : Counts(InLists(n, more, tag), c) => Counts(InLists(n, lists, tag), c - more[k][n])
  <1> DEFINE row == {<<tag, k, i>> : i \in 1 .. more[k][n]}
  <1>1. Counts(row, more[k][n])
    BY CountOfRow
  <1>2. InLists(n, more, tag) = InLists(n, lists, tag) \cup row
    BY DEF InLists
  <1>3. InLists(n, lists, tag) \cap row = {}
    BY DEF InLists
  <1> HIDE DEF row
  <1> QED
    BY <1>1, <1>2, <1>3, CountsAdd, CountsDrop

(* The same lists under the same names.                                    *)
LEMMA ListsSame ==
  ASSUME NEW n, NEW tag, NEW lists, NEW more, DOMAIN more = DOMAIN lists,
         \A j \in DOMAIN lists : more[j][n] = lists[j][n]
  PROVE  InLists(n, more, tag) = InLists(n, lists, tag)
  BY DEF InLists

(* References to the handles of a sequence.                                *)
LEMMA RefsOfSequence ==
  ASSUME NEW S, NEW hs \in Seq(S), NEW n \in Natives
  PROVE  /\ RefsTo(hs)[n] \in Nat
         /\ Counts({i \in DOMAIN hs : hs[i] = n}, RefsTo(hs)[n])
  <1>1. IsFiniteSet(DOMAIN hs)
    BY FS_Interval, DOMAIN hs = 1 .. Len(hs), Len(hs) \in Nat
  <1>2. IsFiniteSet({i \in DOMAIN hs : hs[i] = n})
    BY <1>1, FS_Subset, {i \in DOMAIN hs : hs[i] = n} \in SUBSET DOMAIN hs
  <1> QED
    BY <1>2, FS_CardinalityType DEF RefsTo, Counts

LEMMA RefsOfNone ==
  ASSUME NEW n \in Natives
  PROVE  RefsTo(<<>>)[n] = 0
  BY FS_EmptySet, {i \in DOMAIN <<>> : <<>>[i] = n} = {} DEF RefsTo

LEMMA RefsOfAppended ==
  ASSUME NEW S, NEW hs \in Seq(S), NEW x \in S, NEW n \in Natives
  PROVE  RefsTo(Append(hs, x))[n] = RefsTo(hs)[n] + RefTo(x)[n]
  <1> DEFINE old == {i \in DOMAIN hs : hs[i] = n}
             new == {i \in DOMAIN Append(hs, x) : Append(hs, x)[i] = n}
  <1>1. IsFiniteSet(old) /\ Cardinality(old) = RefsTo(hs)[n] /\ RefsTo(hs)[n] \in Nat
    BY RefsOfSequence DEF Counts
  <1>2. RefsTo(Append(hs, x))[n] = Cardinality(new)
    BY DEF RefsTo
  <1>3. /\ Len(hs) \in Nat /\ DOMAIN hs = 1 .. Len(hs) /\ DOMAIN Append(hs, x) = DOMAIN hs \cup {Len(hs) + 1}
        /\ \A i \in DOMAIN hs : Append(hs, x)[i] = hs[i] /\ i # Len(hs) + 1
        /\ Append(hs, x)[Len(hs) + 1] = x
    OBVIOUS
  <1>4. CASE x = n
    <2>1. new = old \cup {Len(hs) + 1} /\ Len(hs) + 1 \notin old
      BY <1>3, <1>4
    <2>2. Cardinality(new) = Cardinality(old) + 1
      BY <1>1, <2>1, FS_AddElement
    <2> QED
      BY <1>1, <1>2, <1>4, <2>2 DEF RefTo
  <1>5. CASE x # n
    <2>1. new = old
      BY <1>3, <1>5
    <2>2. RefTo(x)[n] = 0
      BY <1>5 DEF RefTo
    <2> HIDE DEF old, new
    <2> QED
      BY <1>1, <1>2, <2>1, <2>2
  <1> QED
    BY <1>4, <1>5

(***************************************************************************)
(* The shapes of the state, and the owners kind by kind.                   *)
(***************************************************************************)
AnyKind == Kinds \cup {"GPUTextureView", "GPUBindGroupLayout", "GPURenderBundle"}
Wrapper == [kind : AnyKind, handle : 0 .. MaxNatives, slot : {"full", "empty"}, held : [Natives -> Nat]]
Gots    == UNION {[DOMAIN Plan[k] -> Seq(Natives)] : k \in Kinds}
Call    == [kind : Kinds, creator : Nat, got : Gots, made : Seq(Natives)]

LiveIn(ws)     == {w \in DOMAIN ws : ws[w].slot = "full" /\ ws[w].handle # Null}
SlotsIn(ws, n) == {<<"slot", w>> : w \in {v \in LiveIn(ws) : ws[v].handle = n}}
HeldIn(ws)     == [w \in LiveIn(ws) |-> ws[w].held]
MadeIn(cs)     == [i \in DOMAIN cs |-> RefsTo(cs[i].made)]
OrphanIn(o, n) == IF n \in o THEN {<<"orphan">>} ELSE {}

(* A wrapper is made.                                                      *)
LEMMA SlotAdded ==
  ASSUME NEW ws \in Seq(Wrapper), NEW r \in Wrapper, r.slot = "full", NEW n \in Natives,
         NEW a, Counts(SlotsIn(ws, n), a)
  PROVE  Counts(SlotsIn(Append(ws, r), n), a + RefTo(r.handle)[n])
  <1> DEFINE more == Append(ws, r)
  <1>1. /\ Len(ws) \in Nat /\ DOMAIN ws = 1 .. Len(ws) /\ DOMAIN more = DOMAIN ws \cup {Len(ws) + 1}
        /\ \A i \in DOMAIN ws : more[i] = ws[i] /\ i # Len(ws) + 1
        /\ more[Len(ws) + 1] = r
    OBVIOUS
  <1>2. n # Null
    BY RetentionAssumption DEF Natives, Null
  <1>3. a \in Nat
    BY CountIsNat
  <1> HIDE DEF more
  <1>4. CASE r.handle = n
    <2>1. LiveIn(more) = LiveIn(ws) \cup {Len(ws) + 1} /\ LiveIn(ws) \subseteq DOMAIN ws
      BY <1>1, <1>2, <1>4 DEF LiveIn
    <2>2. SlotsIn(more, n) = SlotsIn(ws, n) \cup {<<"slot", Len(ws) + 1>>}
      BY <1>1, <1>4, <2>1 DEF SlotsIn
    <2>3. <<"slot", Len(ws) + 1>> \notin SlotsIn(ws, n)
      BY <1>1, <2>1 DEF SlotsIn
    <2>4. RefTo(r.handle)[n] = 1
      BY <1>4 DEF RefTo
    <2> QED
      BY <2>2, <2>3, <2>4, FS_AddElement DEF Counts, more
  <1>5. CASE r.handle # n
    <2>1. \A v \in DOMAIN more : v \in LiveIn(more) /\ more[v].handle = n <=> v \in LiveIn(ws) /\ ws[v].handle = n
      BY <1>1, <1>5 DEF LiveIn
    <2>2. LiveIn(ws) \subseteq DOMAIN more /\ LiveIn(more) \subseteq DOMAIN more
      BY <1>1 DEF LiveIn
    <2>3. SlotsIn(more, n) = SlotsIn(ws, n)
      BY <2>1, <2>2 DEF SlotsIn
    <2>4. RefTo(r.handle)[n] = 0
      BY <1>5 DEF RefTo
    <2> QED
      BY <1>3, <2>3, <2>4 DEF more
  <1> QED
    BY <1>4, <1>5

LEMMA HeldAdded ==
  ASSUME NEW ws \in Seq(Wrapper), NEW r \in Wrapper, r.slot = "full", NEW n \in Natives,
         r.handle = Null => r.held[n] = 0,
         NEW a, Counts(InLists(n, HeldIn(ws), "held"), a)
  PROVE  Counts(InLists(n, HeldIn(Append(ws, r)), "held"), a + r.held[n])
  <1> DEFINE more == Append(ws, r)
  <1>1. /\ Len(ws) \in Nat /\ DOMAIN ws = 1 .. Len(ws) /\ DOMAIN more = DOMAIN ws \cup {Len(ws) + 1}
        /\ \A i \in DOMAIN ws : more[i] = ws[i] /\ i # Len(ws) + 1
        /\ more[Len(ws) + 1] = r
    OBVIOUS
  <1>2. r.held[n] \in Nat
    BY DEF Wrapper
  <1>3. a \in Nat
    BY CountIsNat
  <1> HIDE DEF more
  <1>4. CASE r.handle # Null
    <2>1. LiveIn(more) = LiveIn(ws) \cup {Len(ws) + 1} /\ LiveIn(ws) \subseteq DOMAIN ws
      BY <1>1, <1>4 DEF LiveIn
    <2>2. /\ DOMAIN HeldIn(more) = DOMAIN HeldIn(ws) \cup {Len(ws) + 1} /\ Len(ws) + 1 \notin DOMAIN HeldIn(ws)
          /\ \A j \in DOMAIN HeldIn(ws) : HeldIn(more)[j][n] = HeldIn(ws)[j][n]
          /\ HeldIn(more)[Len(ws) + 1][n] = r.held[n]
      BY <1>1, <2>1 DEF HeldIn
    <2>3. Counts(InLists(n, HeldIn(more), "held"), a + HeldIn(more)[Len(ws) + 1][n])
      BY <1>2, <2>2, ListAdded
    <2> QED
      BY <2>2, <2>3 DEF more
  <1>5. CASE r.handle = Null
    <2>1. LiveIn(more) = LiveIn(ws) /\ LiveIn(ws) \subseteq DOMAIN ws
      BY <1>1, <1>5 DEF LiveIn
    <2>2. DOMAIN HeldIn(more) = DOMAIN HeldIn(ws) /\ \A j \in DOMAIN HeldIn(ws) : HeldIn(more)[j][n] = HeldIn(ws)[j][n]
      BY <1>1, <2>1 DEF HeldIn
    <2>3. InLists(n, HeldIn(more), "held") = InLists(n, HeldIn(ws), "held")
      BY <2>2, ListsSame
    <2> QED
      BY <1>3, <1>5, <2>3 DEF more
  <1> QED
    BY <1>4, <1>5

(* A slot is emptied: its handle and what its payload kept lose an owner.  *)
LEMMA SlotEmptied ==
  ASSUME NEW ws \in Seq(Wrapper), NEW w \in LiveIn(ws), NEW ws2, DOMAIN ws2 = DOMAIN ws,
         \A v \in DOMAIN ws : v # w => ws2[v] = ws[v],
         ws2[w].slot # "full", NEW n \in Natives,
         NEW a, Counts(SlotsIn(ws, n), a), NEW b, Counts(InLists(n, HeldIn(ws), "held"), b)
  PROVE  /\ Counts(SlotsIn(ws2, n), a - RefTo(ws[w].handle)[n])
         /\ Counts(InLists(n, HeldIn(ws2), "held"), b - ws[w].held[n])
  <1>1. LiveIn(ws) = LiveIn(ws2) \cup {w} /\ w \notin LiveIn(ws2) /\ LiveIn(ws2) \subseteq DOMAIN ws
    BY DEF LiveIn
  <1>2. \A v \in LiveIn(ws2) : ws2[v] = ws[v]
    BY <1>1
  <1>3. Counts(SlotsIn(ws2, n), a - RefTo(ws[w].handle)[n])
    <2>1. CASE ws[w].handle = n
      <3>1. SlotsIn(ws, n) = SlotsIn(ws2, n) \cup {<<"slot", w>>}
        BY <1>1, <1>2, <2>1 DEF SlotsIn
      <3>2. SlotsIn(ws2, n) \cap {<<"slot", w>>} = {}
        BY <1>1 DEF SlotsIn
      <3>3. Counts({<<"slot", w>>}, 1)
        BY FS_Singleton DEF Counts
      <3>4. RefTo(ws[w].handle)[n] = 1
        BY <2>1 DEF RefTo
      <3> QED
        BY <3>1, <3>2, <3>3, <3>4, CountsDrop
    <2>2. CASE ws[w].handle # n
      <3>1. SlotsIn(ws2, n) = SlotsIn(ws, n)
        BY <1>1, <1>2, <2>2 DEF SlotsIn
      <3>2. RefTo(ws[w].handle)[n] = 0 /\ a \in Nat
        BY <2>2, CountIsNat DEF RefTo
      <3> QED
        BY <3>1, <3>2
    <2> QED
      BY <2>1, <2>2
  <1>4. Counts(InLists(n, HeldIn(ws2), "held"), b - ws[w].held[n])
    <2>1. /\ DOMAIN HeldIn(ws) = DOMAIN HeldIn(ws2) \cup {w} /\ w \notin DOMAIN HeldIn(ws2)
          /\ \A j \in DOMAIN HeldIn(ws2) : HeldIn(ws)[j][n] = HeldIn(ws2)[j][n]
          /\ HeldIn(ws)[w][n] = ws[w].held[n]
      BY <1>1, <1>2 DEF HeldIn
    <2>2. ws[w].held[n] \in Nat
      <3>1. ws[w] \in Wrapper
        BY <1>1 DEF LiveIn
      <3> QED
        BY <3>1 DEF Wrapper
    <2>3. Counts(InLists(n, HeldIn(ws2), "held"), b - HeldIn(ws)[w][n])
      BY <2>1, <2>2, ListAdded
    <2> QED
      BY <2>1, <2>3
  <1> QED
    BY <1>3, <1>4

(* An empty slot, or one without a handle, owns nothing.                   *)
LEMMA IdleEmptied ==
  ASSUME NEW ws, NEW w \in DOMAIN ws, w \notin LiveIn(ws), NEW ws2, DOMAIN ws2 = DOMAIN ws,
         \A v \in DOMAIN ws : v # w => ws2[v] = ws[v],
         ws2[w].slot # "full", NEW n \in Natives
  PROVE  /\ SlotsIn(ws2, n) = SlotsIn(ws, n)
         /\ InLists(n, HeldIn(ws2), "held") = InLists(n, HeldIn(ws), "held")
  <1>1. LiveIn(ws2) = LiveIn(ws) /\ \A v \in LiveIn(ws) : ws2[v] = ws[v]
    BY DEF LiveIn
  <1>2. SlotsIn(ws2, n) = SlotsIn(ws, n)
    BY <1>1 DEF SlotsIn
  <1>3. DOMAIN HeldIn(ws2) = DOMAIN HeldIn(ws) /\ \A j \in DOMAIN HeldIn(ws) : HeldIn(ws2)[j][n] = HeldIn(ws)[j][n]
    BY <1>1 DEF HeldIn
  <1> QED
    BY <1>2, <1>3, ListsSame

(* The calls under way: one begins, the innermost goes on, or it returns.  *)
LEMMA FrontOfCalls ==
  ASSUME NEW S, NEW s \in Seq(S), s # <<>>
  PROVE  /\ Front(s) \in Seq(S) /\ Len(Front(s)) = Len(s) - 1 /\ Len(s) \in Nat \ {0}
         /\ DOMAIN s = DOMAIN Front(s) \cup {Len(s)} /\ Len(s) \notin DOMAIN Front(s)
         /\ \A i \in DOMAIN Front(s) : Front(s)[i] = s[i]
         /\ s[Len(s)] \in S
  <1>1. Len(s) \in Nat \ {0} /\ DOMAIN s = 1 .. Len(s) /\ \A i \in 1 .. Len(s) : s[i] \in S
    OBVIOUS
  <1>2. /\ Front(s) \in Seq(S) /\ Len(Front(s)) = Len(s) - 1
        /\ \A i \in 1 .. Len(s) - 1 : Front(s)[i] = s[i]
    BY <1>1 DEF Front
  <1> QED
    BY <1>1, <1>2

LEMMA MadeByInnermost ==
  ASSUME NEW cs \in Seq(Call), cs # <<>>, NEW n \in Natives
  PROVE  /\ RefsTo(cs[Len(cs)].made)[n] \in Nat
         /\ \A a : Counts(InLists(n, MadeIn(cs), "made"), a)
                     => Counts(InLists(n, MadeIn(Front(cs)), "made"), a - RefsTo(cs[Len(cs)].made)[n])
         /\ \A a : Counts(InLists(n, MadeIn(Front(cs)), "made"), a)
                     => Counts(InLists(n, MadeIn(cs), "made"), a + RefsTo(cs[Len(cs)].made)[n])
  <1>1. /\ DOMAIN cs = DOMAIN Front(cs) \cup {Len(cs)} /\ Len(cs) \notin DOMAIN Front(cs)
        /\ \A i \in DOMAIN Front(cs) : Front(cs)[i] = cs[i]
        /\ cs[Len(cs)] \in Call
    BY FrontOfCalls
  <1>2. RefsTo(cs[Len(cs)].made)[n] \in Nat
    <2>1. cs[Len(cs)].made \in Seq(Natives)
      BY <1>1 DEF Call
    <2> QED
      BY <2>1, RefsOfSequence
  <1>3. /\ DOMAIN MadeIn(cs) = DOMAIN MadeIn(Front(cs)) \cup {Len(cs)}
        /\ Len(cs) \notin DOMAIN MadeIn(Front(cs))
        /\ \A j \in DOMAIN MadeIn(Front(cs)) : MadeIn(cs)[j][n] = MadeIn(Front(cs))[j][n]
        /\ MadeIn(cs)[Len(cs)][n] = RefsTo(cs[Len(cs)].made)[n]
    BY <1>1 DEF MadeIn
  <1> HIDE DEF MadeIn
  <1>4. /\ \A a : Counts(InLists(n, MadeIn(Front(cs)), "made"), a)
                    => Counts(InLists(n, MadeIn(cs), "made"), a + MadeIn(cs)[Len(cs)][n])
        /\ \A a : Counts(InLists(n, MadeIn(cs), "made"), a)
                    => Counts(InLists(n, MadeIn(Front(cs)), "made"), a - MadeIn(cs)[Len(cs)][n])
    BY <1>2, <1>3, ListAdded
  <1> QED
    BY <1>2, <1>3, <1>4

LEMMA MadeBegins ==
  ASSUME NEW cs \in Seq(Call), NEW c \in Call, c.made = <<>>, NEW n \in Natives,
         NEW a, Counts(InLists(n, MadeIn(cs), "made"), a)
  PROVE  Counts(InLists(n, MadeIn(Append(cs, c)), "made"), a)
  <1> DEFINE more == Append(cs, c)
  <1>1. more \in Seq(Call) /\ more # <<>> /\ Len(more) = Len(cs) + 1 /\ more[Len(more)] = c
    OBVIOUS
  <1>2. Front(more) = cs
    <2>1. Len(cs) \in Nat /\ cs = [i \in 1 .. Len(cs) |-> cs[i]]
      OBVIOUS
    <2>2. \A i \in 1 .. Len(cs) : more[i] = cs[i]
      OBVIOUS
    <2>3. Front(more) = [i \in 1 .. Len(cs) |-> more[i]]
      BY <1>1, <2>1 DEF Front
    <2> QED
      BY <2>1, <2>2, <2>3
  <1> HIDE DEF more
  <1>3. RefsTo(more[Len(more)].made)[n] = 0
    BY <1>1, RefsOfNone
  <1>4. Counts(InLists(n, MadeIn(more), "made"), a + RefsTo(more[Len(more)].made)[n])
    BY <1>1, <1>2, MadeByInnermost
  <1>5. a \in Nat
    BY CountIsNat
  <1> QED
    BY <1>3, <1>4, <1>5 DEF more

LEMMA MadeChanges ==
  ASSUME NEW cs \in Seq(Call), cs # <<>>, NEW cs2 \in Seq(Call), DOMAIN cs2 = DOMAIN cs,
         \A i \in DOMAIN cs : i # Len(cs) => cs2[i] = cs[i],
         NEW n \in Natives, NEW a, Counts(InLists(n, MadeIn(cs), "made"), a)
  PROVE  Counts(InLists(n, MadeIn(cs2), "made"),
                (a - RefsTo(cs[Len(cs)].made)[n]) + RefsTo(cs2[Len(cs)].made)[n])
  <1>1. Len(cs2) = Len(cs) /\ cs2 # <<>> /\ Len(cs) \in Nat \ {0}
    OBVIOUS
  <1>2. Front(cs2) = Front(cs)
    BY <1>1 DEF Front
  <1>3. Counts(InLists(n, MadeIn(Front(cs)), "made"), a - RefsTo(cs[Len(cs)].made)[n])
    BY MadeByInnermost
  <1> QED
    BY <1>1, <1>2, <1>3, MadeByInnermost

(* The release queue: a request, the views of a failed conversion one by   *)
(* one, the next request taken.                                            *)
LEMMA Enqueued ==
  ASSUME NEW q \in Seq([Natives -> Nat]), NEW r \in [Natives -> Nat], NEW n \in Natives,
         NEW a, Counts(InLists(n, q, "queue"), a)
  PROVE  Counts(InLists(n, Append(q, r), "queue"), a + r[n])
  <1> DEFINE more == Append(q, r)
  <1>1. /\ Len(q) \in Nat /\ DOMAIN q = 1 .. Len(q) /\ DOMAIN more = DOMAIN q \cup {Len(q) + 1}
        /\ \A i \in DOMAIN q : more[i][n] = q[i][n]
        /\ more[Len(q) + 1] = r /\ Len(q) + 1 \notin DOMAIN q
    OBVIOUS
  <1> HIDE DEF more
  <1>2. more[Len(q) + 1][n] \in Nat
    BY <1>1
  <1>3. Counts(InLists(n, more, "queue"), a + more[Len(q) + 1][n])
    BY <1>1, <1>2, ListAdded
  <1> QED
    BY <1>1, <1>3 DEF more

LEMMA EnqueuedOneByOne ==
  ASSUME NEW q \in Seq([Natives -> Nat]), NEW hs \in Seq(Natives), NEW n \in Natives,
         NEW a, Counts(InLists(n, q, "queue"), a)
  PROVE  Counts(InLists(n, q \o [i \in DOMAIN hs |-> RefTo(hs[i])], "queue"), a + RefsTo(hs)[n])
  <1> DEFINE l    == Len(q)
             more == q \o [i \in DOMAIN hs |-> RefTo(hs[i])]
             at   == {i \in DOMAIN hs : hs[i] = n}
             new  == {<<"queue", l + i, 1>> : i \in at}
             g    == [i \in at |-> <<"queue", l + i, 1>>]
  <1>1. l \in Nat /\ DOMAIN q = 1 .. l /\ Len(hs) \in Nat /\ DOMAIN hs = 1 .. Len(hs)
    OBVIOUS
  <1>2. /\ DOMAIN more = 1 .. l + Len(hs)
        /\ \A i \in 1 .. l : more[i] = q[i]
        /\ \A i \in 1 .. Len(hs) : more[l + i] = RefTo(hs[i])
    <2>1. [i \in DOMAIN hs |-> RefTo(hs[i])] \in Seq([Natives -> Nat])
      <3>1. \A i \in DOMAIN hs : RefTo(hs[i]) \in [Natives -> Nat]
        BY DEF RefTo
      <3> QED
        BY <1>1, <3>1
    <2>2. Len([i \in DOMAIN hs |-> RefTo(hs[i])]) = Len(hs)
      BY <1>1
    <2> QED
      BY <1>1, <2>1, <2>2
  <1>3. Counts(at, RefsTo(hs)[n])
    BY RefsOfSequence
  <1>4. Counts(new, RefsTo(hs)[n])
    <2>1. g \in Injection(at, new)
      BY <1>1 DEF Injection, IsInjective
    <2>2. g \in Surjection(at, new)
      BY DEF Surjection
    <2>3. ExistsBijection(at, new)
      BY <2>1, <2>2 DEF Bijection, ExistsBijection
    <2> QED
      BY <1>3, <2>3, FS_Bijection DEF Counts
  <1>5. InLists(n, q, "queue") \cap new = {}
    BY <1>1 DEF InLists
  <1>6. InLists(n, more, "queue") = InLists(n, q, "queue") \cup new
    <2>1. ASSUME NEW k \in 1 .. l + Len(hs), NEW i \in 1 .. more[k][n]
          PROVE  <<"queue", k, i>> \in InLists(n, q, "queue") \cup new
      <3>1. CASE k <= l
        BY <1>1, <1>2, <2>1, <3>1 DEF InLists
      <3>2. CASE k > l
        <4>1. PICK j \in 1 .. Len(hs) : k = l + j
          BY <1>1, <2>1, <3>2, k - l \in 1 .. Len(hs), k = l + (k - l)
        <4>2. more[k][n] = RefTo(hs[j])[n]
          BY <1>2, <4>1
        <4>3. RefTo(hs[j])[n] = IF n = hs[j] THEN 1 ELSE 0
          BY DEF RefTo
        <4>4. hs[j] = n /\ i = 1
          <5> HIDE DEF more
          <5> QED
            BY <2>1, <4>2, <4>3
        <4> QED
          BY <1>1, <4>1, <4>4
      <3> QED
        BY <1>1, <3>1, <3>2
    <2>2. ASSUME NEW k \in 1 .. l, NEW i \in 1 .. q[k][n]
          PROVE  <<"queue", k, i>> \in InLists(n, more, "queue")
      <3>1. k \in DOMAIN more /\ i \in 1 .. more[k][n]
        BY <1>1, <1>2
      <3> HIDE DEF more
      <3> QED
        BY <3>1 DEF InLists
    <2>3. ASSUME NEW j \in at
          PROVE  <<"queue", l + j, 1>> \in InLists(n, more, "queue")
      <3>1. l + j \in DOMAIN more /\ more[l + j][n] = 1
        BY <1>1, <1>2 DEF RefTo
      <3> HIDE DEF more
      <3>2. 1 \in 1 .. more[l + j][n]
        BY <3>1
      <3> QED
        BY <3>1, <3>2 DEF InLists
    <2>4. InLists(n, more, "queue") \subseteq InLists(n, q, "queue") \cup new
      <3> HIDE DEF more, new
      <3> QED
        BY <1>2, <2>1 DEF InLists
    <2>5. InLists(n, q, "queue") \subseteq InLists(n, more, "queue")
      <3> HIDE DEF more
      <3> QED
        BY <1>1, <2>2 DEF InLists
    <2> HIDE DEF more
    <2> QED
      BY <2>3, <2>4, <2>5
  <1> HIDE DEF new, more
  <1>7. Counts(InLists(n, more, "queue"), a + RefsTo(hs)[n])
    BY <1>4, <1>5, <1>6, CountsAdd
  <1> QED
    BY <1>7 DEF more

LEMMA Dequeued ==
  ASSUME NEW q \in Seq([Natives -> Nat]), q # <<>>, NEW n \in Natives,
         NEW a, Counts(InLists(n, q, "queue"), a)
  PROVE  Counts(InLists(n, Tail(q), "queue"), a - Head(q)[n])
  <1> DEFINE rest == InLists(n, Tail(q), "queue")
             old  == UNION {{<<"queue", k, i>> : i \in 1 .. q[k][n]} : k \in 2 .. Len(q)}
             row  == {<<"queue", 1, i>> : i \in 1 .. q[1][n]}
             g    == [x \in old |-> <<"queue", x[2] - 1, x[3]>>]
  <1>1. /\ Len(q) \in Nat \ {0} /\ DOMAIN q = 1 .. Len(q) /\ Head(q) = q[1] /\ q[1] \in [Natives -> Nat]
        /\ DOMAIN Tail(q) = 1 .. Len(q) - 1 /\ \A k \in 1 .. Len(q) - 1 : Tail(q)[k] = q[k + 1]
    OBVIOUS
  <1>2. InLists(n, q, "queue") = old \cup row
    <2>1. DOMAIN q = (2 .. Len(q)) \cup {1}
      BY <1>1
    <2> QED
      BY <2>1 DEF InLists
  <1>3. old \cap row = {}
    <2>1. SUFFICES ASSUME NEW x \in old, x \in row PROVE FALSE
      OBVIOUS
    <2>2. PICK k \in 2 .. Len(q) : \E i \in 1 .. q[k][n] : x = <<"queue", k, i>>
      OBVIOUS
    <2>3. x[2] = k /\ x[2] = 1
      BY <2>1, <2>2
    <2> QED
      BY <2>3
  <1>4. Counts(row, q[1][n])
    <2>1. q[1][n] \in Nat
      BY <1>1
    <2> QED
      BY <2>1, CountOfRow
  <1>5. Counts(old, a - q[1][n])
    <2> HIDE DEF old, row
    <2> QED
      BY <1>2, <1>3, <1>4, CountsDrop
  <1>6. ASSUME NEW x \in old
        PROVE  /\ x = <<"queue", x[2], x[3]>> /\ x[2] \in 2 .. Len(q) /\ x[3] \in 1 .. q[x[2]][n]
               /\ <<"queue", x[2] - 1, x[3]>> \in rest
    <2>1. PICK k \in 2 .. Len(q) : \E i \in 1 .. q[k][n] : x = <<"queue", k, i>>
      BY <1>6
    <2>7. PICK i \in 1 .. q[k][n] : x = <<"queue", k, i>>
      BY <2>1
    <2>2. k - 1 \in 1 .. Len(q) - 1 /\ Tail(q)[k - 1] = q[k]
      BY <1>1
    <2>3. <<"queue", k - 1, i>> \in rest
      <3>1. k - 1 \in DOMAIN Tail(q) /\ i \in 1 .. Tail(q)[k - 1][n]
        BY <1>1, <2>2, <2>7
      <3> QED
        BY <3>1 DEF InLists
    <2> HIDE DEF rest
    <2> QED
      BY <2>7, <2>3
  <1>7. ASSUME NEW y \in rest
        PROVE  \E x \in old : y = <<"queue", x[2] - 1, x[3]>>
    <2>1. PICK k \in 1 .. Len(q) - 1 : \E i \in 1 .. Tail(q)[k][n] : y = <<"queue", k, i>>
      BY <1>1, <1>7 DEF InLists
    <2>4. PICK i \in 1 .. Tail(q)[k][n] : y = <<"queue", k, i>>
      BY <2>1
    <2>2. k + 1 \in 2 .. Len(q) /\ i \in 1 .. q[k + 1][n] /\ (k + 1) - 1 = k
      BY <1>1, <2>4
    <2>3. <<"queue", k + 1, i>> \in old
      BY <2>2
    <2> HIDE DEF old
    <2> QED
      BY <2>4, <2>2, <2>3
  <1> HIDE DEF old, rest
  <1>8. ExistsBijection(old, rest)
    <2>1. g \in Injection(old, rest)
      <3>1. \A x, y \in old : <<"queue", x[2] - 1, x[3]>> = <<"queue", y[2] - 1, y[3]>> => x = y
        <4>1. TAKE x, y \in old
        <4>2. HAVE <<"queue", x[2] - 1, x[3]>> = <<"queue", y[2] - 1, y[3]>>
        <4>3. x[2] - 1 = y[2] - 1 /\ x[3] = y[3]
          BY <4>2
        <4>4. x[2] \in 2 .. Len(q) /\ y[2] \in 2 .. Len(q)
          BY <1>6
        <4>5. x[2] = y[2]
          <5>1. \A u, v \in 2 .. Len(q) : u - 1 = v - 1 => u = v
            BY <1>1
          <5> QED
            BY <4>3, <4>4, <5>1
        <4>6. x = <<"queue", x[2], x[3]>> /\ y = <<"queue", y[2], y[3]>>
          BY <1>6
        <4> QED
          BY <4>3, <4>5, <4>6
      <3> QED
        BY <1>6, <3>1 DEF Injection, IsInjective
    <2>2. g \in Surjection(old, rest)
      BY <1>6, <1>7 DEF Surjection
    <2> QED
      BY <2>1, <2>2 DEF Bijection, ExistsBijection
  <1>9. Counts(rest, a - q[1][n])
    BY <1>5, <1>8, FS_Bijection DEF Counts
  <1> QED
    BY <1>1, <1>9 DEF rest

(* A null create leaves its views behind.                                  *)
LEMMA Orphaned ==
  ASSUME NEW o \in SUBSET Natives, NEW hs \in Seq(Natives), NEW n \in Natives,
         \A i, j \in DOMAIN hs : hs[i] = hs[j] => i = j,
         \A i \in DOMAIN hs : hs[i] \notin o,
         NEW a, Counts(OrphanIn(o, n), a)
  PROVE  Counts(OrphanIn(o \cup Range(hs), n), a + RefsTo(hs)[n])
  <1> DEFINE at == {i \in DOMAIN hs : hs[i] = n}
  <1>1. Counts(at, RefsTo(hs)[n])
    BY RefsOfSequence
  <1>2. a \in Nat /\ RefsTo(hs)[n] \in Nat
    BY <1>1, CountIsNat
  <1>3. CASE n \in Range(hs)
    <2>1. PICK i \in DOMAIN hs : hs[i] = n
      BY <1>3 DEF Range
    <2>2. at = {i}
      BY <2>1
    <2>3. RefsTo(hs)[n] = 1
      BY <1>1, <2>2, FS_Singleton DEF Counts
    <2>4. n \notin o
      BY <2>1
    <2>5. a = 0
      BY <2>4, FS_EmptySet DEF Counts, OrphanIn
    <2>6. OrphanIn(o \cup Range(hs), n) = {<<"orphan">>}
      BY <1>3 DEF OrphanIn
    <2>7. Counts({<<"orphan">>}, 1)
      BY FS_Singleton DEF Counts
    <2>8. a + RefsTo(hs)[n] = 1
      BY <2>3, <2>5
    <2> QED
      BY <2>6, <2>7, <2>8
  <1>4. CASE n \notin Range(hs)
    <2>1. at = {}
      BY <1>4 DEF Range
    <2>2. RefsTo(hs)[n] = 0
      BY <1>1, <2>1, FS_EmptySet DEF Counts
    <2>3. OrphanIn(o \cup Range(hs), n) = OrphanIn(o, n)
      BY <1>4 DEF OrphanIn
    <2> QED
      BY <1>2, <2>2, <2>3
  <1> QED
    BY <1>3, <1>4

(***************************************************************************)
(* The inductive invariant.                                                *)
(***************************************************************************)
TypeOK ==
  /\ kinds \in Seq(AnyKind) /\ Len(kinds) <= MaxNatives
  /\ refs \in [Natives -> Int]
  /\ wrappers \in Seq(Wrapper)
  /\ calls \in Seq(Call)
  /\ \A i \in DOMAIN calls : /\ calls[i].got \in [DOMAIN Plan[calls[i].kind] -> Seq(Natives)]
                             /\ calls[i].creator \in {0} \cup DOMAIN wrappers
  /\ queue \in Seq([Natives -> Nat])
  /\ orphans \in SUBSET Natives

(* A view conversion has created belongs to one place in one call, or was  *)
(* left behind.                                                            *)
Views ==
  /\ \A i \in DOMAIN calls : \A a \in DOMAIN calls[i].made :
       calls[i].made[a] <= Len(kinds) /\ calls[i].made[a] \notin orphans
  /\ \A i, j \in DOMAIN calls : \A a \in DOMAIN calls[i].made, b \in DOMAIN calls[j].made :
       calls[i].made[a] = calls[j].made[b] => i = j /\ a = b
  /\ \A o \in orphans : o <= Len(kinds)

(* A handle that has been read is in a full slot or in a request that      *)
(* waits, which no tick runs while the call is on the stack.               *)
Safe(ws, q, h) ==
  \/ \E w \in LiveIn(ws) : ws[w].handle = h
  \/ \E i \in DOMAIN q : q[i][h] > 0
CallSafe(ws, q, c) ==
  /\ \A e \in DOMAIN c.got : \A k \in DOMAIN c.got[e] : Safe(ws, q, c.got[e][k])
  /\ c.creator # 0 => /\ c.creator \in DOMAIN ws /\ ws[c.creator].handle \in Natives
                      /\ Safe(ws, q, ws[c.creator].handle)
ReadSafe == \A i \in DOMAIN calls : CallSafe(wrappers, queue, calls[i])

(* Native's count of n is the sum of the owners of each kind.              *)
Sum(rs, ws, cs, q, o, n, a, b, c, d, e) ==
  /\ Counts(SlotsIn(ws, n), a)
  /\ Counts(InLists(n, HeldIn(ws), "held"), b)
  /\ Counts(InLists(n, q, "queue"), c)
  /\ Counts(InLists(n, MadeIn(cs), "made"), d)
  /\ Counts(OrphanIn(o, n), e)
  /\ rs[n] = a + b + c + d + e
Tallied(rs, ws, cs, q, o, n) ==
  \E a, b, c, d, e \in Nat : Sum(rs, ws, cs, q, o, n, a, b, c, d, e)
Balanced == \A n \in Natives : Tallied(refs, wrappers, calls, queue, orphans, n)

RetentionInv == TypeOK /\ Views /\ ReadSafe /\ Balanced

LEMMA Tally ==
  ASSUME NEW rs, NEW ws, NEW cs, NEW q, NEW o, NEW n, NEW a, NEW b, NEW c, NEW d, NEW e,
         Counts(SlotsIn(ws, n), a), Counts(InLists(n, HeldIn(ws), "held"), b),
         Counts(InLists(n, q, "queue"), c), Counts(InLists(n, MadeIn(cs), "made"), d),
         Counts(OrphanIn(o, n), e), rs[n] = a + b + c + d + e
  PROVE  Tallied(rs, ws, cs, q, o, n)
  <1>1. a \in Nat /\ b \in Nat /\ c \in Nat /\ d \in Nat /\ e \in Nat
    BY CountIsNat
  <1> QED
    BY <1>1 DEF Tallied, Sum

(* What the invariant says of the owners together.                         *)
LEMMA OwnersTallied ==
  ASSUME NEW n \in Natives, Tallied(refs, wrappers, calls, queue, orphans, n)
  PROVE  Counts(Owners(n), refs[n])
  <1> DEFINE S == SlotsIn(wrappers, n)
             H == InLists(n, HeldIn(wrappers), "held")
             Q == InLists(n, queue, "queue")
             M == InLists(n, MadeIn(calls), "made")
             O == OrphanIn(orphans, n)
  <1>1. PICK a, b, c, d, e \in Nat :
          /\ Counts(S, a) /\ Counts(H, b) /\ Counts(Q, c) /\ Counts(M, d) /\ Counts(O, e)
          /\ refs[n] = a + b + c + d + e
    BY DEF Tallied, Sum
  <1>2. Owners(n) = (((S \cup H) \cup Q) \cup M) \cup O
    <2>1. {v \in DOMAIN wrappers : Live(v) /\ wrappers[v].handle = n} = {v \in LiveIn(wrappers) : wrappers[v].handle = n}
      BY DEF LiveIn, Live
    <2>2. [w \in {v \in DOMAIN wrappers : Live(v)} |-> wrappers[w].held] = HeldIn(wrappers)
      BY DEF LiveIn, Live, HeldIn
    <2> QED
      BY <2>1, <2>2 DEF Owners, SlotsIn, MadeIn, OrphanIn
  <1>3. /\ \A x \in S : x[1] = "slot"
        /\ \A x \in H : x[1] = "held"
        /\ \A x \in Q : x[1] = "queue"
        /\ \A x \in M : x[1] = "made"
        /\ \A x \in O : x[1] = "orphan"
    BY DEF SlotsIn, InLists, OrphanIn
  <1> HIDE DEF S, H, Q, M, O
  <1>4. Counts(S \cup H, a + b)
    <2>1. S \cap H = {}
      BY <1>3
    <2> QED
      BY <1>1, <2>1, CountsAdd
  <1>5. Counts((S \cup H) \cup Q, (a + b) + c)
    <2>1. (S \cup H) \cap Q = {}
      BY <1>3
    <2> QED
      BY <1>1, <1>4, <2>1, CountsAdd
  <1>6. Counts(((S \cup H) \cup Q) \cup M, ((a + b) + c) + d)
    <2>1. ((S \cup H) \cup Q) \cap M = {}
      BY <1>3
    <2> QED
      BY <1>1, <1>5, <2>1, CountsAdd
  <1>7. Counts((((S \cup H) \cup Q) \cup M) \cup O, (((a + b) + c) + d) + e)
    <2>1. (((S \cup H) \cup Q) \cup M) \cap O = {}
      BY <1>3
    <2> QED
      BY <1>1, <1>6, <2>1, CountsAdd
  <1> QED
    BY <1>1, <1>2, <1>7

(* Safety of what was read outlives more wrappers and requests.            *)
LEMMA SafeGrows ==
  ASSUME NEW ws, NEW q, NEW ws2, NEW q2,
         \A w \in DOMAIN ws : w \in DOMAIN ws2 /\ ws2[w] = ws[w],
         \A i \in DOMAIN q : i \in DOMAIN q2 /\ q2[i] = q[i],
         NEW c, CallSafe(ws, q, c)
  PROVE  CallSafe(ws2, q2, c)
  <1>1. ASSUME NEW h, Safe(ws, q, h) PROVE Safe(ws2, q2, h)
    BY <1>1 DEF Safe, LiveIn
  <1>2. c.creator # 0 => /\ c.creator \in DOMAIN ws2 /\ ws2[c.creator].handle \in Natives
                         /\ Safe(ws2, q2, ws2[c.creator].handle)
    BY <1>1 DEF CallSafe
  <1>3. \A e \in DOMAIN c.got : \A k \in DOMAIN c.got[e] : Safe(ws2, q2, c.got[e][k])
    BY <1>1 DEF CallSafe
  <1> QED
    BY <1>2, <1>3 DEF CallSafe

LEMMA InnermostCall ==
  ASSUME TypeOK, calls # <<>>
  PROVE  /\ Len(calls) \in DOMAIN calls /\ Top \in Call /\ Top = calls[Len(calls)]
         /\ Top.made \in Seq(Natives) /\ Top.got \in [DOMAIN Plan[Top.kind] -> Seq(Natives)]
         /\ Top.kind \in Kinds
         /\ Front(calls) \in Seq(Call) /\ DOMAIN Front(calls) \subseteq DOMAIN calls
         /\ \A i \in DOMAIN Front(calls) : Front(calls)[i] = calls[i]
         /\ DOMAIN calls = DOMAIN Front(calls) \cup {Len(calls)} /\ Len(calls) \notin DOMAIN Front(calls)
  <1>1. /\ calls[Len(calls)] \in Call /\ Front(calls) \in Seq(Call)
        /\ DOMAIN calls = DOMAIN Front(calls) \cup {Len(calls)} /\ Len(calls) \notin DOMAIN Front(calls)
        /\ \A i \in DOMAIN Front(calls) : Front(calls)[i] = calls[i]
    BY FrontOfCalls DEF TypeOK
  <1> QED
    BY <1>1 DEF Top, Call, TypeOK

LEMMA AppendedAt ==
  ASSUME NEW S, NEW hs \in Seq(S), NEW x \in S
  PROVE  \A a \in DOMAIN Append(hs, x) :
           \/ a \in DOMAIN hs /\ Append(hs, x)[a] = hs[a]
           \/ a = Len(hs) + 1 /\ Append(hs, x)[a] = x
  OBVIOUS

LEMMA MadeTyped ==
  ASSUME TypeOK
  PROVE  \A i \in DOMAIN calls : calls[i].made \in Seq(Natives) /\ \A a \in DOMAIN calls[i].made : calls[i].made[a] \in Natives
  <1>1. ASSUME NEW i \in DOMAIN calls
        PROVE  calls[i].made \in Seq(Natives) /\ \A a \in DOMAIN calls[i].made : calls[i].made[a] \in Natives
    <2>1. calls[i] \in Call
      BY DEF TypeOK
    <2>2. calls[i].made \in Seq(Natives)
      BY <2>1 DEF Call
    <2> QED
      BY <2>2
  <1> QED
    BY <1>1

(* What a plan keeps is a finite number of references.                     *)
LEMMA KeptIsFinite ==
  ASSUME TypeOK, calls # <<>>
  PROVE  Kept(Top) \in [Natives -> Nat]
  <1> DEFINE D == DOMAIN Plan[Top.kind]
  <1>1. IsFiniteSet(D)
    BY InnermostCall, RetentionAssumption
  <1>2. ASSUME NEW n \in Natives
        PROVE  Kept(Top)[n] \in Nat
    <2> DEFINE Row(e) == {e} \X {i \in DOMAIN Part(Top, e) : Part(Top, e)[i] = n}
               f == [e \in D |-> Row(e)]
               rows == {Row(e) : e \in D}
    <2>1. ASSUME NEW e \in D
          PROVE  IsFiniteSet(Row(e))
      <3>1. PICK S : Part(Top, e) \in Seq(S)
        <4>1. CASE Plan[Top.kind][e].source = "creator"
          <5>1. Part(Top, e) \in Seq({wrappers[Top.creator].handle})
            BY <4>1 DEF Part
          <5> QED
            BY <5>1
        <4>2. CASE Plan[Top.kind][e].source # "creator"
          <5>1. Part(Top, e) \in Seq(Natives)
            BY <4>2, InnermostCall DEF Part
          <5> QED
            BY <5>1
        <4> QED
          BY <4>1, <4>2
      <3>2. DOMAIN Part(Top, e) = 1 .. Len(Part(Top, e)) /\ Len(Part(Top, e)) \in Nat
        BY <3>1
      <3>3. IsFiniteSet(DOMAIN Part(Top, e))
        BY <3>2, FS_Interval
      <3>4. IsFiniteSet({i \in DOMAIN Part(Top, e) : Part(Top, e)[i] = n})
        BY <3>3, FS_Subset, {i \in DOMAIN Part(Top, e) : Part(Top, e)[i] = n} \in SUBSET DOMAIN Part(Top, e)
      <3> QED
        BY <3>4, FS_Singleton, FS_Product
    <2>2. IsFiniteSet(rows)
      <3>1. f \in Surjection(D, rows)
        BY DEF Surjection
      <3> QED
        BY <1>1, <3>1, FS_Surjection
    <2>3. IsFiniteSet(UNION rows)
      <3>1. \A R \in rows : IsFiniteSet(R)
        BY <2>1
      <3> HIDE DEF rows
      <3> QED
        BY <2>2, <3>1, FS_UNION
    <2>4. Kept(Top)[n] = Cardinality(UNION rows)
      BY DEF Kept
    <2> HIDE DEF rows
    <2> QED
      BY <2>3, <2>4, FS_CardinalityType
  <1> QED
    BY <1>2 DEF Kept

LEMMA RetentionStarts == Init => RetentionInv
  <1> SUFFICES ASSUME Init PROVE RetentionInv
    OBVIOUS
  <1>1. /\ kinds \in Seq(Kinds) /\ Len(kinds) \in Nat /\ Len(kinds) <= MaxNatives /\ DOMAIN kinds = 1 .. Len(kinds)
        /\ MaxNatives \in Nat /\ \A i \in DOMAIN kinds : i \in Natives /\ i # Null /\ kinds[i] \in Kinds
    BY RetentionAssumption DEF Init, Natives, Null
  <1>2. \A w \in DOMAIN kinds : /\ wrappers[w] \in Wrapper /\ wrappers[w].slot = "full"
                                /\ wrappers[w].handle = w /\ wrappers[w].held = Nothing
    <2>1. Nothing \in [Natives -> Nat]
      BY DEF Nothing
    <2>2. \A w \in DOMAIN kinds : w \in 0 .. MaxNatives /\ kinds[w] \in AnyKind
      BY <1>1 DEF AnyKind
    <2> QED
      BY <2>1, <2>2 DEF Init, Wrapper
  <1>3. TypeOK
    <2>1. wrappers \in Seq(Wrapper)
      BY <1>1, <1>2 DEF Init
    <2>2. refs \in [Natives -> Int]
      BY DEF Init
    <2>3. kinds \in Seq(AnyKind)
      BY <1>1 DEF AnyKind
    <2> QED
      BY <1>1, <2>1, <2>2, <2>3 DEF Init, TypeOK
  <1>4. Views /\ ReadSafe
    BY DEF Init, Views, ReadSafe
  <1>5. Balanced
    <2>1. SUFFICES ASSUME NEW n \in Natives PROVE Tallied(refs, wrappers, calls, queue, orphans, n)
      BY DEF Balanced
    <2>2. DOMAIN wrappers = DOMAIN kinds /\ LiveIn(wrappers) = DOMAIN kinds
      BY <1>1, <1>2 DEF LiveIn, Init
    <2>3. Counts(SlotsIn(wrappers, n), refs[n])
      <3>1. CASE n \in DOMAIN kinds
        <4>1. SlotsIn(wrappers, n) = {<<"slot", n>>}
          BY <1>2, <2>2, <3>1 DEF SlotsIn
        <4>2. refs[n] = 1
          BY <3>1 DEF Init
        <4> QED
          BY <4>1, <4>2, FS_Singleton DEF Counts
      <3>2. CASE n \notin DOMAIN kinds
        <4>1. SlotsIn(wrappers, n) = {}
          BY <1>2, <2>2, <3>2 DEF SlotsIn
        <4>2. refs[n] = 0
          BY <3>2 DEF Init
        <4> QED
          BY <4>1, <4>2, FS_EmptySet DEF Counts
      <3> QED
        BY <3>1, <3>2
    <2>4. Counts({}, 0)
      BY FS_EmptySet DEF Counts
    <2>5. InLists(n, HeldIn(wrappers), "held") = {}
      <3>1. \A w \in DOMAIN HeldIn(wrappers) : HeldIn(wrappers)[w][n] = 0
        BY <1>2, <2>2 DEF HeldIn, Nothing
      <3> HIDE DEF HeldIn
      <3> QED
        BY <3>1 DEF InLists
    <2>6. InLists(n, queue, "queue") = {} /\ InLists(n, MadeIn(calls), "made") = {} /\ OrphanIn(orphans, n) = {}
      BY DEF Init, InLists, MadeIn, OrphanIn
    <2>7. refs[n] = refs[n] + 0 + 0 + 0 + 0
      BY <1>3 DEF TypeOK
    <2> QED
      BY <2>3, <2>4, <2>5, <2>6, <2>7, Tally
  <1> QED
    BY <1>3, <1>4, <1>5 DEF RetentionInv

(***************************************************************************)
(* Creating.                                                               *)
(***************************************************************************)
LEMMA BeginCreateStep ==
  ASSUME RetentionInv, NEW k \in Creatable, NEW w \in {0} \cup DOMAIN wrappers, BeginCreate(k, w)
  PROVE  RetentionInv'
  <1>1. PICK c : c = [kind |-> k, creator |-> w, got |-> [i \in DOMAIN Plan[k] |-> <<>>], made |-> <<>>]
    OBVIOUS
  <1>2. k \in Kinds /\ wrappers \in Seq(Wrapper) /\ calls \in Seq(Call)
    BY RetentionAssumption DEF RetentionInv, TypeOK
  <1>3. c.got \in [DOMAIN Plan[k] -> Seq(Natives)]
    <2>1. <<>> \in Seq(Natives)
      OBVIOUS
    <2> QED
      BY <1>1, <2>1
  <1>4. c \in Call /\ c.kind = k /\ c.creator = w /\ c.made = <<>> /\ \A e \in DOMAIN c.got : c.got[e] = <<>>
    <2>1. w \in Nat
      BY <1>2
    <2>2. <<>> \in Seq(Natives)
      OBVIOUS
    <2>3. c.got \in Gots
      BY <1>2, <1>3 DEF Gots
    <2> QED
      BY <1>1, <1>2, <2>1, <2>2, <2>3 DEF Call
  <1>5. calls' = Append(calls, c) /\ UNCHANGED <<kinds, refs, wrappers, queue, draining, orphans>>
    BY <1>1 DEF BeginCreate
  <1>6. /\ Len(calls) \in Nat /\ DOMAIN calls' = DOMAIN calls \cup {Len(calls) + 1} /\ DOMAIN calls = 1 .. Len(calls)
        /\ \A i \in DOMAIN calls : calls'[i] = calls[i]
        /\ calls'[Len(calls) + 1] = c
    BY <1>2, <1>5
  <1>7. TypeOK'
    <2>1. calls' \in Seq(Call)
      BY <1>2, <1>4, <1>5
    <2>2. \A i \in DOMAIN calls' : /\ calls'[i].got \in [DOMAIN Plan[calls'[i].kind] -> Seq(Natives)]
                                   /\ calls'[i].creator \in {0} \cup DOMAIN wrappers'
      BY <1>3, <1>4, <1>5, <1>6 DEF RetentionInv, TypeOK
    <2> QED
      BY <1>5, <2>1, <2>2 DEF RetentionInv, TypeOK
  <1>8. Views'
    <2>1. \A i \in DOMAIN calls' : i \in DOMAIN calls \/ DOMAIN calls'[i].made = {}
      BY <1>4, <1>6
    <2> QED
      BY <1>5, <1>6, <2>1 DEF RetentionInv, Views
  <1>9. ReadSafe'
    <2>1. c.creator # 0 => /\ c.creator \in DOMAIN wrappers /\ wrappers[c.creator].handle \in Natives
                           /\ Safe(wrappers, queue, wrappers[c.creator].handle)
      <3>1. SUFFICES ASSUME w # 0
                     PROVE  wrappers[w].handle \in Natives /\ Safe(wrappers, queue, wrappers[w].handle)
        BY <1>4
      <3>2. w \in DOMAIN wrappers /\ wrappers[w] \in Wrapper
        BY <1>2, <3>1
      <3>3. Live(w)
        BY <3>1 DEF BeginCreate
      <3>4. wrappers[w].handle \in Natives
        BY <3>2, <3>3, RetentionAssumption DEF Live, Null, Natives, Wrapper
      <3> QED
        BY <3>2, <3>3, <3>4 DEF Live, LiveIn, Safe
    <2>2. CallSafe(wrappers, queue, c)
      BY <1>4, <2>1 DEF CallSafe
    <2> QED
      BY <1>5, <1>6, <2>2 DEF RetentionInv, ReadSafe
  <1>10. Balanced'
    <2>1. SUFFICES ASSUME NEW n \in Natives PROVE Tallied(refs', wrappers', calls', queue', orphans', n)
      BY DEF Balanced
    <2>2. PICK a, b, x, d, e \in Nat : Sum(refs, wrappers, calls, queue, orphans, n, a, b, x, d, e)
      BY DEF RetentionInv, Balanced, Tallied
    <2>3. Counts(InLists(n, MadeIn(calls'), "made"), d)
      BY <1>2, <1>4, <1>5, <2>2, MadeBegins DEF Sum
    <2> QED
      BY <1>5, <2>2, <2>3 DEF Tallied, Sum
  <1> QED
    BY <1>7, <1>8, <1>9, <1>10 DEF RetentionInv

LEMMA ReadHandleStep ==
  ASSUME RetentionInv, NEW w \in DOMAIN wrappers, ReadHandle(w)
  PROVE  RetentionInv'
  <1>1. calls # <<>> /\ Live(w) /\ UNCHANGED <<kinds, refs, wrappers, queue, draining, orphans>>
    BY DEF ReadHandle
  <1>2. TypeOK /\ wrappers[w] \in Wrapper
    BY DEF RetentionInv, TypeOK
  <1>3. /\ Len(calls) \in DOMAIN calls /\ Top \in Call /\ Top = calls[Len(calls)]
        /\ Top.got \in [DOMAIN Plan[Top.kind] -> Seq(Natives)] /\ Top.kind \in Kinds
    BY <1>1, <1>2, InnermostCall
  <1>4. wrappers[w].handle \in Natives
    BY <1>1, <1>2, RetentionAssumption DEF Live, Null, Natives, Wrapper
  <1>5. PICK p \in DOMAIN Plan[Top.kind] : SetTop([Top EXCEPT !.got[p] = Append(@, wrappers[w].handle)])
    BY DEF ReadHandle
  <1>6. PICK t : t = [Top EXCEPT !.got[p] = Append(@, wrappers[w].handle)]
    OBVIOUS
  <1>7. /\ t.kind = Top.kind /\ t.creator = Top.creator /\ t.made = Top.made /\ DOMAIN t.got = DOMAIN Top.got
        /\ \A e \in DOMAIN Top.got : e # p => t.got[e] = Top.got[e]
        /\ t.got[p] = Append(Top.got[p], wrappers[w].handle)
        /\ t.got = [Top.got EXCEPT ![p] = Append(Top.got[p], wrappers[w].handle)]
    BY <1>3, <1>6 DEF Call
  <1>8. t.got \in [DOMAIN Plan[t.kind] -> Seq(Natives)]
    <2>1. Append(Top.got[p], wrappers[w].handle) \in Seq(Natives)
      BY <1>3, <1>4
    <2> QED
      BY <1>3, <1>7, <2>1
  <1>9. t \in Call
    <2>1. t.got \in Gots
      BY <1>3, <1>7, <1>8 DEF Gots
    <2>2. t = [kind |-> Top.kind, creator |-> Top.creator, got |-> t.got, made |-> Top.made]
      BY <1>3, <1>6 DEF Call
    <2> QED
      BY <1>3, <2>1, <2>2 DEF Call
  <1>10. calls' = [calls EXCEPT ![Len(calls)] = t]
    BY <1>5, <1>6 DEF SetTop
  <1>11. /\ DOMAIN calls' = DOMAIN calls /\ calls'[Len(calls)] = t
         /\ \A i \in DOMAIN calls : i # Len(calls) => calls'[i] = calls[i]
         /\ calls' \in Seq(Call)
    <2>1. calls \in Seq(Call)
      BY <1>2 DEF TypeOK
    <2> QED
      BY <1>3, <1>9, <1>10, <2>1
  <1>12. TypeOK'
    <2>1. \A i \in DOMAIN calls' : /\ calls'[i].got \in [DOMAIN Plan[calls'[i].kind] -> Seq(Natives)]
                                   /\ calls'[i].creator \in {0} \cup DOMAIN wrappers'
      BY <1>1, <1>2, <1>3, <1>7, <1>8, <1>11 DEF TypeOK
    <2> QED
      BY <1>1, <1>2, <1>11, <2>1 DEF TypeOK
  <1>13. \A i \in DOMAIN calls : calls'[i].made = calls[i].made
    BY <1>3, <1>7, <1>11
  <1>14. Views'
    BY <1>1, <1>11, <1>13 DEF RetentionInv, Views
  <1>15. ReadSafe'
    <2>1. CallSafe(wrappers, queue, Top)
      BY <1>3 DEF RetentionInv, ReadSafe
    <2>2. Safe(wrappers, queue, wrappers[w].handle)
      BY <1>1 DEF Safe, Live, LiveIn
    <2>3. \A k \in DOMAIN t.got[p] : Safe(wrappers, queue, t.got[p][k])
      <3>1. Top.got[p] \in Seq(Natives)
        BY <1>3
      <3>2. \A k \in DOMAIN t.got[p] : \/ k \in DOMAIN Top.got[p] /\ t.got[p][k] = Top.got[p][k]
                                       \/ t.got[p][k] = wrappers[w].handle
        BY <1>4, <1>7, <3>1
      <3> QED
        BY <1>3, <2>1, <2>2, <3>2 DEF CallSafe
    <2>4. CallSafe(wrappers, queue, t)
      BY <1>7, <2>1, <2>3 DEF CallSafe
    <2> QED
      BY <1>1, <1>11, <2>4 DEF RetentionInv, ReadSafe
  <1>16. Balanced'
    <2>1. SUFFICES ASSUME NEW n \in Natives PROVE Tallied(refs', wrappers', calls', queue', orphans', n)
      BY DEF Balanced
    <2>2. Tallied(refs, wrappers, calls, queue, orphans, n)
      BY DEF RetentionInv, Balanced
    <2>3. InLists(n, MadeIn(calls'), "made") = InLists(n, MadeIn(calls), "made")
      <3>1. DOMAIN MadeIn(calls') = DOMAIN MadeIn(calls) /\ \A i \in DOMAIN MadeIn(calls) : MadeIn(calls')[i][n] = MadeIn(calls)[i][n]
        BY <1>11, <1>13 DEF MadeIn
      <3> QED
        BY <3>1, ListsSame
    <2> QED
      BY <1>1, <2>2, <2>3 DEF Tallied, Sum
  <1> QED
    BY <1>12, <1>14, <1>15, <1>16 DEF RetentionInv

(* A conversion makes a view.                                              *)
LEMMA MakeViewStep ==
  ASSUME RetentionInv, NEW w \in DOMAIN wrappers, MakeView(w)
  PROVE  RetentionInv'
  <1>1. /\ calls # <<>> /\ Len(kinds) < MaxNatives /\ UNCHANGED <<wrappers, queue, draining, orphans>>
        /\ kinds' = Append(kinds, "GPUTextureView") /\ refs' = Plus(refs, RefTo(Next1))
    BY DEF MakeView
  <1>2. TypeOK
    BY DEF RetentionInv
  <1>3. /\ Len(calls) \in DOMAIN calls /\ Top \in Call /\ Top = calls[Len(calls)] /\ Top.made \in Seq(Natives)
    BY <1>1, <1>2, InnermostCall
  <1>4. Next1 \in Natives /\ Next1 = Len(kinds) + 1 /\ Len(kinds) \in Nat
    BY <1>1, <1>2, RetentionAssumption DEF Next1, Natives, TypeOK
  <1>5. PICK t : t = [Top EXCEPT !.made = Append(@, Next1)]
    OBVIOUS
  <1>6. t \in Call /\ t.kind = Top.kind /\ t.creator = Top.creator /\ t.got = Top.got /\ t.made = Append(Top.made, Next1)
    <2>1. Append(Top.made, Next1) \in Seq(Natives)
      BY <1>3, <1>4
    <2> QED
      BY <1>3, <1>5, <2>1 DEF Call
  <1>7. calls' = [calls EXCEPT ![Len(calls)] = t]
    BY <1>5 DEF SetTop, MakeView
  <1>8. /\ DOMAIN calls' = DOMAIN calls /\ calls'[Len(calls)] = t /\ calls \in Seq(Call)
        /\ \A i \in DOMAIN calls : i # Len(calls) => calls'[i] = calls[i]
        /\ calls' \in Seq(Call)
    <2>1. calls \in Seq(Call)
      BY <1>2 DEF TypeOK
    <2> QED
      BY <1>3, <1>6, <1>7, <2>1
  <1>9. kinds' \in Seq(AnyKind) /\ Len(kinds') = Len(kinds) + 1
    BY <1>1, <1>2 DEF TypeOK, AnyKind
  <1>10. TypeOK'
    <2>1. \A i \in DOMAIN calls' : /\ calls'[i].got \in [DOMAIN Plan[calls'[i].kind] -> Seq(Natives)]
                                   /\ calls'[i].creator \in {0} \cup DOMAIN wrappers'
      BY <1>1, <1>2, <1>3, <1>6, <1>8 DEF TypeOK
    <2>2. refs' \in [Natives -> Int]
      BY <1>1, <1>2 DEF TypeOK, Plus, RefTo
    <2>3. Len(kinds') <= MaxNatives
      BY <1>1, <1>4, <1>9, RetentionAssumption
    <2> QED
      BY <1>1, <1>2, <1>8, <1>9, <2>1, <2>2, <2>3 DEF TypeOK
  <1>11. Views'
    <2>1. \A i \in DOMAIN calls : \A a \in DOMAIN calls[i].made :
             calls[i].made[a] <= Len(kinds) /\ calls[i].made[a] \in Natives
      BY <1>2, MadeTyped DEF RetentionInv, Views
    <2>2. \A i \in DOMAIN calls' : \A a \in DOMAIN calls'[i].made :
            \/ a \in DOMAIN calls[i].made /\ calls'[i].made[a] = calls[i].made[a]
            \/ i = Len(calls) /\ a = Len(Top.made) + 1 /\ calls'[i].made[a] = Next1
      <3>1. \A a \in DOMAIN t.made :
              \/ a \in DOMAIN Top.made /\ t.made[a] = Top.made[a]
              \/ a = Len(Top.made) + 1 /\ t.made[a] = Next1
        BY <1>3, <1>4, <1>6, AppendedAt
      <3> QED
        BY <1>3, <1>8, <3>1
    <2>3. Next1 \notin orphans
      BY <1>2, <1>4 DEF RetentionInv, Views, TypeOK, Natives
    <2>4. \A i \in DOMAIN calls : \A a \in DOMAIN calls[i].made : calls[i].made[a] # Next1
      BY <1>4, <2>1 DEF Natives
    <2>5. \A i \in DOMAIN calls' : \A a \in DOMAIN calls'[i].made :
            calls'[i].made[a] <= Len(kinds') /\ calls'[i].made[a] \notin orphans'
      BY <1>1, <1>4, <1>8, <1>9, <2>1, <2>2, <2>3 DEF RetentionInv, Views, Natives
    <2>6. \A i, j \in DOMAIN calls' : \A a \in DOMAIN calls'[i].made, b \in DOMAIN calls'[j].made :
            calls'[i].made[a] = calls'[j].made[b] => i = j /\ a = b
      BY <1>8, <2>2, <2>4 DEF RetentionInv, Views
    <2>7. \A o \in orphans' : o <= Len(kinds')
      BY <1>1, <1>2, <1>4, <1>9 DEF RetentionInv, Views, TypeOK, Natives
    <2> QED
      BY <2>5, <2>6, <2>7 DEF Views
  <1>12. ReadSafe'
    <2>1. CallSafe(wrappers, queue, t)
      <3>1. CallSafe(wrappers, queue, Top)
        BY <1>3 DEF RetentionInv, ReadSafe
      <3> QED
        BY <1>6, <3>1 DEF CallSafe
    <2> QED
      BY <1>1, <1>8, <2>1 DEF RetentionInv, ReadSafe
  <1>13. Balanced'
    <2>1. SUFFICES ASSUME NEW n \in Natives PROVE Tallied(refs', wrappers', calls', queue', orphans', n)
      BY DEF Balanced
    <2>2. PICK a, b, c, d, e \in Nat : Sum(refs, wrappers, calls, queue, orphans, n, a, b, c, d, e)
      BY DEF RetentionInv, Balanced, Tallied
    <2>3. /\ RefsTo(t.made)[n] = RefsTo(Top.made)[n] + RefTo(Next1)[n]
          /\ RefsTo(Top.made)[n] \in Nat /\ RefTo(Next1)[n] \in Nat
      <3>1. RefTo(Next1)[n] \in Nat
        BY DEF RefTo
      <3> QED
        <4>1. RefsTo(Append(Top.made, Next1))[n] = RefsTo(Top.made)[n] + RefTo(Next1)[n]
          BY <1>3, <1>4, RefsOfAppended
        <4>2. RefsTo(Top.made)[n] \in Nat
          BY <1>3, RefsOfSequence
        <4> QED
          BY <1>6, <3>1, <4>1, <4>2
    <2>4. Counts(InLists(n, MadeIn(calls'), "made"),
                 (d - RefsTo(calls[Len(calls)].made)[n]) + RefsTo(calls'[Len(calls)].made)[n])
      BY <1>1, <1>8, <2>2, MadeChanges DEF Sum
    <2>5. (d - RefsTo(calls[Len(calls)].made)[n]) + RefsTo(calls'[Len(calls)].made)[n] = d + RefTo(Next1)[n]
      BY <1>3, <1>8, <2>3
    <2>6. refs'[n] = refs[n] + RefTo(Next1)[n]
      BY <1>1 DEF Plus
    <2>7. refs'[n] = a + b + c + (d + RefTo(Next1)[n]) + e
      <3>1. refs[n] = a + b + c + d + e
        BY <2>2 DEF Sum
      <3> QED
        BY <2>3, <2>6, <3>1
    <2>8. Counts(InLists(n, MadeIn(calls'), "made"), d + RefTo(Next1)[n])
      BY <2>4, <2>5
    <2> QED
      BY <1>1, <2>2, <2>7, <2>8, Tally DEF Sum
  <1> QED
    BY <1>10, <1>11, <1>12, <1>13 DEF RetentionInv

(* The innermost call returns: wrappers and requests may have been added,  *)
(* and its views may have been left behind.                                *)
Grown ==
  /\ kinds' \in Seq(AnyKind) /\ Len(kinds) <= Len(kinds') /\ Len(kinds') <= MaxNatives
  /\ refs' \in [Natives -> Int]
  /\ wrappers' \in Seq(Wrapper) /\ \A w \in DOMAIN wrappers : w \in DOMAIN wrappers' /\ wrappers'[w] = wrappers[w]
  /\ queue' \in Seq([Natives -> Nat]) /\ \A i \in DOMAIN queue : i \in DOMAIN queue' /\ queue'[i] = queue[i]

LEMMA ReturnStep ==
  ASSUME RetentionInv, calls # <<>>, Return, Grown, orphans \subseteq orphans', orphans' \subseteq orphans \cup Range(Top.made)
  PROVE  /\ TypeOK' /\ Views' /\ ReadSafe'
         /\ \A n \in Natives :
              /\ RefsTo(Top.made)[n] \in Nat
              /\ \A d : Counts(InLists(n, MadeIn(calls), "made"), d)
                          => Counts(InLists(n, MadeIn(calls'), "made"), d - RefsTo(Top.made)[n])
  <1>1. TypeOK
    BY DEF RetentionInv
  <1>2. /\ calls' \in Seq(Call) /\ DOMAIN calls' \subseteq DOMAIN calls
        /\ \A i \in DOMAIN calls' : calls'[i] = calls[i] /\ i # Len(calls)
        /\ Len(calls) \in DOMAIN calls /\ Top = calls[Len(calls)] /\ Top.made \in Seq(Natives)
    BY <1>1, InnermostCall DEF Return
  <1>3. \A o \in orphans' : o \in orphans \/ \E b \in DOMAIN Top.made : o = Top.made[b]
    BY DEF Range
  <1>4. TypeOK'
    <2>1. orphans' \in SUBSET Natives
      BY <1>1, <1>2, <1>3 DEF TypeOK
    <2>2. \A i \in DOMAIN calls' : /\ calls'[i].got \in [DOMAIN Plan[calls'[i].kind] -> Seq(Natives)]
                                   /\ calls'[i].creator \in {0} \cup DOMAIN wrappers'
      BY <1>1, <1>2 DEF TypeOK, Grown
    <2> QED
      BY <1>2, <2>1, <2>2 DEF TypeOK, Grown
  <1>5. Views'
    <2>1. \A i \in DOMAIN calls : \A a \in DOMAIN calls[i].made : calls[i].made[a] <= Len(kinds')
      <3>2. Len(kinds) \in Nat /\ Len(kinds') \in Nat
        BY <1>1 DEF TypeOK, Grown
      <3>3. \A i \in DOMAIN calls : \A a \in DOMAIN calls[i].made :
              calls[i].made[a] \in Int /\ calls[i].made[a] <= Len(kinds)
        BY <1>1, MadeTyped DEF RetentionInv, Views, Natives
      <3> QED
        BY <3>2, <3>3 DEF Grown
    <2>2. \A i \in DOMAIN calls' : \A a \in DOMAIN calls'[i].made : calls'[i].made[a] \notin orphans'
      <3>1. SUFFICES ASSUME NEW i \in DOMAIN calls', NEW a \in DOMAIN calls'[i].made, calls'[i].made[a] \in orphans'
                     PROVE  FALSE
        OBVIOUS
      <3>2. i \in DOMAIN calls /\ calls'[i] = calls[i] /\ i # Len(calls) /\ calls[i].made[a] \notin orphans
        BY <1>2 DEF RetentionInv, Views
      <3>3. PICK b \in DOMAIN Top.made : calls[i].made[a] = Top.made[b]
        BY <1>3, <3>1, <3>2
      <3> QED
        BY <1>2, <3>2, <3>3 DEF RetentionInv, Views
    <2>3. \A o \in orphans' : o <= Len(kinds')
      <3>1. SUFFICES ASSUME NEW o \in orphans' PROVE o <= Len(kinds')
        OBVIOUS
      <3>2. CASE o \in orphans
        <4>1. o <= Len(kinds) /\ o \in Int /\ Len(kinds) \in Int /\ Len(kinds') \in Int
          BY <1>1, <3>2 DEF RetentionInv, Views, TypeOK, Natives, Grown
        <4> QED
          BY <4>1 DEF Grown
      <3> QED
        BY <1>2, <1>3, <2>1, <3>2
    <2>4. \A i, j \in DOMAIN calls' : \A a \in DOMAIN calls'[i].made, b \in DOMAIN calls'[j].made :
            calls'[i].made[a] = calls'[j].made[b] => i = j /\ a = b
      BY <1>2 DEF RetentionInv, Views
    <2> QED
      BY <1>2, <2>1, <2>2, <2>3, <2>4 DEF Views
  <1>6. ReadSafe'
    <2>1. SUFFICES ASSUME NEW i \in DOMAIN calls' PROVE CallSafe(wrappers', queue', calls'[i])
      BY DEF ReadSafe
    <2>2. CallSafe(wrappers, queue, calls'[i])
      BY <1>2 DEF RetentionInv, ReadSafe
    <2> QED
      BY <2>2, SafeGrows DEF Grown
  <1>7. ASSUME NEW n \in Natives
        PROVE  /\ RefsTo(Top.made)[n] \in Nat
               /\ \A d : Counts(InLists(n, MadeIn(calls), "made"), d)
                           => Counts(InLists(n, MadeIn(calls'), "made"), d - RefsTo(Top.made)[n])
    <2>1. calls \in Seq(Call)
      BY <1>1 DEF TypeOK
    <2> QED
      BY <1>2, <2>1, MadeByInnermost DEF Return
  <1> QED
    BY <1>4, <1>5, <1>6, <1>7

LEMMA ConversionFailsStep ==
  ASSUME RetentionInv, ConversionFails
  PROVE  RetentionInv'
  <1>1. /\ calls # <<>> /\ Return /\ UNCHANGED <<kinds, refs, wrappers, draining, orphans>>
        /\ queue' = queue \o [i \in DOMAIN Top.made |-> RefTo(Top.made[i])]
    BY DEF ConversionFails
  <1>2. TypeOK
    BY DEF RetentionInv
  <1>3. Top.made \in Seq(Natives)
    BY <1>1, <1>2, InnermostCall
  <1>4. Grown
    <2>1. [i \in DOMAIN Top.made |-> RefTo(Top.made[i])] \in Seq([Natives -> Nat])
      <3>1. \A i \in DOMAIN Top.made : RefTo(Top.made[i]) \in [Natives -> Nat]
        BY DEF RefTo
      <3>2. DOMAIN Top.made = 1 .. Len(Top.made) /\ Len(Top.made) \in Nat
        BY <1>3
      <3> QED
        BY <3>1, <3>2
    <2>2. queue \in Seq([Natives -> Nat])
      BY <1>2 DEF TypeOK
    <2>3. queue' \in Seq([Natives -> Nat]) /\ \A i \in DOMAIN queue : i \in DOMAIN queue' /\ queue'[i] = queue[i]
      BY <1>1, <2>1, <2>2
    <2>4. Len(kinds) \in Nat
      BY <1>2 DEF TypeOK
    <2> QED
      BY <1>1, <1>2, <2>3, <2>4 DEF Grown, TypeOK
  <1>5. orphans \subseteq orphans' /\ orphans' \subseteq orphans \cup Range(Top.made)
    BY <1>1
  <1>6. /\ TypeOK' /\ Views' /\ ReadSafe'
        /\ \A n \in Natives :
             /\ RefsTo(Top.made)[n] \in Nat
             /\ \A d : Counts(InLists(n, MadeIn(calls), "made"), d)
                         => Counts(InLists(n, MadeIn(calls'), "made"), d - RefsTo(Top.made)[n])
    BY <1>1, <1>4, <1>5, ReturnStep
  <1>7. Balanced'
    <2>1. SUFFICES ASSUME NEW n \in Natives PROVE Tallied(refs', wrappers', calls', queue', orphans', n)
      BY DEF Balanced
    <2>2. PICK a, b, c, d, e \in Nat : Sum(refs, wrappers, calls, queue, orphans, n, a, b, c, d, e)
      BY DEF RetentionInv, Balanced, Tallied
    <2>3. PICK m : m = RefsTo(Top.made)[n]
      OBVIOUS
    <2>4. m \in Nat /\ Counts(InLists(n, MadeIn(calls'), "made"), d - m)
      BY <1>6, <2>2, <2>3 DEF Sum
    <2>5. Counts(InLists(n, queue', "queue"), c + m)
      <3>1. queue \in Seq([Natives -> Nat])
        BY <1>2 DEF TypeOK
      <3> QED
        BY <1>1, <1>3, <2>2, <2>3, <3>1, EnqueuedOneByOne DEF Sum
    <2>6. refs'[n] = a + b + (c + m) + (d - m) + e
      <3>1. refs[n] = a + b + c + d + e
        BY <2>2 DEF Sum
      <3> QED
        BY <1>1, <2>4, <3>1
    <2> QED
      BY <1>1, <2>2, <2>4, <2>5, <2>6, Tally DEF Sum
  <1> QED
    BY <1>6, <1>7 DEF RetentionInv

LEMMA CreateReturnsNullStep ==
  ASSUME RetentionInv, CreateReturnsNull
  PROVE  RetentionInv'
  <1>1. /\ calls # <<>> /\ Return /\ UNCHANGED <<kinds, refs, wrappers, queue, draining>>
        /\ orphans' = orphans \cup Range(Top.made)
    BY DEF CreateReturnsNull
  <1>2. TypeOK
    BY DEF RetentionInv
  <1>3. Top.made \in Seq(Natives) /\ Top = calls[Len(calls)] /\ Len(calls) \in DOMAIN calls
    BY <1>1, <1>2, InnermostCall
  <1>4. Grown
    <2>1. Len(kinds) \in Nat
      BY <1>2 DEF TypeOK
    <2> QED
      BY <1>1, <1>2, <2>1 DEF Grown, TypeOK
  <1>5. orphans \subseteq orphans' /\ orphans' \subseteq orphans \cup Range(Top.made)
    BY <1>1
  <1>6. /\ TypeOK' /\ Views' /\ ReadSafe'
        /\ \A n \in Natives :
             /\ RefsTo(Top.made)[n] \in Nat
             /\ \A d : Counts(InLists(n, MadeIn(calls), "made"), d)
                         => Counts(InLists(n, MadeIn(calls'), "made"), d - RefsTo(Top.made)[n])
    BY <1>1, <1>4, <1>5, ReturnStep
  <1>7. Balanced'
    <2>1. SUFFICES ASSUME NEW n \in Natives PROVE Tallied(refs', wrappers', calls', queue', orphans', n)
      BY DEF Balanced
    <2>2. PICK a, b, c, d, e \in Nat : Sum(refs, wrappers, calls, queue, orphans, n, a, b, c, d, e)
      BY DEF RetentionInv, Balanced, Tallied
    <2>3. PICK m : m = RefsTo(Top.made)[n]
      OBVIOUS
    <2>4. m \in Nat /\ Counts(InLists(n, MadeIn(calls'), "made"), d - m)
      BY <1>6, <2>2, <2>3 DEF Sum
    <2>5. Counts(OrphanIn(orphans', n), e + m)
      <3>1. orphans \in SUBSET Natives
        BY <1>2 DEF TypeOK
      <3>2. /\ \A i, j \in DOMAIN Top.made : Top.made[i] = Top.made[j] => i = j
            /\ \A i \in DOMAIN Top.made : Top.made[i] \notin orphans
        BY <1>3 DEF RetentionInv, Views
      <3> QED
        BY <1>1, <1>3, <2>2, <2>3, <3>1, <3>2, Orphaned DEF Sum
    <2>6. refs'[n] = a + b + c + (d - m) + (e + m)
      <3>1. refs[n] = a + b + c + d + e
        BY <2>2 DEF Sum
      <3> QED
        BY <1>1, <2>4, <3>1
    <2> QED
      BY <1>1, <2>2, <2>4, <2>5, <2>6, Tally DEF Sum
  <1> QED
    BY <1>6, <1>7 DEF RetentionInv

(* Native creates and the wrapper is made: what it keeps is what native    *)
(* was given a reference of, and the views that conversion made.           *)
LEMMA NewWrapperKept ==
  ASSUME TypeOK, NEW k \in AnyKind, NEW h \in 0 .. MaxNatives, NEW held \in [Natives -> Nat], NewWrapper(k, h, held),
         h = Null => \A n \in Natives : held[n] = 0
  PROVE  /\ wrappers' \in Seq(Wrapper)
         /\ \A w \in DOMAIN wrappers : w \in DOMAIN wrappers' /\ wrappers'[w] = wrappers[w]
         /\ \A n \in Natives : \A a, b :
              Counts(SlotsIn(wrappers, n), a) /\ Counts(InLists(n, HeldIn(wrappers), "held"), b)
                => /\ Counts(SlotsIn(wrappers', n), a + RefTo(h)[n])
                   /\ Counts(InLists(n, HeldIn(wrappers'), "held"), b + held[n])
  <1>1. PICK r : r = [kind |-> k, handle |-> h, slot |-> "full", held |-> held]
    OBVIOUS
  <1>2. r \in Wrapper /\ r.slot = "full" /\ r.handle = h /\ r.held = held
    BY <1>1 DEF Wrapper
  <1>3. wrappers \in Seq(Wrapper) /\ wrappers' = Append(wrappers, r)
    BY <1>1 DEF TypeOK, NewWrapper
  <1>4. wrappers' \in Seq(Wrapper) /\ \A w \in DOMAIN wrappers : w \in DOMAIN wrappers' /\ wrappers'[w] = wrappers[w]
    BY <1>2, <1>3
  <1>5. ASSUME NEW n \in Natives, NEW a, NEW b,
               Counts(SlotsIn(wrappers, n), a), Counts(InLists(n, HeldIn(wrappers), "held"), b)
        PROVE  /\ Counts(SlotsIn(wrappers', n), a + RefTo(h)[n])
               /\ Counts(InLists(n, HeldIn(wrappers'), "held"), b + held[n])
    <2>1. Counts(SlotsIn(wrappers', n), a + RefTo(h)[n])
      BY <1>2, <1>3, <1>5, SlotAdded
    <2>2. Counts(InLists(n, HeldIn(wrappers'), "held"), b + held[n])
      <3>1. r.handle = Null => r.held[n] = 0
        BY <1>2
      <3> QED
        BY <1>2, <1>3, <1>5, <3>1, HeldAdded
    <2> QED
      BY <2>1, <2>2
  <1> QED
    BY <1>4, <1>5

LEMMA NextNative ==
  ASSUME TypeOK, Len(kinds) < MaxNatives, NEW k \in AnyKind, kinds' = Append(kinds, k)
  PROVE  /\ Next1 \in Natives /\ Next1 \in 0 .. MaxNatives /\ Next1 # Null
         /\ kinds' \in Seq(AnyKind) /\ Len(kinds) <= Len(kinds') /\ Len(kinds') <= MaxNatives
         /\ RefTo(Next1) \in [Natives -> Nat]
  <1>1. Len(kinds) \in Nat /\ MaxNatives \in Nat
    BY RetentionAssumption DEF TypeOK
  <1>2. kinds' \in Seq(AnyKind) /\ Len(kinds') = Len(kinds) + 1
    BY DEF TypeOK
  <1>3. RefTo(Next1) \in [Natives -> Nat]
    BY DEF RefTo
  <1> QED
    BY <1>1, <1>2, <1>3 DEF Next1, Natives, Null

LEMMA CreateStep ==
  ASSUME RetentionInv, Create
  PROVE  RetentionInv'
  <1>1. /\ calls # <<>> /\ Return /\ Len(kinds) < MaxNatives /\ UNCHANGED <<queue, draining, orphans>>
        /\ kinds' = Append(kinds, Top.kind)
        /\ refs' = Plus(Plus(refs, Kept(Top)), RefTo(Next1))
        /\ NewWrapper(Top.kind, Next1, Plus(Kept(Top), RefsTo(Top.made)))
    BY DEF Create
  <1>2. TypeOK
    BY DEF RetentionInv
  <1>3. Top.made \in Seq(Natives) /\ Top.kind \in AnyKind /\ Kept(Top) \in [Natives -> Nat]
    BY <1>1, <1>2, InnermostCall, KeptIsFinite DEF AnyKind
  <1>4. /\ Next1 \in Natives /\ Next1 \in 0 .. MaxNatives /\ Next1 # Null
        /\ kinds' \in Seq(AnyKind) /\ Len(kinds) <= Len(kinds') /\ Len(kinds') <= MaxNatives
        /\ RefTo(Next1) \in [Natives -> Nat]
    BY <1>1, <1>2, <1>3, NextNative
  <1>5. PICK held : held = Plus(Kept(Top), RefsTo(Top.made))
    OBVIOUS
  <1>6. held \in [Natives -> Nat] /\ \A n \in Natives : held[n] = Kept(Top)[n] + RefsTo(Top.made)[n]
    <2>1. \A n \in Natives : RefsTo(Top.made)[n] \in Nat /\ Kept(Top)[n] \in Nat
      BY <1>3, RefsOfSequence
    <2> QED
      BY <1>5, <2>1 DEF Plus
  <1>7. /\ wrappers' \in Seq(Wrapper)
        /\ \A w \in DOMAIN wrappers : w \in DOMAIN wrappers' /\ wrappers'[w] = wrappers[w]
        /\ \A n \in Natives : \A a, b :
             Counts(SlotsIn(wrappers, n), a) /\ Counts(InLists(n, HeldIn(wrappers), "held"), b)
               => /\ Counts(SlotsIn(wrappers', n), a + RefTo(Next1)[n])
                  /\ Counts(InLists(n, HeldIn(wrappers'), "held"), b + held[n])
    BY <1>1, <1>2, <1>3, <1>4, <1>5, <1>6, NewWrapperKept
  <1>8. \A n \in Natives : /\ refs'[n] = (refs[n] + Kept(Top)[n]) + RefTo(Next1)[n]
                           /\ refs[n] \in Int /\ Kept(Top)[n] \in Nat /\ RefTo(Next1)[n] \in Nat
    BY <1>1, <1>2, <1>3, <1>4 DEF Plus, TypeOK
  <1>9. Grown
    <2>1. refs' \in [Natives -> Int]
      <3>1. DOMAIN refs' = Natives /\ refs' = [n \in Natives |-> refs'[n]]
        BY <1>1 DEF Plus
      <3>2. \A n \in Natives : refs'[n] \in Int
        BY <1>8
      <3> QED
        BY <3>1, <3>2
    <2> QED
      BY <1>1, <1>2, <1>4, <1>7, <2>1 DEF Grown, TypeOK
  <1>10. orphans \subseteq orphans' /\ orphans' \subseteq orphans \cup Range(Top.made)
    BY <1>1
  <1>11. /\ TypeOK' /\ Views' /\ ReadSafe'
         /\ \A n \in Natives :
              /\ RefsTo(Top.made)[n] \in Nat
              /\ \A d : Counts(InLists(n, MadeIn(calls), "made"), d)
                          => Counts(InLists(n, MadeIn(calls'), "made"), d - RefsTo(Top.made)[n])
    BY <1>1, <1>9, <1>10, ReturnStep
  <1>12. Balanced'
    <2>1. SUFFICES ASSUME NEW n \in Natives PROVE Tallied(refs', wrappers', calls', queue', orphans', n)
      BY DEF Balanced
    <2>2. PICK a, b, c, d, e \in Nat : Sum(refs, wrappers, calls, queue, orphans, n, a, b, c, d, e)
      BY DEF RetentionInv, Balanced, Tallied
    <2>3. PICK m, k, x : m = RefsTo(Top.made)[n] /\ k = Kept(Top)[n] /\ x = RefTo(Next1)[n]
      OBVIOUS
    <2>4. m \in Nat /\ Counts(InLists(n, MadeIn(calls'), "made"), d - m)
      BY <1>11, <2>2, <2>3 DEF Sum
    <2>5. Counts(SlotsIn(wrappers', n), a + x) /\ Counts(InLists(n, HeldIn(wrappers'), "held"), b + held[n])
      BY <1>7, <2>2, <2>3 DEF Sum
    <2>6. held[n] = k + m /\ k \in Nat /\ x \in Nat /\ refs'[n] = (refs[n] + k) + x
      BY <1>6, <1>8, <2>3
    <2>7. refs'[n] = (a + x) + (b + held[n]) + c + (d - m) + e
      <3>1. refs[n] = a + b + c + d + e
        BY <2>2 DEF Sum
      <3> QED
        BY <2>4, <2>6, <3>1
    <2> QED
      BY <1>1, <2>2, <2>4, <2>5, <2>7, Tally DEF Sum
  <1> QED
    BY <1>11, <1>12 DEF RetentionInv

LEMMA CreateFailsStep ==
  ASSUME RetentionInv, CreateFails
  PROVE  RetentionInv'
  <1>1. /\ calls # <<>> /\ Return /\ Len(kinds) < MaxNatives /\ UNCHANGED <<wrappers, queue, draining, orphans>>
        /\ kinds' = Append(kinds, Top.kind)
        /\ refs' = Minus(Plus(Plus(refs, Kept(Top)), RefTo(Next1)),
                         Plus(Plus(RefTo(Next1), Kept(Top)), RefsTo(Top.made)))
    BY DEF CreateFails
  <1>2. TypeOK
    BY DEF RetentionInv
  <1>3. Top.made \in Seq(Natives) /\ Top.kind \in AnyKind /\ Kept(Top) \in [Natives -> Nat]
    BY <1>1, <1>2, InnermostCall, KeptIsFinite DEF AnyKind
  <1>4. /\ Next1 \in Natives /\ Next1 \in 0 .. MaxNatives /\ Next1 # Null
        /\ kinds' \in Seq(AnyKind) /\ Len(kinds) <= Len(kinds') /\ Len(kinds') <= MaxNatives
        /\ RefTo(Next1) \in [Natives -> Nat]
    BY <1>1, <1>2, <1>3, NextNative
  <1>5. \A n \in Natives : /\ refs'[n] = refs[n] - RefsTo(Top.made)[n]
                           /\ refs[n] \in Int /\ RefsTo(Top.made)[n] \in Nat
    <2>1. SUFFICES ASSUME NEW n \in Natives
                   PROVE  /\ refs'[n] = refs[n] - RefsTo(Top.made)[n]
                          /\ refs[n] \in Int /\ RefsTo(Top.made)[n] \in Nat
      OBVIOUS
    <2>2. PICK m, k, x : m = RefsTo(Top.made)[n] /\ k = Kept(Top)[n] /\ x = RefTo(Next1)[n]
      OBVIOUS
    <2>3. m \in Nat /\ k \in Nat /\ x \in Nat /\ refs[n] \in Int
      BY <1>2, <1>3, <1>4, <2>2, RefsOfSequence DEF TypeOK
    <2>4. refs'[n] = ((refs[n] + k) + x) - ((x + k) + m)
      BY <1>1, <2>2 DEF Plus, Minus
    <2> QED
      BY <2>2, <2>3, <2>4
  <1>6. Grown
    <2>1. refs' \in [Natives -> Int]
      <3>1. DOMAIN refs' = Natives /\ refs' = [n \in Natives |-> refs'[n]]
        BY <1>1 DEF Minus
      <3>2. \A n \in Natives : refs'[n] \in Int
        BY <1>5
      <3> QED
        BY <3>1, <3>2
    <2> QED
      BY <1>1, <1>2, <1>4, <2>1 DEF Grown, TypeOK
  <1>7. orphans \subseteq orphans' /\ orphans' \subseteq orphans \cup Range(Top.made)
    BY <1>1
  <1>8. /\ TypeOK' /\ Views' /\ ReadSafe'
        /\ \A n \in Natives :
             /\ RefsTo(Top.made)[n] \in Nat
             /\ \A d : Counts(InLists(n, MadeIn(calls), "made"), d)
                         => Counts(InLists(n, MadeIn(calls'), "made"), d - RefsTo(Top.made)[n])
    BY <1>1, <1>6, <1>7, ReturnStep
  <1>9. Balanced'
    <2>1. SUFFICES ASSUME NEW n \in Natives PROVE Tallied(refs', wrappers', calls', queue', orphans', n)
      BY DEF Balanced
    <2>2. PICK a, b, c, d, e \in Nat : Sum(refs, wrappers, calls, queue, orphans, n, a, b, c, d, e)
      BY DEF RetentionInv, Balanced, Tallied
    <2>3. PICK m : m = RefsTo(Top.made)[n]
      OBVIOUS
    <2>4. m \in Nat /\ Counts(InLists(n, MadeIn(calls'), "made"), d - m) /\ refs'[n] = refs[n] - m
      BY <1>5, <1>8, <2>2, <2>3 DEF Sum
    <2>5. refs'[n] = a + b + c + (d - m) + e
      <3>1. refs[n] = a + b + c + d + e
        BY <2>2 DEF Sum
      <3> QED
        BY <2>4, <3>1
    <2> QED
      BY <1>1, <2>2, <2>4, <2>5, Tally DEF Sum
  <1> QED
    BY <1>8, <1>9 DEF RetentionInv

(* Outside a create function the calls stay as they are.                   *)
LEMMA CallsStay ==
  ASSUME RetentionInv, Grown, UNCHANGED <<calls, orphans>>
  PROVE  TypeOK' /\ Views' /\ ReadSafe'
  <1>1. TypeOK
    BY DEF RetentionInv
  <1>2. TypeOK'
    <2>1. \A i \in DOMAIN calls' : /\ calls'[i].got \in [DOMAIN Plan[calls'[i].kind] -> Seq(Natives)]
                                   /\ calls'[i].creator \in {0} \cup DOMAIN wrappers'
      BY <1>1 DEF TypeOK, Grown
    <2> QED
      BY <1>1, <2>1 DEF TypeOK, Grown
  <1>3. Views'
    <2>1. Len(kinds) \in Nat /\ Len(kinds') \in Nat /\ Len(kinds) <= Len(kinds')
      BY <1>1 DEF TypeOK, Grown
    <2>2. \A i \in DOMAIN calls : \A a \in DOMAIN calls[i].made :
            calls[i].made[a] \in Int /\ calls[i].made[a] <= Len(kinds)
      BY <1>1, MadeTyped DEF RetentionInv, Views, Natives
    <2>3. \A o \in orphans : o \in Int /\ o <= Len(kinds)
      BY <1>1 DEF RetentionInv, Views, TypeOK, Natives
    <2>4. \A i \in DOMAIN calls : \A a \in DOMAIN calls[i].made : calls[i].made[a] <= Len(kinds')
      BY <2>1, <2>2
    <2>5. \A o \in orphans : o <= Len(kinds')
      BY <2>1, <2>3
    <2> QED
      BY <2>4, <2>5 DEF RetentionInv, Views
  <1>4. ReadSafe'
    <2>1. SUFFICES ASSUME NEW i \in DOMAIN calls' PROVE CallSafe(wrappers', queue', calls'[i])
      BY DEF ReadSafe
    <2>2. CallSafe(wrappers, queue, calls'[i])
      BY DEF RetentionInv, ReadSafe
    <2> QED
      BY <2>2, SafeGrows DEF Grown
  <1> QED
    BY <1>2, <1>3, <1>4

LEMMA DeriveLayoutStep ==
  ASSUME RetentionInv, NEW w \in DOMAIN wrappers, NEW fails \in BOOLEAN, DeriveLayout(w, fails)
  PROVE  RetentionInv'
  <1>1. PICK p : p = RefTo(wrappers[w].handle)
    OBVIOUS
  <1>2. /\ Len(kinds) < MaxNatives /\ UNCHANGED <<calls, queue, draining, orphans>>
        /\ kinds' = Append(kinds, "GPUBindGroupLayout")
        /\ fails => /\ refs' = Minus(Plus(Plus(refs, p), RefTo(Next1)), Plus(RefTo(Next1), p))
                    /\ UNCHANGED wrappers
        /\ ~fails => /\ refs' = Plus(Plus(refs, p), RefTo(Next1))
                     /\ NewWrapper("GPUBindGroupLayout", Next1, p)
    BY <1>1 DEF DeriveLayout
  <1>3. TypeOK /\ p \in [Natives -> Nat] /\ "GPUBindGroupLayout" \in AnyKind
    BY <1>1 DEF RetentionInv, RefTo, AnyKind
  <1>4. /\ Next1 \in Natives /\ Next1 \in 0 .. MaxNatives /\ Next1 # Null
        /\ kinds' \in Seq(AnyKind) /\ Len(kinds) <= Len(kinds') /\ Len(kinds') <= MaxNatives
        /\ RefTo(Next1) \in [Natives -> Nat]
    BY <1>2, <1>3, NextNative
  <1>5. \A n \in Natives : refs[n] \in Int /\ p[n] \in Nat /\ RefTo(Next1)[n] \in Nat
    BY <1>3, <1>4 DEF TypeOK
  <1>6. CASE fails
    <2>1. \A n \in Natives : refs'[n] = ((refs[n] + p[n]) + RefTo(Next1)[n]) - (RefTo(Next1)[n] + p[n])
      BY <1>2, <1>6 DEF Plus, Minus
    <2>2. \A n \in Natives : refs'[n] = refs[n]
      BY <1>5, <2>1
    <2>3. refs' = refs
      <3>1. refs = [n \in Natives |-> refs[n]]
        BY <1>3 DEF TypeOK
      <3>2. refs' = [n \in Natives |-> refs'[n]]
        BY <1>2, <1>6 DEF Minus
      <3> QED
        BY <2>2, <3>1, <3>2
    <2>4. Grown
      BY <1>2, <1>3, <1>4, <1>6, <2>3 DEF Grown, TypeOK
    <2>5. TypeOK' /\ Views' /\ ReadSafe'
      BY <1>2, <2>4, CallsStay
    <2>6. Balanced'
      BY <1>2, <1>6, <2>3 DEF RetentionInv, Balanced
    <2> QED
      BY <2>5, <2>6 DEF RetentionInv
  <1>7. CASE ~fails
    <2>1. /\ wrappers' \in Seq(Wrapper)
          /\ \A v \in DOMAIN wrappers : v \in DOMAIN wrappers' /\ wrappers'[v] = wrappers[v]
          /\ \A n \in Natives : \A a, b :
               Counts(SlotsIn(wrappers, n), a) /\ Counts(InLists(n, HeldIn(wrappers), "held"), b)
                 => /\ Counts(SlotsIn(wrappers', n), a + RefTo(Next1)[n])
                    /\ Counts(InLists(n, HeldIn(wrappers'), "held"), b + p[n])
      BY <1>2, <1>3, <1>4, <1>7, NewWrapperKept
    <2>2. \A n \in Natives : refs'[n] = (refs[n] + p[n]) + RefTo(Next1)[n]
      BY <1>2, <1>7 DEF Plus
    <2>3. refs' \in [Natives -> Int]
      <3>1. refs' = [n \in Natives |-> refs'[n]]
        BY <1>2, <1>7 DEF Plus
      <3>2. \A n \in Natives : refs'[n] \in Int
        BY <1>5, <2>2
      <3> QED
        BY <3>1, <3>2
    <2>4. Grown
      BY <1>2, <1>3, <1>4, <2>1, <2>3 DEF Grown, TypeOK
    <2>5. TypeOK' /\ Views' /\ ReadSafe'
      BY <1>2, <2>4, CallsStay
    <2>6. Balanced'
      <3>1. SUFFICES ASSUME NEW n \in Natives PROVE Tallied(refs', wrappers', calls', queue', orphans', n)
        BY DEF Balanced
      <3>2. PICK a, b, c, d, e \in Nat : Sum(refs, wrappers, calls, queue, orphans, n, a, b, c, d, e)
        BY DEF RetentionInv, Balanced, Tallied
      <3>3. PICK k, x : k = p[n] /\ x = RefTo(Next1)[n]
        OBVIOUS
      <3>4. Counts(SlotsIn(wrappers', n), a + x) /\ Counts(InLists(n, HeldIn(wrappers'), "held"), b + k)
        BY <2>1, <3>2, <3>3 DEF Sum
      <3>5. refs'[n] = (a + x) + (b + k) + c + d + e
        <4>1. refs[n] = a + b + c + d + e
          BY <3>2 DEF Sum
        <4> QED
          BY <1>5, <2>2, <3>3, <4>1
      <3> QED
        BY <1>2, <3>2, <3>4, <3>5, Tally DEF Sum
    <2> QED
      BY <2>5, <2>6 DEF RetentionInv
  <1> QED
    BY <1>6, <1>7

LEMMA FinishBundleStep ==
  ASSUME RetentionInv, NEW invalid \in BOOLEAN, FinishBundle(invalid)
  PROVE  RetentionInv'
  <1>1. /\ UNCHANGED <<calls, queue, draining, orphans>>
        /\ invalid => NewWrapper("GPURenderBundle", Null, Nothing) /\ UNCHANGED <<kinds, refs>>
        /\ ~invalid => /\ Len(kinds) < MaxNatives
                       /\ kinds' = Append(kinds, "GPURenderBundle") /\ refs' = Plus(refs, RefTo(Next1))
                       /\ NewWrapper("GPURenderBundle", Next1, Nothing)
    BY DEF FinishBundle
  <1>2. /\ TypeOK /\ "GPURenderBundle" \in AnyKind /\ Null \in 0 .. MaxNatives
        /\ Nothing \in [Natives -> Nat] /\ \A n \in Natives : Nothing[n] = 0 /\ n # Null
    BY RetentionAssumption DEF RetentionInv, AnyKind, Null, Nothing, Natives
  <1>3. PICK h : h = IF invalid THEN Null ELSE Next1
    OBVIOUS
  <1>4. /\ h \in 0 .. MaxNatives /\ NewWrapper("GPURenderBundle", h, Nothing)
        /\ kinds' \in Seq(AnyKind) /\ Len(kinds) <= Len(kinds') /\ Len(kinds') <= MaxNatives
    <2>1. CASE invalid
      BY <1>1, <1>2, <1>3, <2>1 DEF TypeOK
    <2>2. CASE ~invalid
      BY <1>1, <1>2, <1>3, <2>2, NextNative
    <2> QED
      BY <2>1, <2>2
  <1>5. /\ \A n \in Natives : refs'[n] = refs[n] + RefTo(h)[n] /\ RefTo(h)[n] \in Nat /\ refs[n] \in Int
        /\ refs' \in [Natives -> Int]
    <2>1. \A n \in Natives : refs[n] \in Int /\ RefTo(h)[n] \in Nat
      BY <1>2 DEF TypeOK, RefTo
    <2>2. CASE invalid
      <3>1. \A n \in Natives : RefTo(h)[n] = 0
        BY <1>2, <1>3, <2>2 DEF RefTo
      <3> QED
        BY <1>1, <1>2, <2>1, <2>2, <3>1 DEF TypeOK
    <2>3. CASE ~invalid
      <3>1. refs' = [n \in Natives |-> refs[n] + RefTo(h)[n]]
        BY <1>1, <1>3, <2>3 DEF Plus
      <3> QED
        BY <2>1, <3>1
    <2> QED
      BY <2>2, <2>3
  <1>6. /\ wrappers' \in Seq(Wrapper)
        /\ \A w \in DOMAIN wrappers : w \in DOMAIN wrappers' /\ wrappers'[w] = wrappers[w]
        /\ \A n \in Natives : \A a, b :
             Counts(SlotsIn(wrappers, n), a) /\ Counts(InLists(n, HeldIn(wrappers), "held"), b)
               => /\ Counts(SlotsIn(wrappers', n), a + RefTo(h)[n])
                  /\ Counts(InLists(n, HeldIn(wrappers'), "held"), b + Nothing[n])
    BY <1>2, <1>4, NewWrapperKept
  <1>7. Grown
    BY <1>1, <1>2, <1>4, <1>5, <1>6 DEF Grown, TypeOK
  <1>8. TypeOK' /\ Views' /\ ReadSafe'
    BY <1>1, <1>7, CallsStay
  <1>9. Balanced'
    <2>1. SUFFICES ASSUME NEW n \in Natives PROVE Tallied(refs', wrappers', calls', queue', orphans', n)
      BY DEF Balanced
    <2>2. PICK a, b, c, d, e \in Nat : Sum(refs, wrappers, calls, queue, orphans, n, a, b, c, d, e)
      BY DEF RetentionInv, Balanced, Tallied
    <2>3. PICK x : x = RefTo(h)[n]
      OBVIOUS
    <2>4. Counts(SlotsIn(wrappers', n), a + x) /\ Counts(InLists(n, HeldIn(wrappers'), "held"), b + 0)
      BY <1>2, <1>6, <2>2, <2>3 DEF Sum
    <2>5. refs'[n] = (a + x) + (b + 0) + c + d + e
      <3>1. refs[n] = a + b + c + d + e
        BY <2>2 DEF Sum
      <3> QED
        BY <1>5, <2>3, <3>1
    <2> QED
      BY <1>1, <2>2, <2>4, <2>5, Tally DEF Sum
  <1> QED
    BY <1>8, <1>9 DEF RetentionInv

(***************************************************************************)
(* Releasing.                                                              *)
(***************************************************************************)
LEMMA RetireStep ==
  ASSUME RetentionInv, NEW w \in DOMAIN wrappers, wrappers[w].slot = "full", Retire(w),
         UNCHANGED <<kinds, calls, draining, orphans>>
  PROVE  RetentionInv'
  <1>1. /\ TypeOK /\ wrappers \in Seq(Wrapper) /\ wrappers[w] \in Wrapper /\ queue \in Seq([Natives -> Nat])
    BY DEF RetentionInv, TypeOK
  <1>2. /\ refs' = refs /\ wrappers' = [wrappers EXCEPT ![w].slot = "empty"]
        /\ Live(w) => queue' = Append(queue, Request(w))
        /\ ~Live(w) => queue' = queue
    BY DEF Retire
  <1>3. /\ DOMAIN wrappers' = DOMAIN wrappers /\ wrappers'[w].slot = "empty"
        /\ wrappers'[w].handle = wrappers[w].handle
        /\ \A v \in DOMAIN wrappers : v # w => wrappers'[v] = wrappers[v]
        /\ wrappers' \in Seq(Wrapper)
    <2>1. wrappers'[w] = [wrappers[w] EXCEPT !.slot = "empty"] /\ DOMAIN wrappers' = DOMAIN wrappers
      BY <1>1, <1>2
    <2>2. wrappers'[w] \in Wrapper /\ wrappers'[w].slot = "empty" /\ wrappers'[w].handle = wrappers[w].handle
      BY <1>1, <2>1 DEF Wrapper
    <2>3. \A v \in DOMAIN wrappers : v # w => wrappers'[v] = wrappers[v]
      BY <1>1, <1>2
    <2>4. wrappers' = [wrappers EXCEPT ![w] = wrappers'[w]]
      BY <1>1, <1>2, <2>1
    <2>5. wrappers' \in Seq(Wrapper)
      BY <1>1, <2>2, <2>4
    <2> QED
      BY <2>1, <2>2, <2>3, <2>5
  <1>4. Live(w) <=> w \in LiveIn(wrappers)
    BY DEF Live, LiveIn
  <1>5. /\ \A n \in Natives : Request(w)[n] = RefTo(wrappers[w].handle)[n] + wrappers[w].held[n]
        /\ \A n \in Natives : RefTo(wrappers[w].handle)[n] \in Nat /\ wrappers[w].held[n] \in Nat
        /\ Request(w) \in [Natives -> Nat]
    <2>1. \A n \in Natives : RefTo(wrappers[w].handle)[n] \in Nat /\ wrappers[w].held[n] \in Nat
      BY <1>1 DEF RefTo, Wrapper
    <2>2. Request(w) = [n \in Natives |-> RefTo(wrappers[w].handle)[n] + wrappers[w].held[n]]
      BY DEF Request, Plus
    <2> QED
      BY <2>1, <2>2
  <1>6. /\ queue' \in Seq([Natives -> Nat])
        /\ \A i \in DOMAIN queue : i \in DOMAIN queue' /\ queue'[i] = queue[i]
        /\ Live(w) => Len(queue) + 1 \in DOMAIN queue' /\ queue'[Len(queue) + 1] = Request(w)
    <2>1. CASE Live(w)
      <3>1. queue' = Append(queue, Request(w))
        BY <1>2, <2>1
      <3> QED
        BY <1>1, <1>5, <3>1
    <2>2. CASE ~Live(w)
      BY <1>1, <1>2, <2>2
    <2> QED
      BY <2>1, <2>2
  <1>7. TypeOK' /\ Views'
    <2>1. TypeOK'
      BY <1>1, <1>2, <1>3, <1>6 DEF TypeOK
    <2>2. Views'
      BY DEF RetentionInv, Views
    <2> QED
      BY <2>1, <2>2
  <1>8. ReadSafe'
    <2>1. ASSUME NEW h, Safe(wrappers, queue, h)
          PROVE  Safe(wrappers', queue', h)
      <3>1. CASE \E i \in DOMAIN queue : queue[i][h] > 0
        BY <1>6, <3>1 DEF Safe
      <3>2. CASE \E v \in LiveIn(wrappers) : wrappers[v].handle = h
        <4>1. PICK v \in LiveIn(wrappers) : wrappers[v].handle = h
          BY <3>2
        <4>2. CASE v # w
          <5>1. v \in LiveIn(wrappers') /\ wrappers'[v].handle = h
            BY <1>3, <4>1, <4>2 DEF LiveIn
          <5> QED
            BY <5>1 DEF Safe
        <4>3. CASE v = w
          <5>1. Live(w) /\ h \in Natives
            BY <1>1, <1>4, <4>1, <4>3, RetentionAssumption DEF Live, Wrapper, Natives, Null
          <5>2. RefTo(h)[h] = 1
            BY <5>1 DEF RefTo
          <5>3. Request(w)[h] > 0
            BY <1>5, <4>1, <4>3, <5>1, <5>2
          <5> QED
            BY <1>6, <5>1, <5>3 DEF Safe
        <4> QED
          BY <4>2, <4>3
      <3> QED
        BY <2>1, <3>1, <3>2 DEF Safe
    <2>2. \A v \in DOMAIN wrappers : v \in DOMAIN wrappers' /\ wrappers'[v].handle = wrappers[v].handle
      BY <1>3
    <2>3. ASSUME NEW c, CallSafe(wrappers, queue, c)
          PROVE  CallSafe(wrappers', queue', c)
      <3>1. \A e \in DOMAIN c.got : \A k \in DOMAIN c.got[e] : Safe(wrappers', queue', c.got[e][k])
        BY <2>1, <2>3 DEF CallSafe
      <3>2. c.creator # 0 => /\ c.creator \in DOMAIN wrappers' /\ wrappers'[c.creator].handle \in Natives
                             /\ Safe(wrappers', queue', wrappers'[c.creator].handle)
        BY <2>1, <2>2, <2>3 DEF CallSafe
      <3> QED
        BY <3>1, <3>2 DEF CallSafe
    <2> QED
      BY <2>3 DEF RetentionInv, ReadSafe
  <1>9. Balanced'
    <2>1. SUFFICES ASSUME NEW n \in Natives PROVE Tallied(refs', wrappers', calls', queue', orphans', n)
      BY DEF Balanced
    <2>2. PICK a, b, c, d, e \in Nat : Sum(refs, wrappers, calls, queue, orphans, n, a, b, c, d, e)
      BY DEF RetentionInv, Balanced, Tallied
    <2>3. CASE Live(w)
      <3>1. PICK x, k : x = RefTo(wrappers[w].handle)[n] /\ k = wrappers[w].held[n]
        OBVIOUS
      <3>2. Counts(SlotsIn(wrappers', n), a - x) /\ Counts(InLists(n, HeldIn(wrappers'), "held"), b - k)
        <4>1. w \in LiveIn(wrappers) /\ wrappers'[w].slot # "full"
          BY <1>3, <1>4, <2>3
        <4> QED
          BY <1>1, <1>3, <2>2, <3>1, <4>1, SlotEmptied DEF Sum
      <3>3. Counts(InLists(n, queue', "queue"), c + Request(w)[n])
        BY <1>1, <1>2, <1>5, <2>2, <2>3, Enqueued DEF Sum
      <3>4. Request(w)[n] = x + k /\ x \in Nat /\ k \in Nat
        BY <1>5, <3>1
      <3>5. refs'[n] = (a - x) + (b - k) + (c + Request(w)[n]) + d + e
        <4>1. refs[n] = a + b + c + d + e
          BY <2>2 DEF Sum
        <4> QED
          BY <1>2, <3>4, <4>1
      <3> QED
        BY <2>2, <3>2, <3>3, <3>5, Tally DEF Sum
    <2>4. CASE ~Live(w)
      <3>1. /\ SlotsIn(wrappers', n) = SlotsIn(wrappers, n)
            /\ InLists(n, HeldIn(wrappers'), "held") = InLists(n, HeldIn(wrappers), "held")
        <4>1. w \notin LiveIn(wrappers) /\ wrappers'[w].slot # "full"
          BY <1>3, <1>4, <2>4
        <4> QED
          BY <1>3, <4>1, IdleEmptied
      <3> QED
        BY <1>2, <2>2, <2>4, <3>1 DEF Tallied, Sum
    <2> QED
      BY <2>3, <2>4
  <1> QED
    BY <1>7, <1>8, <1>9 DEF RetentionInv

LEMMA RunRequestStep ==
  ASSUME RetentionInv, RunRequest
  PROVE  RetentionInv'
  <1>1. /\ calls = <<>> /\ queue # <<>> /\ refs' = Minus(refs, Head(queue)) /\ queue' = Tail(queue)
        /\ UNCHANGED <<kinds, wrappers, calls, orphans>>
    BY DEF RunRequest
  <1>2. TypeOK /\ queue \in Seq([Natives -> Nat])
    BY DEF RetentionInv, TypeOK
  <1>3. Head(queue) \in [Natives -> Nat] /\ queue' \in Seq([Natives -> Nat])
    BY <1>1, <1>2
  <1>4. \A n \in Natives : refs'[n] = refs[n] - Head(queue)[n] /\ refs[n] \in Int /\ Head(queue)[n] \in Nat
    BY <1>1, <1>2, <1>3 DEF Minus, TypeOK
  <1>5. TypeOK'
    <2>1. refs' \in [Natives -> Int]
      <3>1. refs' = [n \in Natives |-> refs'[n]]
        BY <1>1 DEF Minus
      <3>2. \A n \in Natives : refs'[n] \in Int
        BY <1>4
      <3> QED
        BY <3>1, <3>2
    <2> QED
      BY <1>1, <1>2, <1>3, <2>1 DEF TypeOK
  <1>6. Views' /\ ReadSafe'
    BY <1>1 DEF RetentionInv, Views, ReadSafe
  <1>7. Balanced'
    <2>1. SUFFICES ASSUME NEW n \in Natives PROVE Tallied(refs', wrappers', calls', queue', orphans', n)
      BY DEF Balanced
    <2>2. PICK a, b, c, d, e \in Nat : Sum(refs, wrappers, calls, queue, orphans, n, a, b, c, d, e)
      BY DEF RetentionInv, Balanced, Tallied
    <2>3. PICK k : k = Head(queue)[n]
      OBVIOUS
    <2>4. Counts(InLists(n, queue', "queue"), c - k)
      BY <1>1, <1>2, <2>2, <2>3, Dequeued DEF Sum
    <2>5. refs'[n] = a + b + (c - k) + d + e
      <3>1. refs[n] = a + b + c + d + e
        BY <2>2 DEF Sum
      <3> QED
        BY <1>4, <2>3, <3>1
    <2> QED
      BY <1>1, <2>2, <2>4, <2>5, Tally DEF Sum
  <1> QED
    BY <1>5, <1>6, <1>7 DEF RetentionInv

LEMMA RetentionStep == RetentionInv /\ [Next]_vars => RetentionInv'
  <1> SUFFICES ASSUME RetentionInv, [Next]_vars PROVE RetentionInv'
    OBVIOUS
  <1>1. CASE \E k \in Creatable, w \in {0} \cup DOMAIN wrappers : BeginCreate(k, w)
    BY <1>1, BeginCreateStep
  <1>2. CASE \E w \in DOMAIN wrappers : ReadHandle(w)
    BY <1>2, ReadHandleStep
  <1>3. CASE \E w \in DOMAIN wrappers : MakeView(w)
    BY <1>3, MakeViewStep
  <1>4. CASE \E w \in DOMAIN wrappers : Destroy(w)
    BY <1>4, RetireStep DEF Destroy
  <1>5. CASE \E w \in DOMAIN wrappers : Collect(w)
    BY <1>5, RetireStep DEF Collect
  <1>6. CASE \E w \in DOMAIN wrappers : \E fails \in BOOLEAN : DeriveLayout(w, fails)
    BY <1>6, DeriveLayoutStep
  <1>7. CASE ConversionFails
    BY <1>7, ConversionFailsStep
  <1>8. CASE CreateReturnsNull
    BY <1>8, CreateReturnsNullStep
  <1>9. CASE Create
    BY <1>9, CreateStep
  <1>10. CASE CreateFails
    BY <1>10, CreateFailsStep
  <1>11. CASE \E invalid \in BOOLEAN : FinishBundle(invalid)
    BY <1>11, FinishBundleStep
  <1>12. CASE RunRequest
    BY <1>12, RunRequestStep
  <1>13. CASE UNCHANGED vars
    BY <1>13 DEF vars, RetentionInv, TypeOK, Views, ReadSafe, Balanced
  <1> QED
    BY <1>1, <1>2, <1>3, <1>4, <1>5, <1>6, <1>7, <1>8, <1>9, <1>10, <1>11, <1>12, <1>13 DEF Next

LEMMA RetentionAlways == Spec => []RetentionInv
  <1>1. Init => RetentionInv
    BY RetentionStarts
  <1>2. RetentionInv /\ [Next]_vars => RetentionInv'
    BY RetentionStep
  <1> QED
    BY <1>1, <1>2, PTL DEF Spec

(***************************************************************************)
(* The results.                                                            *)
(***************************************************************************)
(* Native counts the references somebody will give back, whatever          *)
(* conversions, failures, destroy(), finalizers and ticks do to each other *)
(* (the plans of lifecycle.rs, emit_create, emit_retire, emit_cleanup).    *)
THEOREM ReferencesBalance == Spec => []RefsCounted
  <1>1. RetentionInv => RefsCounted
    <2>1. SUFFICES ASSUME RetentionInv, NEW n \in Natives PROVE refs[n] = Cardinality(Owners(n))
      BY DEF RefsCounted
    <2>2. Counts(Owners(n), refs[n])
      BY <2>1, OwnersTallied DEF RetentionInv, Balanced
    <2> QED
      BY <2>2 DEF Counts
  <1> QED
    BY <1>1, RetentionAlways, PTL

(* What a conversion has read stays alive until native is called with it:  *)
(* a destroyed wrapper's references wait in the queue, which no tick runs  *)
(* while script is on the stack.                                           *)
THEOREM ConversionsHoldLive == Spec => []ConversionHoldsLive
  <1>1. RetentionInv => ConversionHoldsLive
    <2>1. SUFFICES ASSUME RetentionInv PROVE ConversionHoldsLive
      OBVIOUS
    <2>2. TypeOK
      BY <2>1 DEF RetentionInv
    <2>3. ASSUME NEW h \in Natives, NEW x, x \in Owners(h)
          PROVE  refs[h] > 0
      <3>1. Counts(Owners(h), refs[h])
        BY <2>1, OwnersTallied DEF RetentionInv, Balanced
      <3>2. refs[h] \in Nat
        BY <3>1, CountIsNat
      <3>3. refs[h] # 0
        BY <2>3, <3>1, FS_EmptySet DEF Counts
      <3> QED
        BY <3>2, <3>3
    <2>4. ASSUME NEW h \in Natives, Safe(wrappers, queue, h)
          PROVE  refs[h] > 0
      <3>1. CASE \E w \in LiveIn(wrappers) : wrappers[w].handle = h
        <4>1. PICK w \in LiveIn(wrappers) : wrappers[w].handle = h
          BY <3>1
        <4>2. <<"slot", w>> \in Owners(h)
          BY <4>1 DEF Owners, LiveIn, Live
        <4> QED
          BY <2>3, <4>2
      <3>2. CASE \E i \in DOMAIN queue : queue[i][h] > 0
        <4>1. PICK i \in DOMAIN queue : queue[i][h] > 0
          BY <3>2
        <4>2. queue[i][h] \in Nat
          BY <2>2 DEF TypeOK
        <4>3. 1 \in 1 .. queue[i][h]
          BY <4>1, <4>2
        <4>4. <<"queue", i, 1>> \in InLists(h, queue, "queue")
          BY <4>3 DEF InLists
        <4>5. <<"queue", i, 1>> \in Owners(h)
          BY <4>4 DEF Owners
        <4> QED
          BY <2>3, <4>5
      <3> QED
        BY <2>4, <3>1, <3>2 DEF Safe
    <2>5. ASSUME NEW i \in DOMAIN calls, NEW k \in DOMAIN calls[i].made
          PROVE  refs[calls[i].made[k]] > 0
      <3>1. PICK h : h = calls[i].made[k]
        OBVIOUS
      <3>2. calls[i].made \in Seq(Natives) /\ h \in Natives
        BY <2>2, <3>1, MadeTyped
      <3>3. RefsTo(calls[i].made)[h] \in Nat /\ Counts({j \in DOMAIN calls[i].made : calls[i].made[j] = h}, RefsTo(calls[i].made)[h])
        BY <3>2, RefsOfSequence
      <3>4. RefsTo(calls[i].made)[h] # 0
        BY <3>1, <3>3, FS_EmptySet DEF Counts
      <3>5. 1 \in 1 .. RefsTo(calls[i].made)[h]
        BY <3>3, <3>4
      <3>6. <<"made", i, 1>> \in InLists(h, [j \in DOMAIN calls |-> RefsTo(calls[j].made)], "made")
        BY <3>5 DEF InLists
      <3>7. <<"made", i, 1>> \in Owners(h)
        BY <3>6 DEF Owners
      <3> QED
        BY <2>3, <3>1, <3>2, <3>7
    <2>6. ASSUME NEW i \in DOMAIN calls, NEW e \in DOMAIN calls[i].got, NEW k \in DOMAIN calls[i].got[e]
          PROVE  refs[calls[i].got[e][k]] > 0
      <3>1. calls[i].got[e] \in Seq(Natives)
        BY <2>2 DEF TypeOK
      <3>2. calls[i].got[e][k] \in Natives
        BY <3>1
      <3>3. Safe(wrappers, queue, calls[i].got[e][k])
        BY <2>1 DEF RetentionInv, ReadSafe, CallSafe
      <3> QED
        BY <2>4, <3>2, <3>3
    <2>7. ASSUME NEW i \in DOMAIN calls, calls[i].creator # 0
          PROVE  refs[wrappers[calls[i].creator].handle] > 0
      BY <2>1, <2>4, <2>7 DEF RetentionInv, ReadSafe, CallSafe
    <2> QED
      BY <2>5, <2>6, <2>7 DEF ConversionHoldsLive
  <1> QED
    BY <1>1, RetentionAlways, PTL

(***************************************************************************)
(* The generator: what the lifecycle policy is validated for is what the   *)
(* emitter relies on.                                                      *)
(***************************************************************************)
LEMMA NamesDiffer ==
  ASSUME NEW w \in Worlds, NEW itf \in DOMAIN w.members, NEW m \in w.members[itf], NEW n \in w.members[itf],
         m.name = n.name
  PROVE  m = n
  BY WorldsAssumption DEF WorldKnown

LEMMA JoinedSelected ==
  ASSUME NEW w, NEW itf, NEW m \in Joined(w, itf)
  PROVE  m \in w.members[itf] /\ m.name \in SelectedOf(w, itf)
  <1>1. m \in w.members[itf] /\ <<"pair", itf, m.name>> \in JoinInterface(w, itf)
    BY DEF Joined
  <1>2. PICK n \in w.members[itf] :
          <<"pair", itf, m.name>> = <<IF n.name \in SelectedOf(w, itf) THEN "pair" ELSE "skip", itf, n.name>>
    BY <1>1, Zenon DEF JoinInterface
  <1> QED
    BY <1>1, <1>2

LEMMA SelectedIs ==
  ASSUME NEW w, NEW itf
  PROVE  SelectedOf(w, itf) # {} => itf \in Selected(w)
  BY DEF SelectedOf, Selected

(* Exactly one of three, or of two.                                        *)
LEMMA OneOfThree ==
  ASSUME NEW a \in BOOLEAN, NEW b \in BOOLEAN, NEW c \in BOOLEAN, Bodies(<<a, b, c>>) = 1
  PROVE  (a \/ b \/ c) /\ ~(a /\ b) /\ ~(a /\ c) /\ ~(b /\ c)
  <1> DEFINE on == {i \in DOMAIN <<a, b, c>> : <<a, b, c>>[i]}
  <1>1. IsFiniteSet(on) /\ Cardinality(on) = 1
    <2>1. DOMAIN <<a, b, c>> = 1 .. 3
      OBVIOUS
    <2>2. IsFiniteSet(on)
      BY <2>1, FS_Interval, FS_Subset, 1 \in Int, 3 \in Int, on \in SUBSET (1 .. 3)
    <2> QED
      BY <2>2 DEF Bodies
  <1>2. PICK i : on = {i}
    BY <1>1, FS_Singleton
  <1> QED
    BY <1>2
LEMMA OneOfTwo ==
  ASSUME NEW a \in BOOLEAN, NEW b \in BOOLEAN, NEW c \in BOOLEAN, Bodies(<<a, b, c>>) = 1, ~c
  PROVE  (a /\ ~b) \/ (~a /\ b)
  BY OneOfThree

Accepted(w) == PolicyAccepted(w) /\ LifecycleAccepted(w)

(* A selected member is joined; the class of an interface that is not      *)
(* selected has none.                                                      *)
LEMMA SelectedJoined ==
  ASSUME NEW w, Accepted(w), NEW itf, NEW name \in SelectedOf(w, itf)
  PROVE  /\ itf \in Selected(w)
         /\ \E m \in Joined(w, itf) : m.name = name
  <1>1. itf \in Selected(w)
    BY SelectedIs
  <1>2. SelectedOf(w, itf) \subseteq Names(Joined(w, itf))
    BY <1>1 DEF Accepted, LifecycleAccepted
  <1> QED
    BY <1>1, <1>2 DEF Names

LEMMA JoinedOf ==
  ASSUME NEW w \in Worlds, Accepted(w), NEW itf, NEW m \in Joined(w, itf)
  PROVE  /\ itf \in Selected(w) /\ itf \in DOMAIN w.members
         /\ m \in w.members[itf] /\ m.name \in SelectedOf(w, itf)
         /\ m.kind \in {"operation", "attribute"}
         /\ m.kind = "operation" => MethodCovered(w, itf, m)
         /\ m.kind = "attribute" => PropertyCovered(w, itf, m)
  <1>1. m \in w.members[itf] /\ m.name \in SelectedOf(w, itf)
    BY JoinedSelected
  <1>2. itf \in Selected(w)
    BY <1>1, SelectedIs
  <1>3. itf \in DOMAIN w.members
    BY <1>2 DEF Accepted, PolicyAccepted, SubsetKnown, Selected
  <1>4. m.kind \in {"operation", "attribute"}
    BY <1>1, <1>3, WorldsAssumption DEF WorldKnown
  <1>5. IF m.kind = "operation" THEN MethodCovered(w, itf, m) ELSE PropertyCovered(w, itf, m)
    BY <1>2 DEF Accepted, LifecycleAccepted
  <1> QED
    BY <1>1, <1>2, <1>3, <1>4, <1>5

(* No entry of a class calls a body that is missing.                       *)
LEMMA NoPanic ==
  ASSUME NEW w \in Worlds, Accepted(w), NEW itf, NEW e \in PropertyEntries(w, itf) \cup MethodEntries(w, itf)
  PROVE  e.call[1] # "panic"
  <1> DEFINE extra(x) == Entry(x, "extra", Body("mapped", itf, x))
             extension(x) == Entry(x, "extension", Body("extension", itf, x))
  <1>1. CASE \E x : e = extra(x) \/ e = extension(x)
    BY <1>1 DEF Entry, Body
  <1>2. ASSUME NEW m \in Joined(w, itf), m.kind = "attribute", e = Entry(m.name, "selected", PropertyCall(w, itf, m))
        PROVE  e.call[1] # "panic"
    <2>1. PropertyCovered(w, itf, m)
      BY <1>2, JoinedOf
    <2> DEFINE a == m.name = "label" /\ itf \in w.policy.standard
               b == m.name # "label" /\ itf \in w.policy.standard /\ m.native
               c == Property(w, itf, m.name)
    <2>2. a \/ b \/ c
      <3>1. a \in BOOLEAN /\ c \in BOOLEAN
        BY DEF Property
      <3> QED
        BY <2>1, <3>1, OneOfThree DEF PropertyCovered
    <2>3. PropertyCall(w, itf, m)[1] # "panic"
      BY <2>2 DEF PropertyCall, Body
    <2> QED
      BY <1>2, <2>3 DEF Entry
  <1>3. ASSUME NEW m \in Joined(w, itf), m.kind = "operation", ~Omitted(w, itf, m.name),
               e = Entry(m.name, "selected", MethodCall(w, itf, m))
        PROVE  e.call[1] # "panic"
    <2>1. Generated(w, itf, m) \/ Mapped(w, itf, m.name)
      <3>1. MethodCovered(w, itf, m)
        BY <1>3, JoinedOf
      <3>2. Generated(w, itf, m) \in BOOLEAN /\ Mapped(w, itf, m.name) \in BOOLEAN /\ Omitted(w, itf, m.name) \in BOOLEAN
        BY DEF Generated, Mapped, Omitted
      <3> QED
        BY <1>3, <3>1, <3>2, OneOfThree DEF MethodCovered
    <2>2. MethodCall(w, itf, m)[1] # "panic"
      BY <2>1 DEF MethodCall, Generated, Body
    <2> QED
      BY <1>3, <2>2 DEF Entry
  <1> QED
    BY <1>1, <1>2, <1>3 DEF PropertyEntries, MethodEntries
(* A least member of a set of natural numbers.                             *)
LEMMA LeastOf ==
  ASSUME NEW S \in SUBSET Nat, S # {}
  PROVE  \E x \in S : \A y \in S : x <= y
  <1> DEFINE Less == OpToRel(<, Nat)
  <1>1. IsWellFoundedOn(Less, Nat)
    BY NatLessThanWellFounded, Zenon
  <1>2. \A x, y \in Nat : y < x => <<y, x>> \in Less
    BY Zenon DEF OpToRel
  <1> HIDE DEF Less
  <1>3. PICK x \in S : \A y \in S : ~(<<y, x>> \in Less)
    BY <1>1, WFMin
  <1>4. \A y \in S : ~(y < x)
    BY <1>2, <1>3
  <1> QED
    BY <1>4

First(w, s, c) ==
  /\ c \in Creators(w, s)
  /\ \A o \in Creators(w, s) : c.at < o.at \/ (c.at = o.at /\ (c.member.order <= o.member.order))

(* An interface that has a creator has a first one.                        *)
LEMMA SomeFirst ==
  ASSUME NEW w \in Worlds, Accepted(w), NEW s, NEW d \in Creators(w, s)
  PROVE  \E c : First(w, s, c)
  <1>1. \A c \in Creators(w, s) : c.at \in Nat /\ c.member.order \in Nat
    <2> SUFFICES ASSUME NEW c \in Creators(w, s) PROVE c.at \in Nat /\ c.member.order \in Nat
      OBVIOUS
    <2>0. PICK i \in DOMAIN w.subset : \E m \in Joined(w, w.subset[i].interface) :
            c = [at |-> i, owner |-> w.subset[i].interface, member |-> m]
      BY DEF Creators
    <2>1. PICK m \in Joined(w, w.subset[i].interface) : c = [at |-> i, owner |-> w.subset[i].interface, member |-> m]
      BY <2>0
    <2>2. w.subset \in Seq([interface : STRING, members : SUBSET STRING])
      BY WorldsAssumption DEF WorldKnown
    <2>3. i \in Nat
      BY <2>2
    <2>4. m.order \in Nat
      BY JoinedOf, WorldsAssumption DEF WorldKnown
    <2> QED
      BY <2>1, <2>3, <2>4
  <1> DEFINE places == {c.at : c \in Creators(w, s)}
  <1>2. PICK n \in places : \A k \in places : n <= k
    <2>1. places \in SUBSET Nat /\ places # {}
      BY <1>1
    <2> QED
      BY <2>1, LeastOf
  <1> DEFINE orders == {c.member.order : c \in {x \in Creators(w, s) : x.at = n}}
  <1>3. PICK m \in orders : \A k \in orders : m <= k
    <2>1. orders \in SUBSET Nat /\ orders # {}
      BY <1>1, <1>2
    <2> QED
      BY <2>1, LeastOf
  <1>4. PICK c \in Creators(w, s) : c.at = n /\ c.member.order = m
    BY <1>3
  <1>5. ASSUME NEW o \in Creators(w, s)
        PROVE  c.at < o.at \/ (c.at = o.at /\ (c.member.order <= o.member.order))
    <2>1. n <= o.at /\ n \in Nat /\ o.at \in Nat
      BY <1>1, <1>2
    <2>2. o.at = n => m <= o.member.order
      BY <1>3
    <2> QED
      BY <1>4, <2>1, <2>2
  <1> QED
    BY <1>4, <1>5 DEF First

(* The member that is generated and the creator found for its interface    *)
(* are the same.                                                           *)
LEMMA FoundIsGenerated ==
  ASSUME NEW w \in Worlds, Accepted(w), CreatorsFound(w), NEW itf, NEW m \in Joined(w, itf), NEW s \in w.policy.standard,
         m.kind = "operation", s \in m.returns, ~Mapped(w, itf, m.name)
  PROVE  FoundCreator(w, s).owner = itf /\ FoundCreator(w, s).member.name = m.name
  <1>1. PICK c \in Creators(w, s) : c.owner = itf /\ c.member = m
    <2>1. PICK i \in DOMAIN w.subset : w.subset[i].interface = itf
      BY JoinedOf DEF Selected
    <2>2. [at |-> i, owner |-> itf, member |-> m] \in Creators(w, s)
      BY <2>1 DEF Creators
    <2> QED
      BY <2>2
  <1>2. First(w, s, FoundCreator(w, s))
    BY <1>1, SomeFirst DEF First, FoundCreator
  <1>3. FoundCreator(w, s) \in Creators(w, s) /\ ~Mapped(w, FoundCreator(w, s).owner, FoundCreator(w, s).member.name)
    BY <1>2 DEF First, CreatorsFound
  <1>4. PICK d \in Creators(w, s) : {o \in Creators(w, s) : ~Mapped(w, o.owner, o.member.name)} = {d}
    BY DEF Accepted, LifecycleAccepted
  <1>5. FoundCreator(w, s) = d /\ c = d
    BY <1>1, <1>3, <1>4
  <1> QED
    BY <1>1, <1>5

(* Every generated function a class names is emitted.                      *)
LEMMA CallsEmitted ==
  ASSUME NEW w \in Worlds, Accepted(w), NEW itf, NEW e \in PropertyEntries(w, itf) \cup MethodEntries(w, itf)
  PROVE  \/ e.call[1] = "mapped" \/ e.call \in Functions(w)
         \/ e.call[1] = "create" /\ ~CreatorsFound(w)
  <1>1. CASE \E x : e = Entry(x, "extra", Body("mapped", itf, x))
    BY <1>1 DEF Entry, Body
  <1>2. ASSUME NEW x \in w.policy.extensionMethods, x.interface = itf,
               e = Entry(x.member, "extension", Body("extension", itf, x.member))
        PROVE  e.call \in Functions(w)
    <2>1. Body("extension", itf, x.member) \in {Body("extension", y.interface, y.member) : y \in w.policy.extensionMethods}
      BY <1>2
    <2>2. e.call \in {Body("extension", y.interface, y.member) : y \in w.policy.extensionMethods}
      BY <1>2, <2>1 DEF Entry
    <2> QED
      BY <2>2 DEF Functions
  <1>3. ASSUME NEW m \in Joined(w, itf), m.kind = "attribute", e = Entry(m.name, "selected", PropertyCall(w, itf, m))
        PROVE  e.call[1] = "mapped" \/ e.call \in Functions(w)
    <2>1. e.call = PropertyCall(w, itf, m) /\ e.call[1] # "panic"
      BY <1>3, NoPanic DEF Entry
    <2>2. CASE m.name = "label" /\ itf \in w.policy.standard
      <3>1. "label" \in SelectedOf(w, itf)
        BY <2>2, JoinedOf
      <3>2. Body("label", itf, "label") \in Functions(w)
        BY <2>2, <3>1 DEF Functions
      <3> QED
        BY <2>1, <2>2, <3>2 DEF PropertyCall
    <2>3. CASE m.name # "label" /\ itf \in w.policy.standard /\ ~Property(w, itf, m.name)
      <3>1. m.native
        <4>1. PropertyCovered(w, itf, m)
          BY <1>3, JoinedOf
        <4>2. Property(w, itf, m.name) \in BOOLEAN
          BY DEF Property
        <4> QED
          BY <2>3, <4>1, <4>2, OneOfThree DEF PropertyCovered
      <3>2. Body("native", itf, m.name) \in Functions(w)
        <4>1. m \in {x \in Joined(w, itf) : x.kind = "attribute" /\ x.name # "label" /\ x.native}
          BY <1>3, <2>3, <3>1
        <4> QED
          BY <2>3, <4>1 DEF Functions
      <3> QED
        BY <2>1, <2>3, <3>2 DEF PropertyCall
    <2>4. CASE Property(w, itf, m.name)
      BY <2>1, <2>2, <2>4 DEF PropertyCall, Body
    <2> QED
      BY <2>1, <2>2, <2>3, <2>4 DEF PropertyCall, Body
  <1>4. ASSUME NEW m \in Joined(w, itf), m.kind = "operation", e = Entry(m.name, "selected", MethodCall(w, itf, m))
        PROVE  \/ e.call[1] = "mapped" \/ e.call \in Functions(w)
               \/ e.call[1] = "create" /\ ~CreatorsFound(w)
    <2>1. e.call = MethodCall(w, itf, m) /\ e.call[1] # "panic"
      BY <1>4, NoPanic DEF Entry
    <2>2. CASE Mapped(w, itf, m.name)
      BY <2>1, <2>2 DEF MethodCall, Body
    <2>3. ASSUME ~Mapped(w, itf, m.name), NEW s \in m.returns \cap w.policy.standard, CreatorsFound(w)
          PROVE  e.call \in Functions(w)
      <3>1. FoundCreator(w, s).owner = itf /\ FoundCreator(w, s).member.name = m.name
        BY <1>4, <2>3, FoundIsGenerated
      <3>2. Body("create", itf, m.name) \in Functions(w)
        BY <2>3, <3>1 DEF Functions
      <3> QED
        BY <2>1, <2>3, <3>2 DEF MethodCall
    <2> QED
      BY <2>1, <2>2, <2>3 DEF MethodCall, Body
  <1> QED
    BY <1>1, <1>2, <1>3, <1>4 DEF PropertyEntries, MethodEntries

(* A selected member has one entry in its class, an omitted one none.      *)
LEMMA OneEntry ==
  ASSUME NEW w \in Worlds, Accepted(w), NEW itf, NEW name \in SelectedOf(w, itf)
  PROVE  LET all == PropertyEntries(w, itf) \cup MethodEntries(w, itf)
         IN  Cardinality({e \in all : e.name = name}) = (IF Omitted(w, itf, name) THEN 0 ELSE 1)
  <1> DEFINE all == PropertyEntries(w, itf) \cup MethodEntries(w, itf)
             own == {e \in all : e.name = name}
  <1>1. PICK m \in Joined(w, itf) : m.name = name
    BY SelectedJoined
  <1>2. \A x \in Joined(w, itf) : x.name = name => x = m
    BY <1>1, JoinedOf, NamesDiffer
  <1>3. \A x \in w.policy.extensionMethods : x.interface = itf => x.member # name
    <2>1. name \in Names(w.members[itf])
      BY <1>1, JoinedOf DEF Names
    <2> QED
      BY <2>1 DEF Accepted, PolicyAccepted, ExtensionsNew
  <1>4. ASSUME NEW e \in own
        PROVE  \/ m.kind = "attribute" /\ e = Entry(name, "selected", PropertyCall(w, itf, m))
               \/ m.kind = "operation" /\ ~Omitted(w, itf, name) /\ e = Entry(name, "selected", MethodCall(w, itf, m))
    <2>1. ASSUME NEW x \in {y \in Joined(w, itf) : y.kind = "attribute"}, e = Entry(x.name, "selected", PropertyCall(w, itf, x))
          PROVE  m.kind = "attribute" /\ e = Entry(name, "selected", PropertyCall(w, itf, m))
      <3>1. x.name = name
        BY <2>1 DEF Entry
      <3> QED
        BY <1>1, <1>2, <2>1, <3>1
    <2>2. ASSUME NEW x \in {y \in Joined(w, itf) : y.kind = "operation" /\ ~Omitted(w, itf, y.name)},
                 e = Entry(x.name, "selected", MethodCall(w, itf, x))
          PROVE  m.kind = "operation" /\ ~Omitted(w, itf, name) /\ e = Entry(name, "selected", MethodCall(w, itf, m))
      <3>1. x.name = name
        BY <2>2 DEF Entry
      <3> QED
        BY <1>1, <1>2, <2>2, <3>1
    <2>3. ASSUME NEW x, x.member \notin SelectedOf(w, itf), e = Entry(x.member, "extra", Body("mapped", itf, x.member))
          PROVE  FALSE
      BY <2>3 DEF Entry
    <2>4. ASSUME NEW x \in w.policy.extensionMethods, x.interface = itf,
                 e = Entry(x.member, "extension", Body("extension", itf, x.member))
          PROVE  FALSE
      BY <1>3, <2>4 DEF Entry
    <2> QED
      BY <2>1, <2>2, <2>3, <2>4 DEF PropertyEntries, MethodEntries
  <1>5. CASE m.kind = "attribute"
    <2>1. ~Omitted(w, itf, name)
      <3> SUFFICES ASSUME Omitted(w, itf, name) PROVE FALSE
        OBVIOUS
      <3>1. name \in Operations(w, itf)
        BY DEF Omitted, Key, Accepted, PolicyAccepted, MappingsOnClasses
      <3>2. PICK x \in w.members[itf] : x.kind = "operation" /\ x.name = name
        BY <3>1 DEF Operations
      <3>3. x = m
        BY <1>1, <3>2, JoinedOf, NamesDiffer
      <3> QED
        BY <1>5, <3>2, <3>3
    <2>2. Entry(name, "selected", PropertyCall(w, itf, m)) \in own
      BY <1>1, <1>5 DEF PropertyEntries, Entry
    <2>3. own = {Entry(name, "selected", PropertyCall(w, itf, m))}
      BY <1>4, <1>5, <2>2
    <2> QED
      BY <2>1, <2>3, FS_Singleton
  <1>6. CASE m.kind = "operation" /\ ~Omitted(w, itf, name)
    <2>1. Entry(name, "selected", MethodCall(w, itf, m)) \in own
      BY <1>1, <1>6 DEF MethodEntries, Entry
    <2>2. own = {Entry(name, "selected", MethodCall(w, itf, m))}
      BY <1>4, <1>6, <2>1
    <2> QED
      BY <1>6, <2>2, FS_Singleton
  <1>7. CASE m.kind = "operation" /\ Omitted(w, itf, name)
    <2>1. own = {}
      BY <1>4, <1>7
    <2> QED
      BY <1>7, <2>1, FS_EmptySet
  <1> QED
    BY <1>1, <1>5, <1>6, <1>7, JoinedOf

(* What a stage has gone through: the policy once it is joined, the        *)
(* lifecycle policy once retention is derived.                             *)
Went ==
  /\ world \in Worlds
  /\ stage \notin {"policy", "rejected"} => PolicyAccepted(world)
  /\ stage \in {"plan", "emit", "emitted"} => LifecycleAccepted(world)
  /\ stage = "emitted" => emitted = [functions |-> Functions(world), classes |-> Classes(world)]

LEMMA WentAlways == GeneratorSpec => []Went
  <1>1. GeneratorInit => Went
    BY DEF GeneratorInit, Went
  <1>2. Went /\ [GeneratorNext]_generatorVars => Went'
    <2> SUFFICES ASSUME Went, [GeneratorNext]_generatorVars PROVE Went'
      OBVIOUS
    <2>1. world' = world
      BY DEF GeneratorNext, generatorVars, ValidatePolicy, FollowIdl, TurnToC, FollowC, BuildReport,
             ValidateLifecycle, DeriveRetention, EmitClasses
    <2>2. CASE ValidatePolicy
      BY <2>1, <2>2 DEF ValidatePolicy, Went
    <2>3. CASE FollowIdl \/ TurnToC \/ FollowC \/ BuildReport
      BY <2>1, <2>3 DEF FollowIdl, TurnToC, FollowC, BuildReport, Went
    <2>4. CASE ValidateLifecycle
      BY <2>1, <2>4 DEF ValidateLifecycle, Went
    <2>5. CASE DeriveRetention
      BY <2>1, <2>5 DEF DeriveRetention, Went
    <2>6. CASE EmitClasses
      BY <2>1, <2>6 DEF EmitClasses, Went
    <2>7. CASE UNCHANGED generatorVars
      BY <2>7 DEF generatorVars, Went
    <2> QED
      BY <2>2, <2>3, <2>4, <2>5, <2>6, <2>7 DEF GeneratorNext
  <1> QED
    BY <1>1, <1>2, PTL DEF GeneratorSpec

(* For every input, what the lifecycle pass accepts it can emit: validation *)
(* counts the bodies of each member, the emitter picks one, and the two     *)
(* agree.                                                                   *)
THEOREM AcceptedIsEmittedWhole == GeneratorSpec => []EmittedWhole
  <1>1. Went => EmittedWhole
    <2> SUFFICES ASSUME Went, stage = "emitted", NEW itf \in DOMAIN emitted.classes
                 PROVE  LET all == emitted.classes[itf].properties \cup emitted.classes[itf].methods
                        IN  /\ \A e \in all : e.call[1] # "panic"
                            /\ \A e \in all : \/ e.call[1] = "mapped" \/ e.call \in emitted.functions
                                              \/ e.call[1] = "create" /\ ~CreatorsFound(world)
                            /\ \A m \in SelectedOf(world, itf) :
                                 Cardinality({e \in all : e.name = m}) = (IF Omitted(world, itf, m) THEN 0 ELSE 1)
      BY DEF EmittedWhole
    <2>1. world \in Worlds /\ Accepted(world) /\ emitted = [functions |-> Functions(world), classes |-> Classes(world)]
      BY DEF Went, Accepted
    <2>2. /\ emitted.functions = Functions(world)
          /\ emitted.classes[itf].properties = PropertyEntries(world, itf)
          /\ emitted.classes[itf].methods = MethodEntries(world, itf)
      BY <2>1 DEF Classes
    <2>3. \A m \in SelectedOf(world, itf) :
            Cardinality({e \in PropertyEntries(world, itf) \cup MethodEntries(world, itf) : e.name = m})
              = (IF Omitted(world, itf, m) THEN 0 ELSE 1)
      BY <2>1, OneEntry
    <2> QED
      BY <2>1, <2>2, <2>3, NoPanic, CallsEmitted
  <1> QED
    BY <1>1, WentAlways, PTL

(***************************************************************************)
(* The join.                                                               *)
(***************************************************************************)
Reported(w, idl, c) == JoinTypes(w, idl, c) \cup UNION {JoinInterface(w, itf) : itf \in Selected(w)}

(* What a walk has found and what it has still to look at hold the roots   *)
(* and all they name.                                                      *)
IdlFollowed(w, found, rest) ==
  IdlRoots(w) \subseteq found \cup rest /\ \A t \in found : IdlNext(w, t) \subseteq found \cup rest
CFollowed(w, found, rest) ==
  CRoots(w) \subseteq found \cup rest /\ \A t \in found : CNext(w, t) \subseteq found \cup rest

WalkInv ==
  /\ stage = "policy" => idlTypes = {} /\ cTypes = {} /\ report = {}
  /\ stage = "idl types" => IdlFollowed(world, idlTypes, pending) /\ cTypes = {} /\ report = {}
  /\ stage = "c types" => IdlFollowed(world, idlTypes, {}) /\ CFollowed(world, cTypes, pending) /\ report = {}
  /\ report # {} => /\ report = Reported(world, idlTypes, cTypes) /\ PolicyAccepted(world)
                    /\ IdlFollowed(world, idlTypes, {}) /\ CFollowed(world, cTypes, {})

LEMMA WalkAlways == GeneratorSpec => []WalkInv
  <1>1. GeneratorInit => WalkInv
    BY DEF GeneratorInit, WalkInv
  <1>2. Went /\ WalkInv /\ [GeneratorNext]_generatorVars => WalkInv'
    <2> SUFFICES ASSUME Went, WalkInv, [GeneratorNext]_generatorVars PROVE WalkInv'
      OBVIOUS
    <2>1. world' = world
      BY DEF GeneratorNext, generatorVars, ValidatePolicy, FollowIdl, TurnToC, FollowC, BuildReport,
             ValidateLifecycle, DeriveRetention, EmitClasses
    <2>2. CASE ValidatePolicy
      BY <2>1, <2>2 DEF ValidatePolicy, WalkInv, IdlFollowed
    <2>3. CASE FollowIdl
      <3>1. FirstOf(pending) \in pending
        BY <2>3 DEF FollowIdl, FirstOf
      <3>2. IdlFollowed(world, idlTypes, pending)
        BY <2>3 DEF FollowIdl, WalkInv
      <3> DEFINE t == FirstOf(pending)
      <3>3. idlTypes' = idlTypes \cup {t} /\ pending' = (pending \cup IdlNext(world, t)) \ idlTypes'
        BY <2>3 DEF FollowIdl
      <3> HIDE DEF t
      <3>4. IdlFollowed(world, idlTypes', pending')
        BY <3>2, <3>3 DEF IdlFollowed
      <3> QED
        BY <2>1, <2>3, <3>4 DEF FollowIdl, WalkInv
    <2>4. CASE TurnToC
      BY <2>1, <2>4 DEF TurnToC, WalkInv, CFollowed
    <2>5. CASE FollowC
      <3>1. FirstOf(pending) \in pending
        BY <2>5 DEF FollowC, FirstOf
      <3>2. CFollowed(world, cTypes, pending)
        BY <2>5 DEF FollowC, WalkInv
      <3> DEFINE t == FirstOf(pending)
      <3>3. cTypes' = cTypes \cup {t} /\ pending' = (pending \cup CNext(world, t)) \ cTypes'
        BY <2>5 DEF FollowC
      <3> HIDE DEF t
      <3>4. CFollowed(world, cTypes', pending')
        BY <3>2, <3>3 DEF CFollowed
      <3> QED
        BY <2>1, <2>5, <3>4 DEF FollowC, WalkInv
    <2>6. CASE BuildReport
      BY <2>1, <2>6 DEF BuildReport, WalkInv, Reported, Went
    <2>7. CASE ValidateLifecycle \/ DeriveRetention \/ EmitClasses
      BY <2>1, <2>7 DEF ValidateLifecycle, DeriveRetention, EmitClasses, WalkInv
    <2>8. CASE UNCHANGED generatorVars
      BY <2>8 DEF generatorVars, WalkInv
    <2> QED
      BY <2>2, <2>3, <2>4, <2>5, <2>6, <2>7, <2>8 DEF GeneratorNext
  <1> QED
    BY <1>1, <1>2, WentAlways, PTL DEF GeneratorSpec

(* What is reported of an interface and what of a type have different      *)
(* subjects.                                                               *)
TypeNames(w) == DOMAIN w.dicts \cup DOMAIN w.cStructs \cup w.enums \cup w.cEnums \cup DOMAIN w.alias

LEMMA SubjectOfInterface ==
  ASSUME NEW w, NEW itf, NEW r \in JoinInterface(w, itf)
  PROVE  r[2] = itf
  BY DEF JoinInterface

LEMMA SubjectOfFields ==
  ASSUME NEW w, NEW d, NEW r \in JoinFields(w, d)
  PROVE  r[2] = d
  BY DEF JoinFields

TypeJoin(w, t) ==
  IF t \in DOMAIN w.dicts
  THEN {<<"dictionary", t>>} \cup (IF t \in DOMAIN w.cStructs THEN JoinFields(w, t) ELSE {<<"idl-only", t>>})
  ELSE IF t \in w.enums
  THEN {<<"enum", t>>} \cup (IF t \in w.cEnums THEN {} ELSE {<<"idl-only", t>>})
  ELSE IF t \in DOMAIN w.alias THEN {<<"enum", t>>} ELSE {}

LEMMA JoinTypesIs ==
  ASSUME NEW w, NEW idl, NEW c, NEW r
  PROVE  r \in JoinTypes(w, idl, c) <=>
           \/ \E t \in idl : r \in TypeJoin(w, t)
           \/ \E t \in (c \cap DOMAIN w.cStructs) \ (idl \cap DOMAIN w.dicts) : r = <<"c-only", t>>
           \/ \E t \in (c \cap w.cEnums) \ (idl \cap (w.enums \cup DOMAIN w.alias)) : r = <<"c-only", t>>
  BY DEF JoinTypes, TypeJoin

LEMMA SubjectOfTypes ==
  ASSUME NEW w, NEW t, NEW r \in TypeJoin(w, t)
  PROVE  r[2] = t /\ t \in DOMAIN w.dicts \cup w.enums \cup DOMAIN w.alias
  BY SubjectOfFields DEF TypeJoin

LEMMA SubjectInTypes ==
  ASSUME NEW w, NEW idl, NEW c, NEW r \in JoinTypes(w, idl, c)
  PROVE  r[2] \in TypeNames(w)
  BY JoinTypesIs, SubjectOfTypes DEF TypeNames

LEMMA SortsDiffer ==
  ASSUME NEW w \in Worlds, PolicyAccepted(w), NEW itf \in Selected(w)
  PROVE  itf \in DOMAIN w.members /\ itf \notin TypeNames(w)
  <1>1. itf \in DOMAIN w.members
    BY DEF PolicyAccepted, SubsetKnown, Selected
  <1>2. DOMAIN w.members \cap TypeNames(w) = {}
    BY WorldsAssumption DEF WorldKnown, TypeNames
  <1> QED
    BY <1>1, <1>2

(* What the report says of an interface is what its join says.             *)
LEMMA ReportOfInterface ==
  ASSUME NEW w \in Worlds, PolicyAccepted(w), NEW idl, NEW c, NEW itf \in Selected(w), NEW r, r[2] = itf
  PROVE  r \in Reported(w, idl, c) <=> r \in JoinInterface(w, itf)
  BY SubjectOfInterface, SubjectInTypes, SortsDiffer DEF Reported

LEMMA ReportOfType ==
  ASSUME NEW w \in Worlds, PolicyAccepted(w), NEW idl, NEW c, NEW r, r[2] \in TypeNames(w)
  PROVE  r \in Reported(w, idl, c) <=> r \in JoinTypes(w, idl, c)
  BY SubjectOfInterface, SubjectInTypes, SortsDiffer DEF Reported

(* Each member of a joined interface has one outcome.                      *)
LEMMA MemberOnce ==
  ASSUME NEW w \in Worlds, NEW itf \in DOMAIN w.members \cap DOMAIN w.cObjects, NEW m \in w.members[itf]
  PROVE  Cardinality({k \in {"pair", "skip", "mismatch"} : <<k, itf, m.name>> \in JoinInterface(w, itf)}) = 1
  <1> DEFINE found   == {x \in w.members[itf] : Candidate(x) \in Names(w.cObjects[itf])}
             tag(x)  == IF x.name \in SelectedOf(w, itf) THEN "pair" ELSE "skip"
             tags    == {k \in {"pair", "skip", "mismatch"} : <<k, itf, m.name>> \in JoinInterface(w, itf)}
             tagged  == {<<tag(x), itf, x.name>> : x \in found}
             missing == {<<"mismatch", itf, x.name>> : x \in w.members[itf] \ found}
             extra   == {<<"c-only", itf, c[1], c[2]>> : c \in Names(w.cObjects[itf]) \ {Candidate(x) : x \in found}}
  <1>1. JoinInterface(w, itf) = tagged \cup missing \cup extra
    BY DEF JoinInterface
  <1>2. \A x \in w.members[itf] : x.name = m.name => x = m
    BY NamesDiffer
  <1>3. \A k \in {"pair", "skip", "mismatch"} : <<k, itf, m.name>> \notin extra
    OBVIOUS
  <1>4. CASE m \in found
    <2>1. \A k : <<k, itf, m.name>> \in tagged <=> k = tag(m)
      BY <1>2, <1>4
    <2>2. \A k : <<k, itf, m.name>> \notin missing
      BY <1>2, <1>4
    <2>3. tags = {tag(m)}
      BY <1>1, <1>3, <2>1, <2>2
    <2> QED
      BY <2>3, FS_Singleton
  <1>5. CASE m \notin found
    <2>1. \A k : <<k, itf, m.name>> \notin tagged
      BY <1>2, <1>5
    <2>2. \A k : <<k, itf, m.name>> \in missing <=> k = "mismatch"
      BY <1>2, <1>5
    <2>3. tags = {"mismatch"}
      BY <1>1, <1>3, <2>1, <2>2
    <2> QED
      BY <2>3, FS_Singleton
  <1> QED
    BY <1>4, <1>5

(* A C method is reported as C-only exactly if no member is joined with it. *)
LEMMA MethodOnce ==
  ASSUME NEW w \in Worlds, NEW itf \in DOMAIN w.members \cap DOMAIN w.cObjects, NEW c \in Names(w.cObjects[itf])
  PROVE  <<"c-only", itf, c[1], c[2]>> \in JoinInterface(w, itf) <=>
           ~\E m \in w.members[itf] : Candidate(m) = c /\ <<"mismatch", itf, m.name>> \notin JoinInterface(w, itf)
  <1> DEFINE found   == {x \in w.members[itf] : Candidate(x) \in Names(w.cObjects[itf])}
             tagged  == {<<IF x.name \in SelectedOf(w, itf) THEN "pair" ELSE "skip", itf, x.name>> : x \in found}
             missing == {<<"mismatch", itf, x.name>> : x \in w.members[itf] \ found}
             left    == Names(w.cObjects[itf]) \ {Candidate(x) : x \in found}
             extra   == {<<"c-only", itf, d[1], d[2]>> : d \in left}
  <1>1. JoinInterface(w, itf) = tagged \cup missing \cup extra
    BY DEF JoinInterface
  <1>2. \A d \in Names(w.cObjects[itf]) : d = <<d[1], d[2]>>
    BY WorldsAssumption DEF WorldKnown, Names
  <1>3. <<"c-only", itf, c[1], c[2]>> \in JoinInterface(w, itf) <=> c \in left
    <2>1. <<"c-only", itf, c[1], c[2]>> \in extra <=> c \in left
      BY <1>2
    <2>2. <<"c-only", itf, c[1], c[2]>> \notin tagged \cup missing
      OBVIOUS
    <2> QED
      BY <1>1, <2>1, <2>2
  <1>4. ASSUME NEW m \in w.members[itf], Candidate(m) = c
        PROVE  <<"mismatch", itf, m.name>> \notin JoinInterface(w, itf)
    <2>1. m \in found
      BY <1>4
    <2>2. <<"mismatch", itf, m.name>> \notin tagged \cup extra
      OBVIOUS
    <2>3. <<"mismatch", itf, m.name>> \notin missing
      BY <2>1, NamesDiffer
    <2> QED
      BY <1>1, <2>2, <2>3
  <1>5. c \in left <=> ~\E m \in w.members[itf] : Candidate(m) = c
    OBVIOUS
  <1> QED
    BY <1>3, <1>4, <1>5

(* Each field of a dictionary or of its struct has one outcome.            *)
LEMMA FieldOnce ==
  ASSUME NEW w, NEW d, NEW f \in Names(DictionaryMembers(w, d)) \cup Names(w.cStructs[d])
  PROVE  Cardinality({k \in {"pair", "mismatch", "c-only"} : <<k, d, f>> \in JoinFields(w, d)}) = 1
  <1> DEFINE idl == Names(DictionaryMembers(w, d))
             c   == Names(w.cStructs[d])
             tag == IF f \in idl THEN IF f \in c THEN "pair" ELSE "mismatch" ELSE "c-only"
             tags == {k \in {"pair", "mismatch", "c-only"} : <<k, d, f>> \in JoinFields(w, d)}
  <1>1. JoinFields(w, d) = {<<"pair", d, g>> : g \in idl \cap c} \cup {<<"mismatch", d, g>> : g \in idl \ c}
                             \cup {<<"c-only", d, g>> : g \in c \ idl}
    BY DEF JoinFields
  <1>2. f \in idl \cup c
    OBVIOUS
  <1> HIDE DEF idl, c
  <1>3. tags = {tag}
    BY <1>1, <1>2
  <1> QED
    BY <1>3, FS_Singleton

(* What the walks found is reported under its sort.                        *)
LEMMA FoundIsReported ==
  ASSUME NEW w \in Worlds, PolicyAccepted(w), NEW idl, NEW c
  PROVE  /\ \A t \in DOMAIN w.dicts : <<"dictionary", t>> \in Reported(w, idl, c) <=> t \in idl
         /\ \A t \in w.enums \cup DOMAIN w.alias : <<"enum", t>> \in Reported(w, idl, c) <=> t \in idl
         /\ \A t \in DOMAIN w.cStructs : t \in c =>
              <<"dictionary", t>> \in Reported(w, idl, c) \/ <<"c-only", t>> \in Reported(w, idl, c)
         /\ \A t \in w.cEnums : t \in c =>
              <<"enum", t>> \in Reported(w, idl, c) \/ <<"c-only", t>> \in Reported(w, idl, c)
  <1>1. \A r : r[2] \in TypeNames(w) => (r \in Reported(w, idl, c) <=> r \in JoinTypes(w, idl, c))
    BY ReportOfType
  <1>2. \A t \in DOMAIN w.dicts : t \notin w.enums \cup DOMAIN w.alias
    BY WorldsAssumption DEF WorldKnown
  <1>3. \A t \in DOMAIN w.dicts : <<"dictionary", t>> \in JoinTypes(w, idl, c) <=> t \in idl
    <2> TAKE t \in DOMAIN w.dicts
    <2>1. <<"dictionary", t>> \in TypeJoin(w, t)
      BY DEF TypeJoin
    <2> QED
      BY <2>1, JoinTypesIs, SubjectOfTypes
  <1>4. \A t \in w.enums \cup DOMAIN w.alias : <<"enum", t>> \in JoinTypes(w, idl, c) <=> t \in idl
    <2> TAKE t \in w.enums \cup DOMAIN w.alias
    <2>1. <<"enum", t>> \in TypeJoin(w, t)
      BY <1>2 DEF TypeJoin
    <2> QED
      BY <2>1, JoinTypesIs, SubjectOfTypes
  <1>5. \A t \in TypeNames(w) : <<"dictionary", t>>[2] \in TypeNames(w) /\ <<"enum", t>>[2] \in TypeNames(w)
                                  /\ <<"c-only", t>>[2] \in TypeNames(w)
    OBVIOUS
  <1>6. \A t \in DOMAIN w.cStructs \cap c : <<"c-only", t>> \in JoinTypes(w, idl, c) \/ t \in idl \cap DOMAIN w.dicts
    BY JoinTypesIs
  <1>7. \A t \in w.cEnums \cap c : <<"c-only", t>> \in JoinTypes(w, idl, c) \/ t \in idl \cap (w.enums \cup DOMAIN w.alias)
    BY JoinTypesIs
  <1>8. \A t \in DOMAIN w.dicts \cup DOMAIN w.cStructs \cup w.enums \cup w.cEnums \cup DOMAIN w.alias : t \in TypeNames(w)
    BY DEF TypeNames
  <1> QED
    BY <1>1, <1>3, <1>4, <1>5, <1>6, <1>7, <1>8

(* For every input the join loses nothing and invents nothing: however     *)
(* types name each other, both walks are closed under what a type names    *)
(* when the report is built, and each member, method, type and field has   *)
(* one outcome in it.                                                      *)
THEOREM JoinLosesNothing == GeneratorSpec => []JoinComplete
  <1>1. Went /\ WalkInv => JoinComplete
    <2> SUFFICES ASSUME Went, WalkInv, report # {} PROVE JoinComplete
      BY DEF JoinComplete
    <2> DEFINE w == world
               Rep == Reported(w, idlTypes, cTypes)
    <2>1. /\ w \in Worlds /\ PolicyAccepted(w) /\ report = Rep
          /\ IdlFollowed(w, idlTypes, {}) /\ CFollowed(w, cTypes, {})
      BY DEF Went, WalkInv
    <2>2. ASSUME NEW itf \in Selected(w) \cap DOMAIN w.cObjects
          PROVE  /\ \A m \in w.members[itf] :
                      Cardinality({k \in {"pair", "skip", "mismatch"} : <<k, itf, m.name>> \in report}) = 1
                 /\ \A c \in Names(w.cObjects[itf]) :
                      <<"c-only", itf, c[1], c[2]>> \in report <=>
                        ~\E m \in w.members[itf] : Candidate(m) = c /\ <<"mismatch", itf, m.name>> \notin report
      <3>1. itf \in DOMAIN w.members \cap DOMAIN w.cObjects
        BY <2>1, SortsDiffer
      <3>2. \A k, x : <<k, itf, x>> \in report <=> <<k, itf, x>> \in JoinInterface(w, itf)
        BY <2>1, ReportOfInterface
      <3>3. \A x, y : <<"c-only", itf, x, y>> \in report <=> <<"c-only", itf, x, y>> \in JoinInterface(w, itf)
        BY <2>1, ReportOfInterface
      <3>4. ASSUME NEW m \in w.members[itf]
            PROVE  Cardinality({k \in {"pair", "skip", "mismatch"} : <<k, itf, m.name>> \in report}) = 1
        <4>1. {k \in {"pair", "skip", "mismatch"} : <<k, itf, m.name>> \in report}
                = {k \in {"pair", "skip", "mismatch"} : <<k, itf, m.name>> \in JoinInterface(w, itf)}
          BY <3>2
        <4> QED
          BY <2>1, <3>1, <4>1, MemberOnce
      <3>5. ASSUME NEW c \in Names(w.cObjects[itf])
            PROVE  <<"c-only", itf, c[1], c[2]>> \in report <=>
                     ~\E m \in w.members[itf] : Candidate(m) = c /\ <<"mismatch", itf, m.name>> \notin report
        BY <2>1, <3>1, <3>2, <3>3, MethodOnce
      <3> QED
        BY <3>4, <3>5
    <2>3. ASSUME NEW t \in IdlRoots(w) \cup UNION {IdlNext(w, u) : u \in {x \in DOMAIN w.dicts : <<"dictionary", x>> \in report}
                                                          \cup {x \in DOMAIN w.alias : <<"enum", x>> \in report}}
          PROVE  /\ t \in DOMAIN w.dicts => <<"dictionary", t>> \in report
                 /\ t \in w.enums \cup DOMAIN w.alias => <<"enum", t>> \in report
      <3>1. \A u : u \in DOMAIN w.dicts /\ <<"dictionary", u>> \in report => u \in idlTypes
        BY <2>1, FoundIsReported
      <3>2. \A u : u \in DOMAIN w.alias /\ <<"enum", u>> \in report => u \in idlTypes
        BY <2>1, FoundIsReported
      <3>3. t \in idlTypes
        BY <2>1, <3>1, <3>2 DEF IdlFollowed
      <3> QED
        BY <2>1, <3>3, FoundIsReported
    <2>4. ASSUME NEW t \in CRoots(w) \cup UNION {(UNION {f.types : f \in w.cStructs[u]}) \cup w.cExtends[u] :
                                                  u \in cTypes \cap DOMAIN w.cStructs}
          PROVE  /\ t \in cTypes
                 /\ t \in DOMAIN w.cStructs => <<"dictionary", t>> \in report \/ <<"c-only", t>> \in report
                 /\ t \in w.cEnums => <<"enum", t>> \in report \/ <<"c-only", t>> \in report
      <3>1. \A u \in DOMAIN w.cStructs : CNext(w, u) = (UNION {f.types : f \in w.cStructs[u]}) \cup w.cExtends[u]
        BY DEF CNext
      <3>2. t \in cTypes
        BY <2>1, <3>1 DEF CFollowed
      <3> QED
        BY <2>1, <3>2, FoundIsReported
    <2>5. ASSUME NEW d \in DOMAIN w.dicts, <<"dictionary", d>> \in report, <<"idl-only", d>> \notin report,
                 NEW f \in Names(DictionaryMembers(w, d)) \cup Names(w.cStructs[d])
          PROVE  Cardinality({k \in {"pair", "mismatch", "c-only"} : <<k, d, f>> \in report}) = 1
      <3>1. d \in idlTypes
        BY <2>1, <2>5, FoundIsReported
      <3>2. \A r : r[2] = d => (r \in report <=> r \in JoinTypes(w, idlTypes, cTypes))
        BY <2>1, <2>5, ReportOfType DEF TypeNames
      <3>3. d \in DOMAIN w.cStructs
        <4> SUFFICES ASSUME d \notin DOMAIN w.cStructs PROVE FALSE
          OBVIOUS
        <4>1. <<"idl-only", d>> \in TypeJoin(w, d)
          BY <2>5 DEF TypeJoin
        <4> QED
          BY <2>5, <3>1, <3>2, <4>1, JoinTypesIs
      <3>4. \A k : <<k, d, f>> \in report <=> <<k, d, f>> \in JoinFields(w, d)
        <4>1. \A k : <<k, d, f>> \in TypeJoin(w, d) <=> <<k, d, f>> \in JoinFields(w, d)
          BY <2>5, <3>3 DEF TypeJoin
        <4>2. \A k : <<k, d, f>> \in JoinTypes(w, idlTypes, cTypes) <=> <<k, d, f>> \in TypeJoin(w, d)
          BY <3>1, JoinTypesIs, SubjectOfTypes
        <4> QED
          BY <3>2, <4>1, <4>2
      <3>5. {k \in {"pair", "mismatch", "c-only"} : <<k, d, f>> \in report}
              = {k \in {"pair", "mismatch", "c-only"} : <<k, d, f>> \in JoinFields(w, d)}
        BY <3>4
      <3> QED
        BY <3>5, FieldOnce
    <2> QED
      BY <2>2, <2>3, <2>4, <2>5 DEF JoinComplete
  <1> QED
    BY <1>1, WentAlways, WalkAlways, PTL

=============================================================================
