------------------------- MODULE EngineValues_proofs -------------------------
(***************************************************************************)
(* Proofs about EngineValues, for any wrappers, promises and bounds, and   *)
(* for each of the three engines.                                          *)
(***************************************************************************)
EXTENDS EngineValues, FiniteSetTheorems, FunctionTheorems, TLAPS

(***************************************************************************)
(* Handles, and by what an engine e counts them: Boa by slot, the others   *)
(* by cell.                                                                *)
(***************************************************************************)
Handles(e) ==
  [of : Cells, ref : IF e = "boa" THEN Nat \ {0} ELSE IF e = "jsc" THEN {0} ELSE 0 .. MaxAliases]
Maybe(e) == Handles(e) \cup {NoHandle}
Keys(e) == IF e = "boa" THEN Nat \ {0} ELSE Cells
Key(e, h) == IF e = "boa" THEN h.ref ELSE h.of
One(e, h, k) == IF Key(e, h) = k THEN 1 ELSE 0

\* The places of hs with a handle of key k, and their number.
Uses(e, hs, k) == {x \in DOMAIN hs : Key(e, hs[x]) = k}
Number(e, hs, k) == Cardinality(Uses(e, hs, k))
\* The same of what frames own.
OwnedUses(e, fs, k) ==
  {x \in UNION {{i} \X DOMAIN fs[i].owned : i \in DOMAIN fs} : Key(e, fs[x[1]].owned[x[2]]) = k}
Owned(e, fs, k) == Cardinality(OwnedUses(e, fs, k))

LEMMA NoKey ==
  ASSUME NEW e, NEW k \in Keys(e)
  PROVE  Key(e, NoHandle) # k /\ One(e, NoHandle, k) = 0
  BY EnginesAssumption DEF Keys, Key, One, NoHandle

LEMMA KeyOfHandle ==
  ASSUME NEW e, NEW h \in Handles(e)
  PROVE  Key(e, h) \in Keys(e) /\ h # NoHandle /\ One(e, h, Key(e, h)) = 1
  BY EnginesAssumption DEF Keys, Key, One, NoHandle, Handles

LEMMA UsesFinite ==
  ASSUME NEW e, NEW hs, NEW k, IsFiniteSet(DOMAIN hs)
  PROVE  IsFiniteSet(Uses(e, hs, k)) /\ Number(e, hs, k) \in Nat
  <1>1. Uses(e, hs, k) \in SUBSET DOMAIN hs
    BY DEF Uses
  <1> QED
    BY <1>1, FS_Subset, FS_CardinalityType DEF Number

(* A handle that is somewhere is counted.                                  *)
LEMMA UseCounts ==
  ASSUME NEW e, NEW hs, IsFiniteSet(DOMAIN hs), NEW x \in DOMAIN hs
  PROVE  Number(e, hs, Key(e, hs[x])) > 0
  <1> DEFINE U == Uses(e, hs, Key(e, hs[x]))
  <1>1. x \in U
    BY DEF Uses
  <1>2. IsFiniteSet(U) /\ Cardinality(U) \in Nat
    BY UsesFinite DEF Number
  <1>3. Cardinality(U) # 0
    BY <1>1, <1>2, FS_EmptySet
  <1> QED
    BY <1>2, <1>3 DEF Number

(* One place gets another handle.                                          *)
LEMMA OnePlace ==
  ASSUME NEW e, NEW f, NEW g, NEW x \in DOMAIN f, IsFiniteSet(DOMAIN f), DOMAIN g = DOMAIN f,
         \A y \in DOMAIN f \ {x} : g[y] = f[y], NEW k
  PROVE  Number(e, g, k) = Number(e, f, k) - One(e, f[x], k) + One(e, g[x], k)
  <1> DEFINE F == Uses(e, f, k)  G == Uses(e, g, k)  R == F \ {x}
  <1>1. IsFiniteSet(F) /\ IsFiniteSet(G) /\ Cardinality(F) \in Nat /\ Cardinality(G) \in Nat
    BY UsesFinite DEF Number
  <1>2. G \ {x} = R
    BY DEF Uses
  <1>3. Cardinality(R) = IF x \in F THEN Cardinality(F) - 1 ELSE Cardinality(F)
    BY <1>1, FS_RemoveElement
  <1>4. Cardinality(G \ {x}) = IF x \in G THEN Cardinality(G) - 1 ELSE Cardinality(G)
    BY <1>1, FS_RemoveElement
  <1>5. /\ One(e, f[x], k) = IF x \in F THEN 1 ELSE 0
        /\ One(e, g[x], k) = IF x \in G THEN 1 ELSE 0
    BY DEF One, Uses
  <1> HIDE DEF F, G, R
  <1>6. Cardinality(G) = Cardinality(F) - One(e, f[x], k) + One(e, g[x], k)
    BY <1>1, <1>2, <1>3, <1>4, <1>5
  <1> QED
    BY <1>6 DEF Number, F, G

(* The handles of some places go.                                          *)
LEMMA PlacesCleared ==
  ASSUME NEW e, NEW f, NEW g, NEW U \in SUBSET DOMAIN f, IsFiniteSet(DOMAIN f), DOMAIN g = DOMAIN f,
         \A y \in DOMAIN f \ U : g[y] = f[y], \A y \in U : g[y] = NoHandle, NEW k \in Keys(e)
  PROVE  /\ Number(e, [y \in U |-> f[y]], k) <= Number(e, f, k)
         /\ Number(e, g, k) = Number(e, f, k) - Number(e, [y \in U |-> f[y]], k)
  <1> DEFINE F == Uses(e, f, k)  G == Uses(e, g, k)  C == Uses(e, [y \in U |-> f[y]], k)
  <1>1. IsFiniteSet(F) /\ IsFiniteSet(G) /\ Cardinality(F) \in Nat /\ Cardinality(G) \in Nat
    BY UsesFinite DEF Number
  <1>2. C = F \cap U /\ G = F \ C /\ F \cap C = C /\ C \in SUBSET F
    BY NoKey DEF Uses
  <1>3. Cardinality(F \ C) = Cardinality(F) - Cardinality(F \cap C)
    BY <1>1, FS_Difference
  <1>4. Cardinality(C) <= Cardinality(F) /\ Cardinality(C) \in Nat
    BY <1>1, <1>2, FS_Subset, FS_CardinalityType
  <1> HIDE DEF F, G, C
  <1>5. Cardinality(G) = Cardinality(F) - Cardinality(C)
    BY <1>2, <1>3
  <1> QED
    BY <1>4, <1>5 DEF Number, F, G, C

LEMMA NumberOfNone ==
  ASSUME NEW e, NEW k
  PROVE  Number(e, <<>>, k) = 0
  BY FS_EmptySet, Uses(e, <<>>, k) = {} DEF Number, Uses

LEMMA NumberAppended ==
  ASSUME NEW e, NEW S, NEW hs \in Seq(S), NEW h \in S, NEW k
  PROVE  Number(e, Append(hs, h), k) = Number(e, hs, k) + One(e, h, k)
  <1> DEFINE F == Uses(e, hs, k)  G == Uses(e, Append(hs, h), k)  n == Len(hs) + 1
  <1>1. /\ Len(hs) \in Nat /\ DOMAIN hs = 1 .. Len(hs) /\ DOMAIN Append(hs, h) = DOMAIN hs \cup {n}
        /\ \A i \in DOMAIN hs : Append(hs, h)[i] = hs[i] /\ i # n
        /\ Append(hs, h)[n] = h
    OBVIOUS
  <1>2. IsFiniteSet(DOMAIN hs)
    BY <1>1, FS_Interval
  <1>3. IsFiniteSet(F) /\ Cardinality(F) \in Nat
    BY <1>2, UsesFinite DEF Number
  <1>4. CASE Key(e, h) = k
    <2>1. G = F \cup {n} /\ n \notin F
      BY <1>1, <1>4 DEF Uses
    <2>2. Cardinality(F \cup {n}) = Cardinality(F) + 1
      BY <1>3, <2>1, FS_AddElement
    <2> QED
      BY <1>4, <2>1, <2>2 DEF Number, One
  <1>5. CASE Key(e, h) # k
    <2>1. G = F
      BY <1>1, <1>5 DEF Uses
    <2> QED
      BY <1>3, <1>5, <2>1 DEF Number, One
  <1> QED
    BY <1>4, <1>5

LEMMA NumberOfOne ==
  ASSUME NEW e, NEW h, NEW k
  PROVE  Number(e, <<h>>, k) = One(e, h, k)
  <1>1. CASE Key(e, h) = k
    <2>1. Uses(e, <<h>>, k) = {1}
      BY <1>1 DEF Uses
    <2> QED
      BY <1>1, <2>1, FS_Singleton DEF Number, One
  <1>2. CASE Key(e, h) # k
    <2>1. Uses(e, <<h>>, k) = {}
      BY <1>2 DEF Uses
    <2> QED
      BY <1>2, <2>1, FS_EmptySet DEF Number, One
  <1> QED
    BY <1>1, <1>2

LEMMA NumberOfPair ==
  ASSUME NEW e, NEW o, DOMAIN o = {1, 2}, NEW k
  PROVE  Number(e, o, k) = One(e, o[1], k) + One(e, o[2], k)
  <1> DEFINE F == {i \in {1} : Key(e, o[1]) = k}  G == Uses(e, o, k)
  <1>1. G = F \cup {i \in {2} : Key(e, o[2]) = k}
    BY DEF Uses
  <1>2. IsFiniteSet(F) /\ Cardinality(F) = One(e, o[1], k)
    <2>1. CASE Key(e, o[1]) = k
      BY <2>1, FS_Singleton, F = {1} DEF One
    <2>2. CASE Key(e, o[1]) # k
      BY <2>2, FS_EmptySet, F = {} DEF One
    <2> QED
      BY <2>1, <2>2
  <1>3. CASE Key(e, o[2]) = k
    <2>1. G = F \cup {2} /\ 2 \notin F
      BY <1>1, <1>3
    <2>2. Cardinality(F \cup {2}) = Cardinality(F) + 1
      BY <1>2, <2>1, FS_AddElement
    <2> QED
      BY <1>2, <1>3, <2>1, <2>2 DEF Number, One
  <1>4. CASE Key(e, o[2]) # k
    <2>1. G = F
      BY <1>1, <1>4
    <2> QED
      BY <1>2, <1>4, <2>1 DEF Number, One
  <1> QED
    BY <1>3, <1>4

LEMMA NumberOfTwo ==
  ASSUME NEW e, NEW h, NEW g, NEW k
  PROVE  Number(e, <<h, g>>, k) = One(e, h, k) + One(e, g, k)
  <1>1. DOMAIN <<h, g>> = {1, 2} /\ <<h, g>>[1] = h /\ <<h, g>>[2] = g
    OBVIOUS
  <1> QED
    BY <1>1, NumberOfPair

(***************************************************************************)
(* What the frames of a sequence own.                                      *)
(***************************************************************************)
FiniteFrames(fs, n) ==
  n \in Nat /\ DOMAIN fs = 1 .. n /\ \A i \in 1 .. n : IsFiniteSet(DOMAIN fs[i].owned)

LEMMA OwnedFinite ==
  ASSUME NEW e, NEW fs, NEW n, FiniteFrames(fs, n), NEW k
  PROVE  IsFiniteSet(OwnedUses(e, fs, k)) /\ Owned(e, fs, k) \in Nat
  <1> DEFINE row == [i \in 1 .. n |-> {i} \X DOMAIN fs[i].owned]
             rows == {{i} \X DOMAIN fs[i].owned : i \in DOMAIN fs}
  <1>1. n \in Nat /\ DOMAIN fs = 1 .. n /\ \A i \in 1 .. n : IsFiniteSet(DOMAIN fs[i].owned)
    BY DEF FiniteFrames
  <1>2. IsFiniteSet(1 .. n)
    BY <1>1, FS_Interval
  <1>3. row \in Surjection(1 .. n, rows)
    BY <1>1 DEF Surjection
  <1>4. IsFiniteSet(rows)
    BY <1>2, <1>3, FS_Surjection
  <1>5. ASSUME NEW i \in 1 .. n
        PROVE  IsFiniteSet({i} \X DOMAIN fs[i].owned)
    BY <1>1, FS_Product, FS_Singleton
  <1>6. IsFiniteSet(UNION rows)
    BY <1>1, <1>4, <1>5, FS_UNION
  <1>7. OwnedUses(e, fs, k) \in SUBSET UNION rows
    BY DEF OwnedUses
  <1> QED
    BY <1>6, <1>7, FS_Subset, FS_CardinalityType DEF Owned

LEMMA RowCounted ==
  ASSUME NEW n, NEW S, IsFiniteSet(S)
  PROVE  IsFiniteSet({n} \X S) /\ Cardinality({n} \X S) = Cardinality(S)
  <1>1. IsFiniteSet({n}) /\ Cardinality({n}) = 1 /\ Cardinality(S) \in Nat
    BY FS_Singleton, FS_CardinalityType
  <1>2. IsFiniteSet({n} \X S) /\ Cardinality({n} \X S) = Cardinality({n}) * Cardinality(S)
    BY <1>1, FS_Product
  <1>3. 1 * Cardinality(S) = Cardinality(S)
    BY <1>1
  <1> QED
    BY <1>1, <1>2, <1>3

(* One frame more.                                                         *)
LEMMA OwnedByOneMore ==
  ASSUME NEW e, NEW fs, NEW gs, NEW n, FiniteFrames(fs, n), FiniteFrames(gs, n + 1),
         \A i \in 1 .. n : gs[i].owned = fs[i].owned, NEW k
  PROVE  Owned(e, gs, k) = Owned(e, fs, k) + Number(e, gs[n + 1].owned, k)
  <1> DEFINE F == OwnedUses(e, fs, k)  G == OwnedUses(e, gs, k)  top == gs[n + 1].owned
             U == Uses(e, top, k)
  <1>1. /\ n \in Nat /\ DOMAIN fs = 1 .. n /\ DOMAIN gs = 1 .. (n + 1) /\ IsFiniteSet(DOMAIN top)
        /\ n + 1 \notin 1 .. n /\ 1 .. (n + 1) = (1 .. n) \cup {n + 1}
    BY DEF FiniteFrames
  <1>2. IsFiniteSet(F) /\ IsFiniteSet(U) /\ Cardinality(F) \in Nat /\ Cardinality(U) \in Nat
    BY <1>1, OwnedFinite, UsesFinite DEF Owned, Number
  <1>3. IsFiniteSet({n + 1} \X U) /\ Cardinality({n + 1} \X U) = Cardinality(U)
    BY <1>2, RowCounted
  <1>4. \A x : x \in F <=> \E i \in 1 .. n : \E j \in DOMAIN fs[i].owned : x = <<i, j>> /\ Key(e, fs[i].owned[j]) = k
    BY <1>1 DEF OwnedUses
  <1>5. \A x : x \in G <=> \E i \in 1 .. (n + 1) : \E j \in DOMAIN gs[i].owned :
                                x = <<i, j>> /\ Key(e, gs[i].owned[j]) = k
    BY <1>1 DEF OwnedUses
  <1>6. \A x : x \in {n + 1} \X U <=> \E j \in DOMAIN top : x = <<n + 1, j>> /\ Key(e, top[j]) = k
    BY DEF Uses
  <1>7. G = F \cup ({n + 1} \X U)
    BY <1>1, <1>4, <1>5, <1>6
  <1>8. F \cap ({n + 1} \X U) = {}
    BY <1>1, <1>4, <1>6
  <1> HIDE DEF F, G, U
  <1>9. Cardinality(G) = Cardinality(F) + Cardinality({n + 1} \X U) - Cardinality(F \cap ({n + 1} \X U))
    BY <1>2, <1>3, <1>7, FS_Union
  <1>10. Cardinality(F \cap ({n + 1} \X U)) = 0
    BY <1>8, FS_EmptySet
  <1>11. Cardinality(G) = Cardinality(F) + Cardinality(U)
    BY <1>2, <1>3, <1>9, <1>10
  <1> QED
    BY <1>11 DEF F, G, U, Owned, Number

(* The frame on top changes.                                               *)
LEMMA OwnedByTop ==
  ASSUME NEW e, NEW fs, NEW gs, NEW n, n > 0, FiniteFrames(fs, n), FiniteFrames(gs, n),
         \A i \in 1 .. n : i # n => gs[i].owned = fs[i].owned, NEW k
  PROVE  Owned(e, gs, k) = Owned(e, fs, k) - Number(e, fs[n].owned, k) + Number(e, gs[n].owned, k)
  <1> DEFINE m == n - 1  rs == [i \in 1 .. m |-> fs[i]]
  <1>1. n \in Nat /\ m \in Nat /\ n = m + 1 /\ \A i \in 1 .. m : i \in 1 .. n /\ i # n
    BY DEF FiniteFrames
  <1>2. FiniteFrames(rs, m)
    BY <1>1 DEF FiniteFrames
  <1>3. /\ Owned(e, fs, k) = Owned(e, rs, k) + Number(e, fs[m + 1].owned, k)
        /\ Owned(e, gs, k) = Owned(e, rs, k) + Number(e, gs[m + 1].owned, k)
    <2>1. FiniteFrames(fs, m + 1) /\ FiniteFrames(gs, m + 1)
      BY <1>1
    <2>2. \A i \in 1 .. m : fs[i].owned = rs[i].owned /\ gs[i].owned = rs[i].owned
      BY <1>1
    <2> HIDE DEF m, rs
    <2> QED
      BY <1>2, <2>1, <2>2, OwnedByOneMore
  <1>4. Owned(e, rs, k) \in Nat /\ Number(e, fs[n].owned, k) \in Nat /\ Number(e, gs[n].owned, k) \in Nat
    <2>1. Owned(e, rs, k) \in Nat
      BY <1>2, OwnedFinite
    <2>2. n \in 1 .. n /\ IsFiniteSet(DOMAIN fs[n].owned) /\ IsFiniteSet(DOMAIN gs[n].owned)
      BY <1>1 DEF FiniteFrames
    <2> QED
      BY <2>1, <2>2, UsesFinite
  <1>5. fs[m + 1] = fs[n] /\ gs[m + 1] = gs[n]
    BY <1>1
  <1> HIDE DEF m, rs
  <1> QED
    BY <1>3, <1>4, <1>5

LEMMA OwnedByNone ==
  ASSUME NEW e, NEW k
  PROVE  Owned(e, <<>>, k) = 0
  BY FS_EmptySet, OwnedUses(e, <<>>, k) = {} DEF Owned, OwnedUses

(* A handle that a frame owns is counted.                                  *)
LEMMA OwnedCounts ==
  ASSUME NEW e, NEW fs, NEW n, FiniteFrames(fs, n), NEW i \in 1 .. n, NEW j \in DOMAIN fs[i].owned
  PROVE  Owned(e, fs, Key(e, fs[i].owned[j])) > 0
  <1> DEFINE U == OwnedUses(e, fs, Key(e, fs[i].owned[j]))
  <1>1. <<i, j>> \in U
    BY DEF OwnedUses, FiniteFrames
  <1>2. IsFiniteSet(U) /\ Cardinality(U) \in Nat
    BY OwnedFinite DEF Owned
  <1>3. Cardinality(U) # 0
    BY <1>1, <1>2, FS_EmptySet
  <1> QED
    BY <1>2, <1>3 DEF Owned

(***************************************************************************)
(* The stores of the engines: their shape, how often a key is held, which  *)
(* handles read what they were issued for.                                 *)
(***************************************************************************)
Slots == [cell : Cells \cup {None}, refs : Nat]
BoaStore(s) ==
  /\ s = [slots |-> s.slots, free |-> s.free] /\ s.slots \in Seq(Slots)
  /\ \A i : i \in s.free <=> i \in DOMAIN s.slots /\ s.slots[i].refs = 0
  /\ \A i \in DOMAIN s.slots : s.slots[i].cell = None <=> s.slots[i].refs = 0
JscStore(s) ==
  s \in [protected : [Cells -> Nat], methods : [Cells -> Nat], deferred : [Cells -> Nat], tearing : BOOLEAN]
MockStore(s) == s \in [dups : [Cells -> Nat], aliases : SUBSET (1 .. MaxAliases), panicked : BOOLEAN]
Store(e, s) ==
  (e = "boa" => BoaStore(s)) /\ (e = "jsc" => JscStore(s)) /\ (e = "mock" => MockStore(s))

Weight(e, s, k) ==
  IF e = "boa" THEN IF k \in DOMAIN s.slots THEN s.slots[k].refs ELSE 0
  ELSE IF e = "jsc" THEN s.protected[k] ELSE s.dups[k]

Valid(e, s, h) ==
  /\ h \in Handles(e)
  /\ e = "boa" => h.ref \in DOMAIN s.slots /\ s.slots[h.ref].cell = h.of
  /\ e = "mock" => h.ref = 0 \/ h.ref \in s.aliases

\* Between s and t no handle loses its cell that is held still, and only the cells cs get roots.
Keeps(e, s, t) == \A h : Valid(e, s, h) /\ Weight(e, t, Key(e, h)) > 0 => Valid(e, t, h)
Adds(e, s, t, cs) ==
  /\ e = "boa" => \A i \in DOMAIN t.slots :
                    \/ t.slots[i].cell \in cs \cup {None}
                    \/ i \in DOMAIN s.slots /\ t.slots[i].cell = s.slots[i].cell
  /\ e = "jsc" => \A c \in Cells : t.protected[c] > 0 => c \in cs \/ s.protected[c] > 0
OtherwiseSame(e, s, t) ==
  e = "jsc" => t.methods = s.methods /\ t.deferred = s.deferred /\ t.tearing = s.tearing
Moves(e, s, t, cs) == Store(e, t) /\ Keeps(e, s, t) /\ Adds(e, s, t, cs) /\ OtherwiseSame(e, s, t)

LEMMA SlotShape ==
  ASSUME NEW x \in Slots
  PROVE  x.refs \in Nat /\ x.cell \in Cells \cup {None}
  BY DEF Slots

LEMMA BoaShape ==
  ASSUME NEW s, Store("boa", s)
  PROVE  /\ s.slots \in Seq(Slots)
         /\ Len(s.slots) \in Nat /\ DOMAIN s.slots = 1 .. Len(s.slots)
         /\ \A j : j \in s.free <=> j \in DOMAIN s.slots /\ s.slots[j].refs = 0
         /\ \A j \in DOMAIN s.slots : /\ s.slots[j] \in Slots /\ s.slots[j].refs \in Nat
                                      /\ s.slots[j].cell \in Cells \cup {None}
                                      /\ s.slots[j].cell = None <=> s.slots[j].refs = 0
  <1>1. BoaStore(s)
    BY DEF Store
  <1>2. \A j \in DOMAIN s.slots : s.slots[j] \in Slots
    BY <1>1 DEF BoaStore
  <1> QED
    BY <1>1, <1>2, SlotShape DEF BoaStore

LEMMA WeightIsNat ==
  ASSUME NEW e \in {"boa", "jsc", "mock"}, NEW s, Store(e, s), NEW k \in Keys(e)
  PROVE  Weight(e, s, k) \in Nat
  <1>1. CASE e = "boa"
    BY <1>1, BoaShape DEF Weight
  <1>2. CASE e = "jsc"
    BY <1>2 DEF Weight, Store, JscStore, Keys
  <1>3. CASE e = "mock"
    BY <1>3 DEF Weight, Store, MockStore, Keys
  <1> QED
    BY <1>1, <1>2, <1>3

(* A slot a valid handle reads is held.                                    *)
LEMMA ValidIsHeld ==
  ASSUME NEW s, Store("boa", s), NEW h, Valid("boa", s, h)
  PROVE  Weight("boa", s, Key("boa", h)) > 0
  <1>1. /\ h.ref \in DOMAIN s.slots /\ s.slots[h.ref].cell = h.of /\ h.of \in Cells
        /\ s.slots[h.ref].refs \in Nat
        /\ s.slots[h.ref].cell = None <=> s.slots[h.ref].refs = 0
    BY BoaShape DEF Valid, Handles
  <1> QED
    BY <1>1, EnginesAssumption DEF Weight, Key

(* Boa: a value is inserted.                                               *)
LEMMA BoaInsert ==
  ASSUME NEW s, Store("boa", s), NEW c \in Cells
  PROVE  LET t == B!Insert(s, c)  h == [of |-> c, ref |-> B!Index(s)] IN
         /\ Moves("boa", s, t, {c})
         /\ Valid("boa", t, h)
         /\ \A g : Valid("boa", s, g) => Valid("boa", t, g)
         /\ \A k \in Keys("boa") : Weight("boa", t, k) = Weight("boa", s, k) + One("boa", h, k)
  <1> DEFINE t == B!Insert(s, c)  i == B!Index(s)  h == [of |-> c, ref |-> i]
             slot == [cell |-> c, refs |-> 1]
  <1>1. /\ s.slots \in Seq(Slots) /\ Len(s.slots) \in Nat /\ DOMAIN s.slots = 1 .. Len(s.slots)
        /\ \A j : j \in s.free <=> j \in DOMAIN s.slots /\ s.slots[j].refs = 0
        /\ \A j \in DOMAIN s.slots : /\ s.slots[j].cell = None <=> s.slots[j].refs = 0
                                     /\ s.slots[j].refs \in Nat /\ s.slots[j] \in Slots
    BY BoaShape
  <1>0. slot \in Slots /\ c # None /\ slot.cell = c /\ slot.refs = 1
    BY EnginesAssumption DEF Slots
  <1>2. /\ i \in Nat \ {0} /\ (i \notin DOMAIN s.slots \/ s.slots[i].refs = 0)
        /\ DOMAIN t.slots = DOMAIN s.slots \cup {i}
        /\ t.slots[i] = slot /\ \A j \in DOMAIN s.slots \ {i} : t.slots[j] = s.slots[j]
        /\ t.slots \in Seq(Slots) /\ t.free = s.free \ {i} /\ t = [slots |-> t.slots, free |-> t.free]
    <2>1. CASE s.free = {}
      <3>1. i = Len(s.slots) + 1 /\ t = [s EXCEPT !.slots = Append(@, slot)]
        BY <2>1 DEF B!Insert, B!Index
      <3>2. t = [slots |-> Append(s.slots, slot), free |-> s.free]
        BY <3>1 DEF Store, BoaStore
      <3>3. t.slots = Append(s.slots, slot) /\ t.free = s.free
        BY <3>2
      <3> HIDE DEF t, i, slot
      <3>4. /\ i \in Nat \ {0} /\ i \notin DOMAIN s.slots /\ DOMAIN t.slots = DOMAIN s.slots \cup {i}
            /\ t.slots[i] = slot /\ \A j \in DOMAIN s.slots : t.slots[j] = s.slots[j]
            /\ t.slots \in Seq(Slots)
        BY <1>0, <1>1, <3>1, <3>3
      <3> QED
        BY <2>1, <3>2, <3>3, <3>4
    <2>2. CASE s.free # {}
      <3>1. i \in s.free
        BY <2>2 DEF B!Index
      <3>2. t = [slots |-> [s.slots EXCEPT ![i] = slot], free |-> s.free \ {i}]
        BY <2>2 DEF B!Insert
      <3> HIDE DEF t, i, slot
      <3> QED
        BY <1>0, <1>1, <3>1, <3>2
    <2> QED
      BY <2>1, <2>2
  <1> HIDE DEF t, i
  <1>3. Store("boa", t)
    BY <1>0, <1>1, <1>2 DEF Store, BoaStore
  <1>4. \A g : Valid("boa", s, g) => Valid("boa", t, g)
    BY <1>0, <1>1, <1>2, EnginesAssumption DEF Valid, Handles
  <1>5. Adds("boa", s, t, {c})
    BY <1>0, <1>2 DEF Adds
  <1>6. \A k \in Keys("boa") : Weight("boa", t, k) = Weight("boa", s, k) + One("boa", h, k)
    BY <1>0, <1>1, <1>2 DEF Weight, One, Key, Keys
  <1>7. Valid("boa", t, h)
    BY <1>0, <1>2 DEF Valid, Handles
  <1>8. Moves("boa", s, t, {c})
    BY <1>3, <1>4, <1>5 DEF Moves, Keeps, OtherwiseSame
  <1> QED
    BY <1>4, <1>6, <1>7, <1>8 DEF t, i

LEMMA BoaDuplicate ==
  ASSUME NEW s, Store("boa", s), NEW h, Valid("boa", s, h)
  PROVE  LET t == B!Duplicate(s, h) IN
         /\ Moves("boa", s, t, {})
         /\ \A g : Valid("boa", s, g) => Valid("boa", t, g)
         /\ \A k \in Keys("boa") : Weight("boa", t, k) = Weight("boa", s, k) + One("boa", h, k)
  <1> DEFINE t == B!Duplicate(s, h)  i == h.ref
  <1>1. /\ s.slots \in Seq(Slots) /\ DOMAIN s.slots = 1 .. Len(s.slots) /\ Len(s.slots) \in Nat
        /\ \A j : j \in s.free <=> j \in DOMAIN s.slots /\ s.slots[j].refs = 0
        /\ \A j \in DOMAIN s.slots : /\ s.slots[j].cell = None <=> s.slots[j].refs = 0
                                     /\ s.slots[j] \in Slots /\ s.slots[j].refs \in Nat
    BY BoaShape
  <1>2. i \in DOMAIN s.slots /\ s.slots[i].cell = h.of /\ h.of \in Cells /\ s.slots[i].refs \in Nat
    BY <1>1 DEF Valid, Handles
  <1>3. s.slots[i].refs # 0
    BY <1>1, <1>2, EnginesAssumption
  <1>4. t = [slots |-> [s.slots EXCEPT ![i] = [s.slots[i] EXCEPT !.refs = @ + 1]], free |-> s.free]
    BY DEF B!Duplicate, Store, BoaStore
  <1>5. [s.slots[i] EXCEPT !.refs = @ + 1] \in Slots
    BY <1>1, <1>2 DEF Slots
  <1>6. /\ t.slots \in Seq(Slots) /\ DOMAIN t.slots = DOMAIN s.slots
        /\ \A j \in DOMAIN s.slots : /\ t.slots[j].cell = s.slots[j].cell
                                     /\ t.slots[j].refs = IF j = i THEN s.slots[j].refs + 1 ELSE s.slots[j].refs
    BY <1>1, <1>2, <1>4, <1>5 DEF Slots
  <1> HIDE DEF t
  <1>7. Store("boa", t)
    <2>1. t.free = s.free /\ t = [slots |-> t.slots, free |-> t.free]
      BY <1>4
    <2>2. \A j \in DOMAIN s.slots : (t.slots[j].cell = None <=> t.slots[j].refs = 0)
                                      /\ (t.slots[j].refs = 0 <=> s.slots[j].refs = 0)
      BY <1>1, <1>2, <1>3, <1>6
    <2>3. \A j : j \in t.free <=> j \in DOMAIN t.slots /\ t.slots[j].refs = 0
      BY <1>1, <1>6, <2>1, <2>2
    <2> QED
      BY <1>6, <2>1, <2>2, <2>3 DEF Store, BoaStore
  <1>8. \A g : Valid("boa", s, g) => Valid("boa", t, g)
    BY <1>6 DEF Valid
  <1>9. Adds("boa", s, t, {})
    BY <1>6 DEF Adds
  <1>10. \A k \in Keys("boa") : Weight("boa", t, k) = Weight("boa", s, k) + One("boa", h, k)
    BY <1>1, <1>2, <1>6 DEF Weight, One, Key, Keys
  <1>11. Moves("boa", s, t, {})
    BY <1>7, <1>8, <1>9 DEF Moves, Keeps, OtherwiseSame
  <1> QED
    BY <1>8, <1>10, <1>11 DEF t

LEMMA BoaCardinality ==
  ASSUME NEW S
  PROVE  B!Cardinality(S) = Cardinality(S)
  BY DEF B!Cardinality, Cardinality

LEMMA BoaRelease ==
  ASSUME NEW s, Store("boa", s), NEW hs, IsFiniteSet(DOMAIN hs),
         \A k \in Keys("boa") : Number("boa", hs, k) <= Weight("boa", s, k)
  PROVE  LET t == B!ReleaseAll(s, hs) IN
         /\ Moves("boa", s, t, {})
         /\ \A k \in Keys("boa") : Weight("boa", t, k) = Weight("boa", s, k) - Number("boa", hs, k)
  <1> DEFINE t == B!ReleaseAll(s, hs)
  <1>1. /\ s.slots \in Seq(Slots) /\ DOMAIN s.slots = 1 .. Len(s.slots) /\ Len(s.slots) \in Nat
        /\ \A j : j \in s.free <=> j \in DOMAIN s.slots /\ s.slots[j].refs = 0
        /\ \A j \in DOMAIN s.slots : /\ s.slots[j].cell = None <=> s.slots[j].refs = 0
                                     /\ s.slots[j] \in Slots /\ s.slots[j].refs \in Nat
                                     /\ s.slots[j].cell \in Cells \cup {None}
    BY BoaShape
  <1>2. \A k : Number("boa", hs, k) \in Nat /\ B!Times(hs, k) = Number("boa", hs, k)
    <2> SUFFICES ASSUME NEW k
                 PROVE  Number("boa", hs, k) \in Nat /\ B!Times(hs, k) = Number("boa", hs, k)
      OBVIOUS
    <2>1. {j \in DOMAIN hs : hs[j].ref = k} = Uses("boa", hs, k)
      BY DEF Uses, Key
    <2>2. Number("boa", hs, k) \in Nat
      BY UsesFinite
    <2> QED
      BY <2>1, <2>2, BoaCardinality DEF B!Times, Number
  <1>3. \A j \in DOMAIN s.slots : /\ B!Left(s, hs, j) = s.slots[j].refs - Number("boa", hs, j)
                                  /\ B!Left(s, hs, j) \in Nat
    BY <1>1, <1>2 DEF B!Left, Keys, Weight
  <1>4. /\ t.slots = [i \in DOMAIN s.slots |->
                        IF B!Left(s, hs, i) > 0 THEN [s.slots[i] EXCEPT !.refs = B!Left(s, hs, i)] ELSE B!Empty]
        /\ t.free = s.free \cup {i \in DOMAIN s.slots : B!Left(s, hs, i) <= 0}
        /\ t = [slots |-> t.slots, free |-> t.free]
    BY DEF B!ReleaseAll
  <1>5. /\ DOMAIN t.slots = DOMAIN s.slots
        /\ \A j \in DOMAIN s.slots : /\ t.slots[j].refs = B!Left(s, hs, j)
                                     /\ t.slots[j].cell = IF B!Left(s, hs, j) > 0 THEN s.slots[j].cell ELSE None
                                     /\ t.slots[j] \in Slots
    <2>1. DOMAIN t.slots = DOMAIN s.slots
      BY <1>4
    <2>2. B!Empty \in Slots /\ B!Empty.refs = 0 /\ B!Empty.cell = None
      BY DEF Slots, B!Empty
    <2> SUFFICES ASSUME NEW j \in DOMAIN s.slots
                 PROVE  /\ t.slots[j].refs = B!Left(s, hs, j)
                        /\ t.slots[j].cell = IF B!Left(s, hs, j) > 0 THEN s.slots[j].cell ELSE None
                        /\ t.slots[j] \in Slots
      BY <2>1
    <2> DEFINE x == s.slots[j]  l == B!Left(s, hs, j)
    <2>3. x \in Slots /\ l \in Nat
      BY <1>1, <1>3
    <2>4. /\ [x EXCEPT !.refs = l] \in Slots /\ [x EXCEPT !.refs = l].refs = l
          /\ [x EXCEPT !.refs = l].cell = x.cell
      BY <2>3 DEF Slots
    <2>5. t.slots[j] = IF l > 0 THEN [x EXCEPT !.refs = l] ELSE B!Empty
      BY <1>4
    <2> HIDE DEF x, l, t
    <2>6. CASE l > 0
      BY <2>4, <2>5, <2>6 DEF x, l
    <2>7. CASE l = 0
      BY <2>2, <2>5, <2>7 DEF x, l
    <2> QED
      BY <2>3, <2>6, <2>7
  <1> HIDE DEF t
  <1>6. t.slots \in Seq(Slots)
    <2>1. t.slots = [i \in 1 .. Len(s.slots) |-> t.slots[i]]
      BY <1>1, <1>4
    <2>2. \A i \in 1 .. Len(s.slots) : t.slots[i] \in Slots
      BY <1>1, <1>5
    <2>3. [i \in 1 .. Len(s.slots) |-> t.slots[i]] \in Seq(Slots)
      BY <1>1, <2>2
    <2> QED
      BY <2>1, <2>3
  <1>7. Store("boa", t)
    <2>1. \A j : j \in t.free <=> j \in DOMAIN t.slots /\ t.slots[j].refs = 0
      <3>0. t.free = s.free \cup {i \in DOMAIN s.slots : B!Left(s, hs, i) <= 0}
        BY <1>4
      <3>1. \A j : j \in t.free <=> j \in s.free \/ (j \in DOMAIN s.slots /\ B!Left(s, hs, j) <= 0)
        BY <3>0
      <3>2. \A j \in DOMAIN s.slots : s.slots[j].refs = 0 => B!Left(s, hs, j) = 0
        BY <1>1, <1>2, <1>3
      <3> QED
        BY <1>1, <1>3, <1>5, <3>1, <3>2
    <2>2. \A j \in DOMAIN t.slots : t.slots[j].cell = None <=> t.slots[j].refs = 0
      BY <1>1, <1>2, <1>3, <1>5
    <2> QED
      BY <1>4, <1>6, <2>1, <2>2 DEF Store, BoaStore
  <1>8. \A k \in Keys("boa") : Weight("boa", t, k) = Weight("boa", s, k) - Number("boa", hs, k)
    BY <1>1, <1>2, <1>3, <1>5 DEF Weight, Keys
  <1>9. Keeps("boa", s, t)
    BY <1>3, <1>5 DEF Keeps, Valid, Weight, Key
  <1>10. Adds("boa", s, t, {})
    BY <1>5 DEF Adds
  <1>11. Moves("boa", s, t, {})
    BY <1>7, <1>9, <1>10 DEF Moves, OtherwiseSame
  <1> QED
    BY <1>8, <1>11 DEF t

(* JavaScriptCore: a cell is protected.                                    *)
LEMMA JscProtect ==
  ASSUME NEW s, Store("jsc", s), NEW c \in Cells
  PROVE  LET t == J!Protect(s, c)  h == J!Pointer(c) IN
         /\ Moves("jsc", s, t, {c})
         /\ Valid("jsc", t, h)
         /\ \A g : Valid("jsc", s, g) => Valid("jsc", t, g)
         /\ \A k \in Keys("jsc") : Weight("jsc", t, k) = Weight("jsc", s, k) + One("jsc", h, k)
  <1> DEFINE t == J!Protect(s, c)  h == J!Pointer(c)
  <1>1. JscStore(s)
    BY DEF Store
  <1>2. /\ JscStore(t) /\ t.methods = s.methods /\ t.deferred = s.deferred /\ t.tearing = s.tearing
        /\ \A k \in Cells : t.protected[k] = s.protected[k] + (IF k = c THEN 1 ELSE 0)
    BY <1>1 DEF JscStore, J!Protect
  <1>3. h \in Handles("jsc") /\ h.of = c
    BY DEF J!Pointer, Handles
  <1> HIDE DEF t, h
  <1>4. Adds("jsc", s, t, {c})
    <2>1. \A k \in Cells : s.protected[k] \in Nat
      BY <1>1 DEF JscStore
    <2> QED
      BY <1>2, <2>1 DEF Adds
  <1>5. \A g : Valid("jsc", s, g) => Valid("jsc", t, g)
    BY DEF Valid
  <1>6. Moves("jsc", s, t, {c})
    BY <1>2, <1>4, <1>5 DEF Moves, Keeps, OtherwiseSame, Store
  <1>7. \A k \in Keys("jsc") : Weight("jsc", t, k) = Weight("jsc", s, k) + One("jsc", h, k)
    BY <1>2, <1>3 DEF Weight, One, Key, Keys
  <1>8. Valid("jsc", t, h)
    BY <1>3 DEF Valid
  <1> QED
    BY <1>5, <1>6, <1>7, <1>8 DEF t, h

LEMMA JscCardinality ==
  ASSUME NEW S
  PROVE  J!Cardinality(S) = Cardinality(S)
  BY DEF J!Cardinality, Cardinality

LEMMA JscTimes ==
  ASSUME NEW hs, NEW c
  PROVE  J!Times(hs, c) = Number("jsc", hs, c)
  <1>1. {j \in DOMAIN hs : hs[j].of = c} = Uses("jsc", hs, c)
    BY DEF Uses, Key
  <1> QED
    BY <1>1, JscCardinality DEF J!Times, Number

LEMMA JscRelease ==
  ASSUME NEW s, Store("jsc", s), NEW hs, IsFiniteSet(DOMAIN hs),
         \A k \in Keys("jsc") : Number("jsc", hs, k) <= Weight("jsc", s, k)
  PROVE  LET t == J!UnprotectAll(s, hs) IN
         /\ Moves("jsc", s, t, {})
         /\ \A k \in Keys("jsc") : Weight("jsc", t, k) = Weight("jsc", s, k) - Number("jsc", hs, k)
  <1> DEFINE t == J!UnprotectAll(s, hs)
  <1>1. JscStore(s)
    BY DEF Store
  <1>2. ASSUME NEW k \in Cells
        PROVE  /\ J!Times(hs, k) = Number("jsc", hs, k) /\ Number("jsc", hs, k) \in Nat
               /\ s.protected[k] \in Nat /\ Number("jsc", hs, k) <= s.protected[k]
    <2>1. J!Times(hs, k) = Number("jsc", hs, k) /\ Number("jsc", hs, k) \in Nat
      BY JscTimes, UsesFinite
    <2>2. s.protected[k] \in Nat /\ Number("jsc", hs, k) <= s.protected[k]
      BY <1>1 DEF JscStore, Keys, Weight
    <2> QED
      BY <2>1, <2>2
  <1>3. t = [s EXCEPT !.protected = [c \in Cells |-> J!Without(s.protected[c], J!Times(hs, c))]]
    BY <1>1 DEF J!UnprotectAll, JscStore
  <1>4. \A k \in Cells : J!Without(s.protected[k], J!Times(hs, k)) = s.protected[k] - Number("jsc", hs, k)
    BY <1>2 DEF J!Without
  <1>5. \A k \in Cells : J!Without(s.protected[k], J!Times(hs, k)) \in Nat
    BY <1>2, <1>4
  <1> HIDE DEF t
  <1>6. /\ JscStore(t) /\ t.methods = s.methods /\ t.deferred = s.deferred /\ t.tearing = s.tearing
        /\ \A k \in Cells : t.protected[k] = J!Without(s.protected[k], J!Times(hs, k))
    BY <1>1, <1>3, <1>5 DEF JscStore
  <1>7. \A k \in Keys("jsc") : Weight("jsc", t, k) = Weight("jsc", s, k) - Number("jsc", hs, k)
    BY <1>4, <1>6 DEF Weight, Keys
  <1>8. \A k \in Cells : t.protected[k] <= s.protected[k] /\ t.protected[k] \in Nat
    BY <1>2, <1>4, <1>6
  <1>9. Adds("jsc", s, t, {})
    BY <1>2, <1>8 DEF Adds
  <1>10. Keeps("jsc", s, t)
    BY DEF Keeps, Valid
  <1>11. Moves("jsc", s, t, {})
    BY <1>6, <1>9, <1>10 DEF Moves, OtherwiseSame, Store
  <1> QED
    BY <1>7, <1>11 DEF t

(***************************************************************************)
(* The operations of Boa and of JavaScriptCore alike.                      *)
(***************************************************************************)
LEMMA ReturnedFacts ==
  ASSUME engine \in {"boa", "jsc"}, NEW s, Store(engine, s), NEW c \in Cells
  PROVE  LET r == Returned(s, c) IN
         /\ Moves(engine, s, r.store, {c})
         /\ Valid(engine, r.store, r.handle) /\ r.handle.of = c
         /\ \A g : Valid(engine, s, g) => Valid(engine, r.store, g)
         /\ \A k \in Keys(engine) : Weight(engine, r.store, k) = Weight(engine, s, k) + One(engine, r.handle, k)
         /\ Made(s, c) = r
  <1>1. CASE engine = "boa"
    <2>1. /\ Returned(s, c) = [store |-> B!Insert(s, c), handle |-> [of |-> c, ref |-> B!Index(s)]]
          /\ Made(s, c) = Returned(s, c)
      BY <1>1 DEF Returned, Made, B!Returned, B!Made
    <2>2. Store("boa", s)
      BY <1>1
    <2> QED
      BY <1>1, <2>1, <2>2, BoaInsert
  <1>2. CASE engine = "jsc"
    <2>1. /\ Returned(s, c) = [store |-> J!Protect(s, c), handle |-> J!Pointer(c)]
          /\ Made(s, c) = Returned(s, c) /\ J!Pointer(c).of = c
      BY <1>2 DEF Returned, Made, J!Returned, J!Made, J!Pointer
    <2>2. Store("jsc", s)
      BY <1>2
    <2> QED
      BY <1>2, <2>1, <2>2, JscProtect
  <1> QED
    BY <1>1, <1>2

LEMMA DuplicateFacts ==
  ASSUME engine \in {"boa", "jsc"}, NEW s, Store(engine, s), NEW h, Valid(engine, s, h)
  PROVE  LET t == Duplicate(s, h) IN
         /\ Moves(engine, s, t, {h.of})
         /\ \A g : Valid(engine, s, g) => Valid(engine, t, g)
         /\ \A k \in Keys(engine) : Weight(engine, t, k) = Weight(engine, s, k) + One(engine, h, k)
         /\ Duplicated(h) = h
  <1>1. CASE engine = "boa"
    <2>1. Duplicate(s, h) = B!Duplicate(s, h) /\ Duplicated(h) = h /\ Store("boa", s) /\ Valid("boa", s, h)
      BY <1>1 DEF Duplicate, Duplicated
    <2>2. Moves("boa", s, B!Duplicate(s, h), {}) => Moves("boa", s, B!Duplicate(s, h), {h.of})
      BY DEF Moves, Adds
    <2> QED
      BY <1>1, <2>1, <2>2, BoaDuplicate
  <1>2. CASE engine = "jsc"
    <2>1. Duplicate(s, h) = J!Protect(s, h.of) /\ Duplicated(h) = h /\ Store("jsc", s) /\ h \in Handles("jsc")
      BY <1>2 DEF Duplicate, Duplicated, Valid
    <2>2. h.of \in Cells /\ J!Pointer(h.of).of = h.of
      BY <2>1 DEF Handles, J!Pointer
    <2>3. \A k : One("jsc", J!Pointer(h.of), k) = One("jsc", h, k)
      BY <2>2 DEF One, Key
    <2> QED
      BY <1>2, <2>1, <2>2, <2>3, JscProtect
  <1> QED
    BY <1>1, <1>2

LEMMA ReleaseFacts ==
  ASSUME engine \in {"boa", "jsc"}, NEW s, Store(engine, s), NEW hs, IsFiniteSet(DOMAIN hs),
         \A k \in Keys(engine) : Number(engine, hs, k) <= Weight(engine, s, k)
  PROVE  LET t == ReleaseAll(s, hs) IN
         /\ Moves(engine, s, t, {})
         /\ \A k \in Keys(engine) : Weight(engine, t, k) = Weight(engine, s, k) - Number(engine, hs, k)
  <1>1. CASE engine = "boa"
    BY <1>1, BoaRelease DEF ReleaseAll
  <1>2. CASE engine = "jsc"
    BY <1>2, JscRelease DEF ReleaseAll
  <1> QED
    BY <1>1, <1>2

LEMMA AllRelease ==
  ASSUME engine \in {"boa", "jsc"}, NEW s, NEW hs
  PROVE  /\ EndScope(s, hs) = ReleaseAll(s, hs) /\ Settling(s, hs) = ReleaseAll(s, hs)
         /\ AfterCall(s, hs) = ReleaseAll(s, hs)
         /\ engine = "boa" => B!Finalized(s, hs) = ReleaseAll(s, hs)
  BY DEF EndScope, Settling, AfterCall, ReleaseAll, B!EndScope, B!Settling, B!Settled, B!Finalized, J!EndScope,
         J!Settling, J!Settled

(***************************************************************************)
(* The invariant, in parts.                                                *)
(***************************************************************************)
PlainHandles(e) == {h \in Handles(e) : h.of \in Plain}
ObjectHandles(e) == {h \in Handles(e) : h.of \in Objects}
FrameSet(e) ==
  [kind : {"call", "tick"}, step : {"body", "making", "pump", "prepare", "settling", "drain"},
   this : Maybe(e), arg : Maybe(e), owned : Seq(Handles(e)), stack : SUBSET Objects, result : Maybe(e)]
Places == {"none", "request", "queue", "batch", "settled", "released"}

Shaped ==
  /\ engine \in {"boa", "jsc", "mock"}
  /\ script \in SUBSET Objects /\ live \in SUBSET Objects
  /\ frames \in Seq(FrameSet(engine))
  /\ payload \in [Fields -> PlainHandles(engine) \cup {NoHandle}]
  /\ deferred \in [Promises -> Places] /\ functions \in [Halves -> Maybe(engine)]
  /\ outstanding \in SUBSET Promises /\ removals \in SUBSET Promises
  /\ DOMAIN batch \in SUBSET Promises
  /\ \A p \in DOMAIN batch : batch[p].value \in Handles(engine) /\ batch[p].fails \in BOOLEAN /\ batch[p].bare \in BOOLEAN
  /\ host \in Seq(ObjectHandles(engine)) /\ (host = <<>> \/ Len(host) = 1)
  /\ classes \in Seq(Handles(engine))
  /\ finalizing \in [Cells -> Nat] /\ passed \in [Cells -> Nat]
Typed == Shaped /\ Store(engine, store)

\* The steps of the drop, engine by engine.
PhasesOf(e) ==
  IF e = "boa" THEN {"running", "pending", "outstanding", "clear", "context", "done"}
  ELSE IF e = "jsc"
  THEN {"running", "outstanding", "pending", "trampoline", "tearing", "enqueued", "mopping", "context", "done"}
  ELSE {"running", "payloads", "done"}

\* A frame has what it was called with on the machine stack, in Boa in its scope as well; what it
\* will return is owned, or cached, or the mock's own.
TickFrame(f) == f.this = NoHandle /\ f.arg = NoHandle /\ f.result = NoHandle /\ f.step \notin {"body", "making"}
CallFrame(f) ==
  /\ f.step \in {"body", "making"}
  /\ f.this # NoHandle /\ f.this.of \in Wrappers \cap f.stack
  /\ f.arg # NoHandle => f.arg.of \in Plain \cap f.stack
  /\ engine = "boa" => f.this \in Range(f.owned) /\ f.arg \in Range(f.owned) \cup {NoHandle}
  /\ engine = "mock" => f.this.ref = 0 /\ f.arg.ref = 0
  /\ \/ f.result \in Range(f.owned) \cup {NoHandle} \/ f.result = payload[<<f.this.of, "attribute">>]
     \/ engine = "mock" /\ f.result.ref = 0
Framed ==
  /\ phase \in PhasesOf(engine)
  /\ phase # "running" => frames = <<>>
  /\ \A i \in DOMAIN frames :
       /\ frames[i].kind = "tick" => i = 1 /\ TickFrame(frames[i])
       /\ frames[i].kind = "call" => CallFrame(frames[i])
       /\ frames[i].stack \subseteq live

\* What is prepared is a tick's, and its scope owns it.
Batched ==
  /\ \A p \in Promises : p \in DOMAIN batch <=> deferred[p] = "batch"
  /\ DOMAIN batch # {} => /\ frames # <<>> /\ frames[1].kind = "tick"
                          /\ frames[1].step \in {"prepare", "settling"}
  /\ frames # <<>> /\ frames[1].step = "prepare" =>
       \A p \in DOMAIN batch :
         /\ engine = "boa" \/ (engine = "jsc" /\ ~batch[p].bare) => batch[p].value \in Range(frames[1].owned)
         /\ engine = "mock" => batch[p].value.ref = 0

\* The functions of a promise are there as long as something is to settle it.
Kept ==
  /\ \A p \in Promises : deferred[p] = "request" <=> p \in outstanding \ removals
  /\ \A x \in Halves : deferred[x[1]] \in {"none", "settled", "released"} => functions[x] = NoHandle
  /\ frames # <<>> /\ frames[1].step = "settling" => \A x \in Unused : functions[x] = NoHandle
  /\ engine = "jsc" =>
       /\ phase \notin {"running", "outstanding"} => \A p \in Promises : deferred[p] # "request"
       /\ phase \notin {"running", "outstanding", "pending"} => \A p \in Promises : deferred[p] # "queue"
  /\ engine = "boa" =>
       /\ phase \notin {"running", "pending"} => \A p \in Promises : deferred[p] # "queue"
       /\ phase \notin {"running", "pending", "outstanding"} => \A p \in Promises : deferred[p] # "request"
  /\ dangling = FALSE

\* The holders: every handle in a place that is counted reads what it was issued for, and the weight
\* of a key is the number of its places.
Roots == Rooting /\ engine # "mock"
FramesIn(e, s, fs) == \A i \in DOMAIN fs : \A j \in DOMAIN fs[i].owned : Valid(e, s, fs[i].owned[j])
PlacesIn(e, s, hs) == \A x \in DOMAIN hs : hs[x] # NoHandle => Valid(e, s, hs[x])
TrampolineIn(e, s) == e = "boa" => Valid(e, s, [of |-> Trampoline, ref |-> 1])
AllIn(e, s, fs, pl, fn, ho, cl) ==
  /\ FramesIn(e, s, fs) /\ PlacesIn(e, s, pl) /\ PlacesIn(e, s, fn) /\ PlacesIn(e, s, ho) /\ PlacesIn(e, s, cl)
  /\ TrampolineIn(e, s)
AllValid == Roots => AllIn(engine, store, frames, payload, functions, host, classes)
Total(k) ==
  Owned(engine, frames, k) + Number(engine, payload, k) + Number(engine, functions, k) + Number(engine, host, k)
Extra(k) ==
  IF engine = "boa" THEN Number(engine, classes, k) + (IF k = 1 THEN 1 ELSE 0)
  ELSE TrampolineHeld(k) + store.deferred[k] + finalizing[k] + passed[k]
Exact(k) == engine = "boa" \/ ~store.tearing \/ k \notin Objects
Weighed ==
  Roots => \A k \in Keys(engine) : /\ Weight(engine, store, k) >= Total(k) + Extra(k)
                                   /\ Exact(k) => Weight(engine, store, k) = Total(k) + Extra(k)

\* What is particular to one engine.
BoaOnly ==
  engine = "boa" =>
    /\ Rooting => \A i \in DOMAIN store.slots : store.slots[i].cell = Trampoline => i = 1
    /\ ~Rooting => DOMAIN store.slots = {}
JscOnly ==
  engine = "jsc" =>
    /\ Rooting => /\ \A c \in Cells : store.methods[c] = IF c = Prototype THEN Len(classes) ELSE 0
                  /\ \A i \in DOMAIN classes : classes[i].of = Prototype
                  /\ store.tearing <=> phase \in {"enqueued", "mopping"}
    /\ ~Rooting => \A c \in Cells : store.methods[c] = 0 /\ store.protected[c] = 0
    /\ \A c \in Cells \ Objects : store.deferred[c] = 0 /\ finalizing[c] = 0 /\ passed[c] = 0
MockScopes(aliases, fs) ==
  /\ \A n : n \in aliases <=> \E i \in DOMAIN fs : \E j \in DOMAIN fs[i].owned : fs[i].owned[j].ref = n
  /\ \A i, l \in DOMAIN fs : \A j \in DOMAIN fs[i].owned : \A m \in DOMAIN fs[l].owned :
       fs[i].owned[j].ref = fs[l].owned[m].ref => i = l /\ j = m
MockOnly ==
  engine = "mock" =>
    /\ ~store.panicked /\ host = <<>> /\ classes = <<>>
    /\ \A x \in Fields : payload[x].ref = 0
    /\ \A x \in Halves : functions[x].ref = 0
    /\ \A c \in Cells : store.dups[c] = Number("mock", payload, c)
    /\ MockScopes(store.aliases, frames)

\* Script reaches live objects, and an object that is rooted is live.
Lively ==
  /\ script \subseteq live
  /\ engine # "mock" => Rooted \cap Objects \subseteq live

Balanced == Store(engine, store) /\ AllValid /\ Weighed /\ BoaOnly /\ JscOnly /\ Lively
IInv == Shaped /\ Framed /\ Batched /\ Kept /\ Balanced /\ MockOnly

(***************************************************************************)
(* Frames.                                                                 *)
(***************************************************************************)
LEMMA FrameShape ==
  ASSUME NEW e, NEW f \in FrameSet(e)
  PROVE  /\ f.owned \in Seq(Handles(e)) /\ Len(f.owned) \in Nat /\ DOMAIN f.owned = 1 .. Len(f.owned)
         /\ IsFiniteSet(DOMAIN f.owned) /\ \A j \in DOMAIN f.owned : f.owned[j] \in Handles(e)
         /\ f.this \in Maybe(e) /\ f.arg \in Maybe(e) /\ f.result \in Maybe(e) /\ f.stack \in SUBSET Objects
         /\ f.kind \in {"call", "tick"}
  <1>1. /\ f.owned \in Seq(Handles(e)) /\ f.this \in Maybe(e) /\ f.arg \in Maybe(e) /\ f.result \in Maybe(e)
        /\ f.stack \in SUBSET Objects /\ f.kind \in {"call", "tick"}
    BY DEF FrameSet
  <1>2. Len(f.owned) \in Nat /\ DOMAIN f.owned = 1 .. Len(f.owned) /\ \A j \in DOMAIN f.owned : f.owned[j] \in Handles(e)
    BY <1>1
  <1>3. IsFiniteSet(DOMAIN f.owned)
    BY <1>2, FS_Interval
  <1> QED
    BY <1>1, <1>2, <1>3

LEMMA FramesShape ==
  ASSUME NEW e, NEW fs \in Seq(FrameSet(e))
  PROVE  /\ Len(fs) \in Nat /\ DOMAIN fs = 1 .. Len(fs) /\ \A i \in DOMAIN fs : fs[i] \in FrameSet(e)
         /\ FiniteFrames(fs, Len(fs))
  <1>1. Len(fs) \in Nat /\ DOMAIN fs = 1 .. Len(fs) /\ \A i \in DOMAIN fs : fs[i] \in FrameSet(e)
    OBVIOUS
  <1>2. \A i \in DOMAIN fs : IsFiniteSet(DOMAIN fs[i].owned)
    BY <1>1, FrameShape
  <1> QED
    BY <1>1, <1>2 DEF FiniteFrames

LEMMA TopFacts ==
  ASSUME Shaped, frames # <<>>
  PROVE  /\ Depth = Len(frames) /\ Depth \in Nat /\ Depth > 0 /\ Depth \in DOMAIN frames /\ DOMAIN frames = 1 .. Depth
         /\ Top = frames[Depth] /\ Top \in FrameSet(engine) /\ 1 \in DOMAIN frames
  <1>1. frames \in Seq(FrameSet(engine))
    BY DEF Shaped
  <1>2. /\ Len(frames) \in Nat /\ Len(frames) > 0 /\ DOMAIN frames = 1 .. Len(frames)
        /\ Len(frames) \in DOMAIN frames /\ 1 \in DOMAIN frames
    BY <1>1
  <1> QED
    BY <1>1, <1>2 DEF Depth, Top

LEMMA TopChanged ==
  ASSUME Shaped, frames # <<>>, NEW f \in FrameSet(engine), SetTop(f)
  PROVE  /\ frames' \in Seq(FrameSet(engine)) /\ frames' # <<>> /\ DOMAIN frames' = DOMAIN frames
         /\ frames'[Depth] = f /\ Len(frames') = Depth
         /\ \A i \in DOMAIN frames : i # Depth => frames'[i] = frames[i]
         /\ \A k : /\ Owned(engine, frames', k)
                        = Owned(engine, frames, k) - Number(engine, Top.owned, k) + Number(engine, f.owned, k)
                   /\ Owned(engine, frames, k) \in Nat /\ Number(engine, Top.owned, k) \in Nat
                   /\ Number(engine, f.owned, k) \in Nat
  <1>1. frames \in Seq(FrameSet(engine)) /\ frames' = [frames EXCEPT ![Depth] = f]
    BY DEF Shaped, SetTop
  <1>2. /\ Depth = Len(frames) /\ Depth \in Nat /\ Depth > 0 /\ Depth \in DOMAIN frames /\ DOMAIN frames = 1 .. Depth
        /\ Top = frames[Depth] /\ Top \in FrameSet(engine)
    BY TopFacts
  <1>3. /\ frames' \in Seq(FrameSet(engine)) /\ DOMAIN frames' = DOMAIN frames /\ Len(frames') = Depth
        /\ frames'[Depth] = f /\ \A i \in DOMAIN frames : i # Depth => frames'[i] = frames[i]
        /\ frames' # <<>>
    BY <1>1, <1>2
  <1>4. FiniteFrames(frames, Depth) /\ FiniteFrames(frames', Depth)
    BY <1>1, <1>2, <1>3, FramesShape
  <1>5. \A k : Owned(engine, frames', k)
                 = Owned(engine, frames, k) - Number(engine, Top.owned, k) + Number(engine, f.owned, k)
    BY <1>2, <1>3, <1>4, OwnedByTop
  <1>6. \A k : Owned(engine, frames, k) \in Nat
    BY <1>4, OwnedFinite
  <1>7. \A k : Number(engine, Top.owned, k) \in Nat /\ Number(engine, f.owned, k) \in Nat
    BY <1>2, FrameShape, UsesFinite
  <1> QED
    BY <1>3, <1>5, <1>6, <1>7

(* What the frame on top owns stays, or one handle is added.               *)
LEMMA TopSame ==
  ASSUME Shaped, frames # <<>>, NEW f \in FrameSet(engine), SetTop(f), f.owned = Top.owned
  PROVE  /\ \A k : Owned(engine, frames', k) = Owned(engine, frames, k)
         /\ \A s : FramesIn(engine, s, frames) => FramesIn(engine, s, frames')
  <1>1. \A k : Owned(engine, frames', k) = Owned(engine, frames, k)
    BY TopChanged
  <1>2. \A s : FramesIn(engine, s, frames) => FramesIn(engine, s, frames')
    BY TopChanged, TopFacts DEF FramesIn
  <1> QED
    BY <1>1, <1>2

LEMMA TopOwns ==
  ASSUME Shaped, frames # <<>>, NEW f \in FrameSet(engine), SetTop(f),
         NEW h \in Handles(engine), f.owned = Append(Top.owned, h)
  PROVE  /\ \A k : Owned(engine, frames', k) = Owned(engine, frames, k) + One(engine, h, k)
         /\ \A s : FramesIn(engine, s, frames) /\ Valid(engine, s, h) => FramesIn(engine, s, frames')
  <1>1. Top.owned \in Seq(Handles(engine))
    BY TopFacts, FrameShape
  <1>2. \A k : One(engine, h, k) \in Nat
    BY DEF One
  <1>3. \A k : Number(engine, f.owned, k) = Number(engine, Top.owned, k) + One(engine, h, k)
    BY <1>1, NumberAppended
  <1>0. /\ DOMAIN frames' = DOMAIN frames /\ frames'[Depth] = f
        /\ \A i \in DOMAIN frames : i # Depth => frames'[i] = frames[i]
        /\ \A k : /\ Owned(engine, frames', k)
                        = Owned(engine, frames, k) - Number(engine, Top.owned, k) + Number(engine, f.owned, k)
                  /\ Owned(engine, frames, k) \in Nat /\ Number(engine, Top.owned, k) \in Nat
    BY TopChanged
  <1>4. \A k : Owned(engine, frames', k) = Owned(engine, frames, k) + One(engine, h, k)
    BY <1>0, <1>2, <1>3
  <1>5. \A j \in DOMAIN f.owned : f.owned[j] = h \/ (j \in DOMAIN Top.owned /\ f.owned[j] = Top.owned[j])
    BY <1>1
  <1>6. \A s : FramesIn(engine, s, frames) /\ Valid(engine, s, h) => FramesIn(engine, s, frames')
    BY <1>0, <1>5, TopFacts DEF FramesIn
  <1> QED
    BY <1>4, <1>6

(* The frame on top goes.                                                  *)
LEMMA TopGone ==
  ASSUME Shaped, frames # <<>>, frames' = Front(frames)
  PROVE  /\ frames' \in Seq(FrameSet(engine)) /\ Len(frames') = Depth - 1 /\ DOMAIN frames' = 1 .. (Depth - 1)
         /\ \A i \in DOMAIN frames' : i \in DOMAIN frames /\ i # Depth /\ frames'[i] = frames[i]
         /\ \A k : /\ Owned(engine, frames', k) = Owned(engine, frames, k) - Number(engine, Top.owned, k)
                   /\ Owned(engine, frames, k) \in Nat /\ Number(engine, Top.owned, k) \in Nat
                   /\ Owned(engine, frames', k) \in Nat
         /\ \A s : FramesIn(engine, s, frames) => FramesIn(engine, s, frames')
  <1>1. frames \in Seq(FrameSet(engine)) /\ frames' = SubSeq(frames, 1, Len(frames) - 1)
    BY DEF Shaped, Front
  <1>2. /\ Depth = Len(frames) /\ Depth \in Nat /\ Depth > 0 /\ Depth \in DOMAIN frames /\ DOMAIN frames = 1 .. Depth
        /\ Top = frames[Depth] /\ Top \in FrameSet(engine)
    BY TopFacts
  <1>3. /\ frames' \in Seq(FrameSet(engine)) /\ Len(frames') = Depth - 1 /\ DOMAIN frames' = 1 .. (Depth - 1)
        /\ \A i \in DOMAIN frames' : i \in DOMAIN frames /\ i # Depth /\ frames'[i] = frames[i]
    BY <1>1, <1>2
  <1>4. FiniteFrames(frames, Depth) /\ FiniteFrames(frames', Depth - 1)
    BY <1>1, <1>2, <1>3, FramesShape
  <1>5. \A k : Owned(engine, frames, k) = Owned(engine, frames', k) + Number(engine, Top.owned, k)
    <2>1. FiniteFrames(frames, (Depth - 1) + 1) /\ frames[(Depth - 1) + 1] = Top
      BY <1>2, <1>4
    <2>2. \A i \in 1 .. (Depth - 1) : frames[i].owned = frames'[i].owned
      BY <1>3
    <2> QED
      BY <1>4, <2>1, <2>2, OwnedByOneMore
  <1>6. \A k : Owned(engine, frames, k) \in Nat /\ Owned(engine, frames', k) \in Nat
    BY <1>4, OwnedFinite
  <1>7. \A k : Number(engine, Top.owned, k) \in Nat
    BY <1>2, FrameShape, UsesFinite
  <1>8. \A s : FramesIn(engine, s, frames) => FramesIn(engine, s, frames')
    BY <1>3 DEF FramesIn
  <1> QED
    BY <1>3, <1>5, <1>6, <1>7, <1>8

(* A frame begins.                                                         *)
LEMMA TopBegins ==
  ASSUME Shaped, NEW f \in FrameSet(engine), frames' = Append(frames, f)
  PROVE  /\ frames' \in Seq(FrameSet(engine)) /\ Len(frames') = Len(frames) + 1 /\ frames' # <<>>
         /\ DOMAIN frames' = DOMAIN frames \cup {Len(frames) + 1} /\ frames'[Len(frames) + 1] = f
         /\ \A i \in DOMAIN frames : i # Len(frames) + 1 /\ frames'[i] = frames[i]
         /\ \A k : /\ Owned(engine, frames', k) = Owned(engine, frames, k) + Number(engine, f.owned, k)
                   /\ Owned(engine, frames, k) \in Nat
         /\ \A s : FramesIn(engine, s, frames) /\ PlacesIn(engine, s, f.owned) => FramesIn(engine, s, frames')
  <1>1. frames \in Seq(FrameSet(engine))
    BY DEF Shaped
  <1>2. Len(frames) \in Nat /\ DOMAIN frames = 1 .. Len(frames)
    BY <1>1
  <1>3. /\ frames' \in Seq(FrameSet(engine)) /\ Len(frames') = Len(frames) + 1 /\ frames' # <<>>
        /\ DOMAIN frames' = DOMAIN frames \cup {Len(frames) + 1} /\ frames'[Len(frames) + 1] = f
        /\ \A i \in DOMAIN frames : i # Len(frames) + 1 /\ frames'[i] = frames[i]
    BY <1>1, <1>2
  <1>4. FiniteFrames(frames, Len(frames)) /\ FiniteFrames(frames', Len(frames) + 1)
    BY <1>1, <1>3, FramesShape
  <1>5. \A k : Owned(engine, frames', k) = Owned(engine, frames, k) + Number(engine, f.owned, k)
    <2>1. \A i \in 1 .. Len(frames) : frames'[i].owned = frames[i].owned
      BY <1>2, <1>3
    <2> DEFINE n == Len(frames)
    <2>2. FiniteFrames(frames, n) /\ FiniteFrames(frames', n + 1) /\ \A i \in 1 .. n : frames'[i].owned = frames[i].owned
      BY <1>4, <2>1
    <2>3. frames'[n + 1] = f
      BY <1>3
    <2> HIDE DEF n
    <2>4. ASSUME NEW gs, gs = frames'
          PROVE  \A k : Owned(engine, gs, k) = Owned(engine, frames, k) + Number(engine, gs[n + 1].owned, k)
      <3>1. FiniteFrames(gs, n + 1) /\ \A i \in 1 .. n : gs[i].owned = frames[i].owned
        BY <2>2, <2>4
      <3> QED
        BY ONLY <2>2, <3>1, OwnedByOneMore
    <2>5. \A k : Owned(engine, frames', k) = Owned(engine, frames, k) + Number(engine, frames'[n + 1].owned, k)
      BY <2>4
    <2> QED
      BY <2>3, <2>5
  <1>6. \A k : Owned(engine, frames, k) \in Nat
    BY <1>4, OwnedFinite
  <1>7. \A j \in DOMAIN f.owned : f.owned[j] # NoHandle
    BY FrameShape, KeyOfHandle
  <1>8. \A s : FramesIn(engine, s, frames) /\ PlacesIn(engine, s, f.owned) => FramesIn(engine, s, frames')
    BY <1>3, <1>7 DEF FramesIn, PlacesIn
  <1> QED
    BY <1>3, <1>5, <1>6, <1>8

(***************************************************************************)
(* Places.                                                                 *)
(***************************************************************************)
LEMMA FiniteMaps == IsFiniteSet(Fields) /\ IsFiniteSet(Halves)
  <1>0. \A a, b : IsFiniteSet({a, b})
    <2> SUFFICES ASSUME NEW a, NEW b
                 PROVE  IsFiniteSet({a, b})
      OBVIOUS
    <2>1. IsFiniteSet({a} \cup {b})
      BY FS_Singleton, FS_AddElement
    <2>2. {a, b} = {a} \cup {b}
      OBVIOUS
    <2> QED
      BY <2>1, <2>2
  <1>1. IsFiniteSet({"attribute", "handler"}) /\ IsFiniteSet(Resolvers)
    BY <1>0 DEF Resolvers
  <1> QED
    BY <1>1, EnginesAssumption, FS_Product DEF Fields, Halves

LEMMA SeqFinite ==
  ASSUME NEW S, NEW s \in Seq(S)
  PROVE  IsFiniteSet(DOMAIN s) /\ Len(s) \in Nat /\ DOMAIN s = 1 .. Len(s) /\ \A i \in DOMAIN s : s[i] \in S
  <1>1. Len(s) \in Nat /\ DOMAIN s = 1 .. Len(s) /\ \A i \in DOMAIN s : s[i] \in S
    OBVIOUS
  <1> QED
    BY <1>1, FS_Interval

LEMMA TotalsNat ==
  ASSUME NEW e, NEW fs \in Seq(FrameSet(e)), NEW pl \in [Fields -> Maybe(e)], NEW fn \in [Halves -> Maybe(e)],
         NEW ho \in Seq(Handles(e)), NEW cl \in Seq(Handles(e)), NEW k
  PROVE  /\ Owned(e, fs, k) \in Nat /\ Number(e, pl, k) \in Nat /\ Number(e, fn, k) \in Nat
         /\ Number(e, ho, k) \in Nat /\ Number(e, cl, k) \in Nat
  <1>1. Owned(e, fs, k) \in Nat
    BY FramesShape, OwnedFinite
  <1>2. IsFiniteSet(DOMAIN pl) /\ IsFiniteSet(DOMAIN fn) /\ IsFiniteSet(DOMAIN ho) /\ IsFiniteSet(DOMAIN cl)
    BY FiniteMaps, SeqFinite
  <1> QED
    BY <1>1, <1>2, UsesFinite

LEMMA Widened ==
  ASSUME NEW e
  PROVE  /\ \A pl \in [Fields -> PlainHandles(e) \cup {NoHandle}] : pl \in [Fields -> Maybe(e)]
         /\ \A ho \in Seq(ObjectHandles(e)) : ho \in Seq(Handles(e))
  <1>1. PlainHandles(e) \cup {NoHandle} \subseteq Maybe(e) /\ ObjectHandles(e) \subseteq Handles(e)
    BY DEF PlainHandles, ObjectHandles, Maybe
  <1>2. \A pl \in [Fields -> PlainHandles(e) \cup {NoHandle}] : pl \in [Fields -> Maybe(e)]
    BY <1>1
  <1>3. ASSUME NEW ho \in Seq(ObjectHandles(e))
        PROVE  ho \in Seq(Handles(e))
    BY <1>1
  <1> QED
    BY <1>2, <1>3

LEMMA ShapedPlaces ==
  ASSUME Shaped
  PROVE  /\ frames \in Seq(FrameSet(engine)) /\ payload \in [Fields -> Maybe(engine)]
         /\ functions \in [Halves -> Maybe(engine)] /\ host \in Seq(Handles(engine))
         /\ classes \in Seq(Handles(engine))
  BY Widened DEF Shaped

LEMMA AllGrow ==
  ASSUME NEW e, NEW s, NEW t, \A g : Valid(e, s, g) => Valid(e, t, g), NEW fs, NEW pl, NEW fn, NEW ho, NEW cl,
         AllIn(e, s, fs, pl, fn, ho, cl)
  PROVE  AllIn(e, t, fs, pl, fn, ho, cl)
  BY DEF AllIn, FramesIn, PlacesIn, TrampolineIn

(* A handle that some place holds outlives a step that takes roots away, as*)
(* long as its key weighs something.                                       *)
LEMMA PlacesKept ==
  ASSUME NEW s, NEW t, Keeps("boa", t, s), NEW hs, IsFiniteSet(DOMAIN hs), PlacesIn("boa", t, hs),
         \A k \in Keys("boa") : Number("boa", hs, k) > 0 => Weight("boa", s, k) > 0
  PROVE  PlacesIn("boa", s, hs)
  <1> SUFFICES ASSUME NEW x \in DOMAIN hs, hs[x] # NoHandle
               PROVE  Valid("boa", s, hs[x])
    BY DEF PlacesIn
  <1>1. Valid("boa", t, hs[x]) /\ hs[x] \in Handles("boa")
    BY DEF PlacesIn, Valid
  <1>2. Weight("boa", s, Key("boa", hs[x])) > 0
    BY <1>1, KeyOfHandle, UseCounts
  <1> QED
    BY <1>1, <1>2 DEF Keeps

LEMMA FramesKept ==
  ASSUME NEW s, NEW t, Keeps("boa", t, s), NEW fs, NEW n, FiniteFrames(fs, n), FramesIn("boa", t, fs),
         \A k \in Keys("boa") : Owned("boa", fs, k) > 0 => Weight("boa", s, k) > 0
  PROVE  FramesIn("boa", s, fs)
  <1> SUFFICES ASSUME NEW i \in DOMAIN fs, NEW j \in DOMAIN fs[i].owned
               PROVE  Valid("boa", s, fs[i].owned[j])
    BY DEF FramesIn
  <1> DEFINE h == fs[i].owned[j]
  <1>1. Valid("boa", t, h) /\ h \in Handles("boa") /\ i \in 1 .. n
    BY DEF FramesIn, Valid, FiniteFrames
  <1>2. Owned("boa", fs, Key("boa", h)) > 0
    BY <1>1, OwnedCounts
  <1>3. Weight("boa", s, Key("boa", h)) > 0
    BY <1>1, <1>2, KeyOfHandle
  <1> QED
    BY <1>1, <1>3 DEF Keeps

LEMMA AllKept ==
  ASSUME NEW s, NEW t, Store("boa", s), Keeps("boa", t, s), NEW fs \in Seq(FrameSet("boa")),
         NEW pl \in [Fields -> Maybe("boa")], NEW fn \in [Halves -> Maybe("boa")],
         NEW ho \in Seq(Handles("boa")), NEW cl \in Seq(Handles("boa")), AllIn("boa", t, fs, pl, fn, ho, cl),
         \A k \in Keys("boa") :
           Weight("boa", s, k) >= Owned("boa", fs, k) + Number("boa", pl, k) + Number("boa", fn, k) + Number("boa", ho, k)
                                    + (Number("boa", cl, k) + (IF k = 1 THEN 1 ELSE 0))
  PROVE  AllIn("boa", s, fs, pl, fn, ho, cl)
  <1>1. ASSUME NEW k \in Keys("boa"),
               \/ Owned("boa", fs, k) > 0 \/ Number("boa", pl, k) > 0 \/ Number("boa", fn, k) > 0
               \/ Number("boa", ho, k) > 0 \/ Number("boa", cl, k) > 0 \/ k = 1
        PROVE  Weight("boa", s, k) > 0
    <2> DEFINE a == Owned("boa", fs, k)  b == Number("boa", pl, k)  c == Number("boa", fn, k)
               d == Number("boa", ho, k)  f == Number("boa", cl, k)  w == Weight("boa", s, k)
    <2>1. a \in Nat /\ b \in Nat /\ c \in Nat /\ d \in Nat /\ f \in Nat
      BY TotalsNat
    <2>2. w \in Nat /\ w >= a + b + c + d + (f + (IF k = 1 THEN 1 ELSE 0))
      BY WeightIsNat
    <2>3. a > 0 \/ b > 0 \/ c > 0 \/ d > 0 \/ f > 0 \/ k = 1
      BY <1>1
    <2> HIDE DEF a, b, c, d, f, w
    <2>4. w > 0
      BY <2>1, <2>2, <2>3
    <2> QED
      BY <2>4 DEF w
  <1>2. FramesIn("boa", s, fs)
    BY <1>1, FramesShape, FramesKept DEF AllIn
  <1>3. PlacesIn("boa", s, pl) /\ PlacesIn("boa", s, fn)
    BY <1>1, FiniteMaps, PlacesKept DEF AllIn
  <1>4. PlacesIn("boa", s, ho) /\ PlacesIn("boa", s, cl)
    BY <1>1, SeqFinite, PlacesKept DEF AllIn
  <1>5. TrampolineIn("boa", s)
    <2>1. Valid("boa", t, [of |-> Trampoline, ref |-> 1]) /\ 1 \in Keys("boa")
      BY DEF AllIn, TrampolineIn, Keys
    <2>2. Key("boa", [of |-> Trampoline, ref |-> 1]) = 1
      BY DEF Key
    <2> QED
      BY <1>1, <2>1, <2>2 DEF TrampolineIn, Keeps
  <1> QED
    BY <1>2, <1>3, <1>4, <1>5 DEF AllIn

LEMMA AnyKept ==
  ASSUME NEW s, NEW t, NEW fs, NEW pl, NEW fn, NEW ho, NEW cl, AllIn("jsc", t, fs, pl, fn, ho, cl)
  PROVE  AllIn("jsc", s, fs, pl, fn, ho, cl)
  BY DEF AllIn, FramesIn, PlacesIn, TrampolineIn, Valid

(* Numbers and weights are natural numbers, before a step and after.       *)
LEMMA NumbersOfStep ==
  ASSUME Shaped, Shaped', engine' = engine, engine \in {"boa", "jsc"}, Store(engine, store), Store(engine, store'),
         NEW k \in Keys(engine)
  PROVE  /\ Total(k) \in Nat /\ Extra(k) \in Nat /\ Total(k)' \in Nat /\ Extra(k)' \in Nat
         /\ Weight(engine, store, k) \in Nat /\ Weight(engine, store', k) \in Nat
  <1>0. /\ frames' \in Seq(FrameSet(engine)) /\ payload' \in [Fields -> Maybe(engine)]
        /\ functions' \in [Halves -> Maybe(engine)] /\ host' \in Seq(Handles(engine))
        /\ classes' \in Seq(Handles(engine))
    BY Widened DEF Shaped
  <1>1. Total(k) \in Nat /\ Number(engine, classes, k) \in Nat
    <2>1. /\ Owned(engine, frames, k) \in Nat /\ Number(engine, payload, k) \in Nat
          /\ Number(engine, functions, k) \in Nat /\ Number(engine, host, k) \in Nat
          /\ Number(engine, classes, k) \in Nat
      BY ShapedPlaces, TotalsNat
    <2> QED
      BY <2>1 DEF Total
  <1>2. Total(k)' \in Nat /\ Number(engine', classes', k) \in Nat
    <2>1. /\ Owned(engine, frames', k) \in Nat /\ Number(engine, payload', k) \in Nat
          /\ Number(engine, functions', k) \in Nat /\ Number(engine, host', k) \in Nat
          /\ Number(engine, classes', k) \in Nat
      BY <1>0, TotalsNat
    <2> QED
      BY <2>1 DEF Total
  <1>3. Extra(k) \in Nat /\ Extra(k)' \in Nat
    <2>1. CASE engine = "boa"
      BY <1>1, <1>2, <2>1 DEF Extra
    <2>2. CASE engine = "jsc"
      <3>1. k \in Cells /\ JscStore(store) /\ JscStore(store')
        BY <2>2 DEF Keys, Store
      <3>2. store.deferred[k] \in Nat /\ store'.deferred[k] \in Nat
        BY <3>1 DEF JscStore
      <3>3. /\ finalizing[k] \in Nat /\ passed[k] \in Nat /\ finalizing'[k] \in Nat /\ passed'[k] \in Nat
        BY <3>1 DEF Shaped
      <3>4. TrampolineHeld(k) \in Nat /\ TrampolineHeld(k)' \in Nat
        BY DEF TrampolineHeld
      <3> QED
        BY <2>2, <3>2, <3>3, <3>4 DEF Extra
    <2> QED
      BY <2>1, <2>2
  <1>4. Weight(engine, store, k) \in Nat /\ Weight(engine, store', k) \in Nat
    BY WeightIsNat
  <1> QED
    BY <1>1, <1>2, <1>3, <1>4

(* The step of a store that has all places in it, and then gives back what *)
(* places no longer hold.                                                  *)
LEMMA Settles ==
  ASSUME Shaped, Balanced, Roots, Shaped', Roots', engine' = engine, Store(engine, store'), NEW t,
         AllIn(engine, t, frames', payload', functions', host', classes'), Keeps(engine, t, store'),
         \A k \in Keys(engine) :
           Weight(engine, store', k) + (Total(k) + Extra(k)) = Weight(engine, store, k) + (Total(k)' + Extra(k)'),
         \A k \in Keys(engine) : Exact(k)' => Exact(k)
  PROVE  AllValid' /\ Weighed'
  <1>0. /\ frames' \in Seq(FrameSet(engine)) /\ payload' \in [Fields -> Maybe(engine)]
        /\ functions' \in [Halves -> Maybe(engine)] /\ host' \in Seq(Handles(engine))
        /\ classes' \in Seq(Handles(engine))
    BY Widened DEF Shaped
  <1>1. engine \in {"boa", "jsc"} /\ Store(engine, store)
    BY DEF Shaped, Balanced, Roots
  <1>2. ASSUME NEW k \in Keys(engine)
        PROVE  Total(k) + Extra(k) \in Int /\ Total(k)' + Extra(k)' \in Int
    BY <1>1, NumbersOfStep
  <1>3. \A k \in Keys(engine) : Weight(engine, store, k) \in Nat /\ Weight(engine, store', k) \in Nat
    BY <1>1, WeightIsNat
  <1>4. \A k \in Keys(engine) : /\ Weight(engine, store, k) >= Total(k) + Extra(k)
                                /\ Exact(k) => Weight(engine, store, k) = Total(k) + Extra(k)
    BY DEF Balanced, Weighed
  <1>5. ASSUME NEW k \in Keys(engine)
        PROVE  /\ Weight(engine, store', k) >= Total(k)' + Extra(k)'
               /\ Exact(k)' => Weight(engine, store', k) = Total(k)' + Extra(k)'
    BY <1>2, <1>3, <1>4
  <1>6. Weighed'
    BY <1>5 DEF Weighed
  <1>7. AllValid'
    <2>1. CASE engine = "jsc"
      BY <2>1, AnyKept DEF AllValid
    <2>2. CASE engine = "boa"
      <3>1. /\ frames' \in Seq(FrameSet("boa")) /\ payload' \in [Fields -> Maybe("boa")]
            /\ functions' \in [Halves -> Maybe("boa")] /\ host' \in Seq(Handles("boa"))
            /\ classes' \in Seq(Handles("boa"))
        BY <2>2, <1>0
      <3>2. \A k \in Keys("boa") :
              Weight("boa", store', k) >= Owned("boa", frames', k) + Number("boa", payload', k)
                + Number("boa", functions', k) + Number("boa", host', k)
                + (Number("boa", classes', k) + (IF k = 1 THEN 1 ELSE 0))
        BY <1>5, <2>2 DEF Total, Extra
      <3>3. AllIn("boa", store', frames', payload', functions', host', classes')
        BY <2>2, <3>1, <3>2, AllKept
      <3> QED
        BY <2>2, <3>3 DEF AllValid
    <2> QED
      BY <1>1, <2>1, <2>2
  <1> QED
    BY <1>6, <1>7

(* Stores one after the other: one that only grows, one that takes away.   *)
Grown(e, s, t, cs) == Moves(e, s, t, cs) /\ \A g : Valid(e, s, g) => Valid(e, t, g)

LEMMA StillGrown ==
  ASSUME NEW e, NEW s, Store(e, s)
  PROVE  Grown(e, s, s, {})
  BY DEF Grown, Moves, Keeps, Adds, OtherwiseSame

LEMMA GrownTwice ==
  ASSUME NEW e, NEW s, NEW t, NEW u, NEW cs, NEW ds, Grown(e, s, t, cs), Grown(e, t, u, ds)
  PROVE  Grown(e, s, u, cs \cup ds)
  <1>1. Store(e, u) /\ OtherwiseSame(e, s, u) /\ \A g : Valid(e, s, g) => Valid(e, u, g)
    BY DEF Grown, Moves, OtherwiseSame
  <1>2. Adds(e, s, u, cs \cup ds)
    BY DEF Grown, Moves, Adds
  <1> QED
    BY <1>1, <1>2 DEF Grown, Moves, Keeps

LEMMA AddsTwice ==
  ASSUME NEW e, NEW s, NEW t, NEW u, NEW cs, NEW ds, Moves(e, s, t, cs), Moves(e, t, u, ds)
  PROVE  Adds(e, s, u, cs \cup ds) /\ OtherwiseSame(e, s, u)
  <1>1. Adds(e, s, u, cs \cup ds)
    BY DEF Moves, Adds
  <1>2. OtherwiseSame(e, s, u)
    BY DEF Moves, OtherwiseSame
  <1> QED
    BY <1>1, <1>2

(* The objects that get roots are live, so those that have roots are.      *)
LEMMA LiveRoots ==
  ASSUME Balanced, Roots, Roots', engine' = engine, Store(engine, store'), NEW cs, Adds(engine, store, store', cs),
         engine \in {"boa", "jsc"}, Trampoline \notin cs, cs \cap Objects \subseteq live',
         engine = "jsc" => \A c \in Objects : store'.methods[c] = store.methods[c],
         Rooted \cap Objects \subseteq live', script' \subseteq live'
  PROVE  BoaOnly' /\ Lively'
  <1>1. CASE engine = "boa"
    <2>1. \A i \in DOMAIN store'.slots : \/ store'.slots[i].cell \in cs \cup {None}
                                         \/ i \in DOMAIN store.slots /\ store'.slots[i].cell = store.slots[i].cell
      BY <1>1 DEF Adds
    <2>2. \A i \in DOMAIN store.slots : /\ store.slots[i].cell = Trampoline => i = 1
                                        /\ store.slots[i].cell \in Objects => store.slots[i].cell \in live'
      BY <1>1 DEF Balanced, BoaOnly, Roots, Rooted, B!Rooted
    <2>3. None \notin Objects /\ Trampoline # None
      BY EnginesAssumption DEF Cells
    <2>4. \A i \in DOMAIN store'.slots : /\ store'.slots[i].cell = Trampoline => i = 1
                                         /\ store'.slots[i].cell \in Objects => store'.slots[i].cell \in live'
      BY <2>1, <2>2, <2>3
    <2>5. Lively'
      BY <1>1, <2>4 DEF Lively, Rooted, B!Rooted
    <2>6. BoaOnly'
      BY <1>1, <2>4 DEF BoaOnly, Roots
    <2> QED
      BY <2>5, <2>6
  <1>2. CASE engine = "jsc"
    <2>1. \A c \in Cells : store'.protected[c] > 0 => c \in cs \/ store.protected[c] > 0
      BY <1>2 DEF Adds
    <2>2. \A c \in Objects : store'.methods[c] = store.methods[c]
      BY <1>2
    <2>3. JscStore(store) /\ JscStore(store')
      BY <1>2 DEF Balanced, Store
    <2>4. ASSUME NEW c \in Objects, store'.protected[c] + store'.methods[c] > 0
          PROVE  c \in live'
      <3>1. /\ store.protected[c] \in Nat /\ store.methods[c] \in Nat /\ store'.protected[c] \in Nat
            /\ store'.methods[c] \in Nat /\ c \in Cells
        BY <2>3 DEF JscStore, Cells
      <3>2. c \in cs \/ store.protected[c] + store.methods[c] > 0
        BY <2>1, <2>2, <2>4, <3>1
      <3>3. c \in cs \/ c \in Rooted
        BY <1>2, <3>1, <3>2 DEF Rooted, J!Rooted
      <3> QED
        BY <3>3
    <2>5. Lively'
      BY <1>2, <2>4 DEF Lively, Rooted, J!Rooted
    <2> QED
      BY <1>2, <2>5 DEF BoaOnly
  <1> QED
    BY <1>1, <1>2

(* What an action that no class and no finalizer takes part in does to a   *)
(* store of roots: it grows, and then gives back.                          *)
Before == phase \notin {"tearing", "enqueued", "mopping", "context", "done"}

LEMMA UsualBefore ==
  ASSUME Shaped, Balanced, engine # "mock", Before, Before', Shaped',
         UNCHANGED <<engine, classes, finalizing, passed>>,
         NEW t, NEW cs, NEW ds, Moves(engine, store, t, cs), Moves(engine, t, store', ds),
         AllIn(engine, t, frames', payload', functions', host', classes'),
         \A k \in Keys(engine) : Weight(engine, store', k) + Total(k) = Weight(engine, store, k) + Total(k)',
         Trampoline \notin cs \cup ds, (cs \cup ds) \cap Objects \subseteq live', Rooted \cap Objects \subseteq live',
         script' \subseteq live'
  PROVE  Balanced'
  <1>1. engine \in {"boa", "jsc"} /\ Roots /\ Roots' /\ engine' = engine
    BY DEF Shaped, Roots, Rooting, Before
  <1>2. Store(engine, store) /\ Store(engine, store') /\ Keeps(engine, t, store')
    BY DEF Balanced, Moves
  <1>3. Adds(engine, store, store', cs \cup ds) /\ OtherwiseSame(engine, store, store')
    BY AddsTwice
  <1>4. \A k \in Keys(engine) : Extra(k)' = Extra(k) /\ (Exact(k)' => Exact(k))
    BY <1>1, <1>3 DEF Extra, Exact, OtherwiseSame, TrampolineHeld, Keys, Before
  <1>5. ASSUME NEW k \in Keys(engine)
        PROVE  Weight(engine, store', k) + (Total(k) + Extra(k)) = Weight(engine, store, k) + (Total(k)' + Extra(k)')
    BY <1>1, <1>2, <1>4, NumbersOfStep
  <1>6. AllValid' /\ Weighed'
    BY <1>1, <1>2, <1>4, <1>5, Settles
  <1>7. BoaOnly' /\ Lively'
    <2>1. engine = "jsc" => \A c \in Objects : store'.methods[c] = store.methods[c]
      BY <1>3 DEF OtherwiseSame
    <2> QED
      BY <1>1, <1>2, <1>3, <2>1, LiveRoots
  <1>8. JscOnly'
    BY <1>1, <1>3 DEF Balanced, JscOnly, OtherwiseSame, Rooting, Before
  <1> QED
    BY <1>1, <1>2, <1>6, <1>7, <1>8 DEF Balanced

LEMMA Usual ==
  ASSUME Shaped, Balanced, engine # "mock", phase = "running", Shaped',
         UNCHANGED <<engine, phase, classes, finalizing, passed>>,
         NEW t, NEW cs, NEW ds, Moves(engine, store, t, cs), Moves(engine, t, store', ds),
         AllIn(engine, t, frames', payload', functions', host', classes'),
         \A k \in Keys(engine) : Weight(engine, store', k) + Total(k) = Weight(engine, store, k) + Total(k)',
         Trampoline \notin cs \cup ds, (cs \cup ds) \cap Objects \subseteq live', live \subseteq live',
         script' \subseteq live'
  PROVE  Balanced'
  <1>1. Before /\ Before' /\ UNCHANGED <<engine, classes, finalizing, passed>>
    BY DEF Before
  <1>2. Rooted \cap Objects \subseteq live'
    BY DEF Balanced, Lively
  <1> QED
    BY <1>1, <1>2, UsualBefore

(***************************************************************************)
(* The mock.                                                               *)
(***************************************************************************)
LEMMA MockTimes ==
  ASSUME NEW hs, NEW c
  PROVE  M!Times(hs, c) = Number("mock", hs, c)
  <1>1. {j \in DOMAIN hs : hs[j].of = c} = Uses("mock", hs, c)
    BY DEF Uses, Key
  <1>2. \A S : M!Cardinality(S) = Cardinality(S)
    BY DEF M!Cardinality, Cardinality
  <1> QED
    BY <1>1, <1>2 DEF M!Times, Number

LEMMA MockAlias ==
  ASSUME NEW s, Store("mock", s), M!Unused(s) # {}
  PROVE  LET t == M!TrackedAlias(s)  n == M!FreshAlias(s) IN
         /\ Store("mock", t) /\ n \in 1 .. MaxAliases /\ n \notin s.aliases /\ n \in 0 .. MaxAliases /\ n # 0
         /\ \A m : m \in t.aliases <=> m \in s.aliases \/ m = n
         /\ t.dups = s.dups /\ t.panicked = s.panicked
  <1> DEFINE t == M!TrackedAlias(s)  n == M!FreshAlias(s)
  <1>1. MockStore(s)
    BY DEF Store
  <1>2. n \in 1 .. MaxAliases /\ n \notin s.aliases
    BY DEF M!Unused, M!FreshAlias
  <1>3. n \in 0 .. MaxAliases /\ n # 0
    BY <1>2, EnginesAssumption
  <1>4. t = [s EXCEPT !.aliases = s.aliases \cup {n}]
    BY <1>1 DEF M!TrackedAlias, MockStore
  <1> HIDE DEF t, n
  <1>5. MockStore(t) /\ t.aliases = s.aliases \cup {n} /\ t.dups = s.dups /\ t.panicked = s.panicked
    BY <1>1, <1>2, <1>4 DEF MockStore
  <1> QED
    BY <1>2, <1>3, <1>5 DEF Store, t, n

LEMMA MockDuplicate ==
  ASSUME NEW s, Store("mock", s), NEW c \in Cells
  PROVE  LET t == M!DuplicateValue(s, c) IN
         /\ Store("mock", t) /\ t.aliases = s.aliases /\ t.panicked = s.panicked
         /\ \A d \in Cells : t.dups[d] = s.dups[d] + (IF d = c THEN 1 ELSE 0)
  <1>1. MockStore(s)
    BY DEF Store
  <1>2. M!DuplicateValue(s, c) = [s EXCEPT !.dups = [s.dups EXCEPT ![c] = s.dups[c] + 1]]
    BY <1>1 DEF M!DuplicateValue, MockStore
  <1> DEFINE t == M!DuplicateValue(s, c)
  <1> HIDE DEF t
  <1>3. /\ MockStore(t) /\ t.aliases = s.aliases /\ t.panicked = s.panicked
        /\ \A d \in Cells : t.dups[d] = s.dups[d] + (IF d = c THEN 1 ELSE 0)
    BY <1>1, <1>2 DEF MockStore, t
  <1> QED
    BY <1>3 DEF Store, t

LEMMA MockRelease ==
  ASSUME NEW s, Store("mock", s), NEW hs, IsFiniteSet(DOMAIN hs), \A x \in DOMAIN hs : hs[x].ref = 0,
         \A c \in Cells : Number("mock", hs, c) <= s.dups[c]
  PROVE  LET t == M!ReleaseValues(s, hs) IN
         /\ Store("mock", t) /\ t.aliases = s.aliases /\ t.panicked = s.panicked
         /\ \A c \in Cells : t.dups[c] = s.dups[c] - Number("mock", hs, c)
  <1> DEFINE t == M!ReleaseValues(s, hs)
  <1>1. MockStore(s)
    BY DEF Store
  <1>2. \A c \in Cells : /\ M!Times(hs, c) = Number("mock", hs, c) /\ M!Times(hs, c) \in Nat
                         /\ s.dups[c] \in Nat /\ M!Times(hs, c) <= s.dups[c]
    <2>1. \A c : M!Times(hs, c) = Number("mock", hs, c) /\ Number("mock", hs, c) \in Nat
      BY MockTimes, UsesFinite
    <2> QED
      BY <1>1, <2>1 DEF MockStore
  <1> DEFINE dups == [c \in Cells |-> IF M!Times(hs, c) > s.dups[c] THEN 0 ELSE s.dups[c] - M!Times(hs, c)]
             panics == s.panicked \/ (\E j \in DOMAIN hs : hs[j].ref # 0) \/ \E c \in Cells : M!Times(hs, c) > s.dups[c]
  <1>3. t = [s EXCEPT !.dups = dups, !.panicked = panics]
    BY <1>1 DEF M!ReleaseValues, MockStore
  <1>4. panics = s.panicked
    <2>1. ~\E c \in Cells : M!Times(hs, c) > s.dups[c]
      BY <1>2
    <2>2. s.panicked \in BOOLEAN
      BY <1>1 DEF MockStore
    <2> QED
      BY <2>1, <2>2
  <1>5. dups \in [Cells -> Nat] /\ \A c \in Cells : dups[c] = s.dups[c] - Number("mock", hs, c)
    BY <1>2
  <1> HIDE DEF dups, panics, t
  <1>6. MockStore(t) /\ t.aliases = s.aliases /\ t.panicked = s.panicked /\ t.dups = dups
    BY <1>1, <1>3, <1>4, <1>5 DEF MockStore
  <1> QED
    BY <1>5, <1>6 DEF Store, t

LEMMA MockEnds ==
  ASSUME NEW s, Store("mock", s), NEW hs
  PROVE  LET t == M!EndScope(s, hs) IN
         /\ Store("mock", t) /\ t.dups = s.dups /\ t.panicked = s.panicked
         /\ \A n : n \in t.aliases <=> n \in s.aliases /\ \A i \in DOMAIN hs : hs[i].ref # n
  <1> DEFINE t == M!EndScope(s, hs)  left == s.aliases \ {hs[i].ref : i \in DOMAIN hs}
  <1>1. MockStore(s)
    BY DEF Store
  <1>2. t = [s EXCEPT !.aliases = left]
    BY <1>1 DEF M!EndScope, MockStore
  <1>3. \A n : n \in left <=> n \in s.aliases /\ \A i \in DOMAIN hs : hs[i].ref # n
    OBVIOUS
  <1>4. left \subseteq s.aliases
    OBVIOUS
  <1> HIDE DEF t, left
  <1>5. MockStore(t) /\ t.aliases = left /\ t.panicked = s.panicked /\ t.dups = s.dups
    BY <1>1, <1>2, <1>4 DEF MockStore
  <1> QED
    BY <1>3, <1>5 DEF Store, t

(***************************************************************************)
(* What the operations return is a handle of the cell, in each engine.     *)
(***************************************************************************)
LEMMA ResultTyped ==
  ASSUME engine \in {"boa", "jsc", "mock"}, NEW s, Store(engine, s), NEW c \in Cells
  PROVE  /\ Made(s, c).handle \in Handles(engine) /\ Made(s, c).handle.of = c
         /\ Thrown(s, c).handle \in Handles(engine) /\ Thrown(s, c).handle.of = c
         /\ engine = "mock" => /\ Made(s, c).store = s /\ Thrown(s, c).store = s
                               /\ Made(s, c).handle.ref = 0 /\ Thrown(s, c).handle.ref = 0
         /\ (engine = "mock" => M!Unused(s) # {}) => /\ Returned(s, c).handle \in Handles(engine)
                                                    /\ Returned(s, c).handle.of = c
         /\ engine = "mock" => /\ Returned(s, c).store = M!TrackedAlias(s)
                               /\ Returned(s, c).handle.ref = M!FreshAlias(s)
         /\ engine = "boa" => Thrown(s, c) = Returned(s, c)
         /\ engine = "jsc" => Thrown(s, c).store = s
  <1>1. CASE engine = "boa"
    <2>1. Thrown(s, c) = Returned(s, c) /\ Made(s, c) = Returned(s, c)
      BY <1>1 DEF Thrown, Returned, Made, B!Thrown, B!Made
    <2>2. Returned(s, c).handle.of = c /\ Valid(engine, Returned(s, c).store, Returned(s, c).handle)
      BY <1>1, ReturnedFacts
    <2> QED
      BY <1>1, <2>1, <2>2 DEF Valid
  <1>2. CASE engine = "jsc"
    <2>1. /\ Thrown(s, c).handle = J!Pointer(c) /\ Made(s, c).handle = J!Pointer(c) /\ Thrown(s, c).store = s
          /\ Returned(s, c).handle = J!Pointer(c)
      BY <1>2 DEF Thrown, Returned, Made, J!Thrown, J!Made, J!Returned
    <2>2. J!Pointer(c) \in Handles("jsc") /\ J!Pointer(c).of = c
      BY DEF J!Pointer, Handles
    <2> QED
      BY <1>2, <2>1, <2>2
  <1>3. CASE engine = "mock"
    <2>1. /\ Thrown(s, c).handle = M!Canonical(c) /\ Made(s, c).handle = M!Canonical(c)
          /\ Thrown(s, c).store = s /\ Made(s, c).store = s
          /\ Returned(s, c).handle = [of |-> c, ref |-> M!FreshAlias(s)] /\ Returned(s, c).store = M!TrackedAlias(s)
      BY <1>3 DEF Thrown, Returned, Made, M!Thrown, M!Made, M!Returned
    <2>2. M!Canonical(c) \in Handles("mock") /\ M!Canonical(c).of = c /\ M!Canonical(c).ref = 0
      BY EnginesAssumption DEF M!Canonical, Handles
    <2>3. M!Unused(s) # {} => [of |-> c, ref |-> M!FreshAlias(s)] \in Handles("mock")
      BY <1>3, MockAlias DEF Handles
    <2> QED
      BY <1>3, <2>1, <2>2, <2>3
  <1> QED
    BY <1>1, <1>2, <1>3

(***************************************************************************)
(* The frame on top gets a step, a result and a scope.                     *)
(***************************************************************************)
Steps == {"body", "making", "pump", "prepare", "settling", "drain"}
TopBecomes(st, r, o) ==
  /\ frames # <<>> /\ frames' \in Seq(FrameSet(engine)) /\ frames' # <<>> /\ DOMAIN frames' = DOMAIN frames
  /\ Depth' = Depth /\ Top' = frames'[Depth]
  /\ \A i \in DOMAIN frames : i # Depth => frames'[i] = frames[i]
  /\ Top'.kind = Top.kind /\ Top'.this = Top.this /\ Top'.arg = Top.arg /\ Top'.stack = Top.stack
  /\ Top'.step = st /\ Top'.result = r /\ Top'.owned = o
  /\ o = Top.owned => /\ \A k : Owned(engine, frames', k) = Owned(engine, frames, k)
                      /\ \A s : FramesIn(engine, s, frames) => FramesIn(engine, s, frames')
  /\ \A h \in Handles(engine) : o = Append(Top.owned, h) =>
       /\ \A k : Owned(engine, frames', k) = Owned(engine, frames, k) + One(engine, h, k)
       /\ \A s : FramesIn(engine, s, frames) /\ Valid(engine, s, h) => FramesIn(engine, s, frames')

LEMMA Becomes ==
  ASSUME Shaped, frames # <<>>, NEW g \in FrameSet(engine), SetTop(g), NEW st, NEW r, NEW o,
         g.kind = Top.kind, g.this = Top.this, g.arg = Top.arg, g.stack = Top.stack,
         g.step = st, g.result = r, g.owned = o
  PROVE  TopBecomes(st, r, o)
  <1>1. /\ frames' \in Seq(FrameSet(engine)) /\ frames' # <<>> /\ DOMAIN frames' = DOMAIN frames
        /\ frames'[Depth] = g /\ Len(frames') = Depth /\ \A i \in DOMAIN frames : i # Depth => frames'[i] = frames[i]
    BY TopChanged
  <1>2. Depth' = Depth /\ Top' = g /\ Top' = frames'[Depth]
    BY <1>1 DEF Depth, Top
  <1>3. o = Top.owned => /\ \A k : Owned(engine, frames', k) = Owned(engine, frames, k)
                         /\ \A s : FramesIn(engine, s, frames) => FramesIn(engine, s, frames')
    BY TopSame
  <1>4. \A h \in Handles(engine) : o = Append(Top.owned, h) =>
          /\ \A k : Owned(engine, frames', k) = Owned(engine, frames, k) + One(engine, h, k)
          /\ \A s : FramesIn(engine, s, frames) /\ Valid(engine, s, h) => FramesIn(engine, s, frames')
    BY TopOwns
  <1> QED
    BY <1>1, <1>2, <1>3, <1>4 DEF TopBecomes

LEMMA Edits ==
  ASSUME NEW e, NEW f \in FrameSet(e), NEW st \in Steps, NEW r \in Maybe(e), NEW o \in Seq(Handles(e)), NEW g,
         g = [f EXCEPT !.step = st, !.result = r, !.owned = o]
  PROVE  /\ g \in FrameSet(e) /\ g.kind = f.kind /\ g.this = f.this /\ g.arg = f.arg /\ g.stack = f.stack
         /\ g.step = st /\ g.result = r /\ g.owned = o
  BY DEF FrameSet, Steps

LEMMA EditOf ==
  ASSUME NEW e, NEW f \in FrameSet(e), NEW st, NEW r, NEW o
  PROVE  /\ [f EXCEPT !.step = st] = [f EXCEPT !.step = st, !.result = f.result, !.owned = f.owned]
         /\ [f EXCEPT !.result = r] = [f EXCEPT !.step = f.step, !.result = r, !.owned = f.owned]
         /\ [f EXCEPT !.owned = o] = [f EXCEPT !.step = f.step, !.result = f.result, !.owned = o]
         /\ [f EXCEPT !.step = st, !.result = r] = [f EXCEPT !.step = st, !.result = r, !.owned = f.owned]
         /\ [[f EXCEPT !.result = r] EXCEPT !.owned = o] = [f EXCEPT !.step = f.step, !.result = r, !.owned = o]
         /\ [[f EXCEPT !.step = st, !.result = r] EXCEPT !.owned = o]
              = [f EXCEPT !.step = st, !.result = r, !.owned = o]
         /\ f.step \in Steps /\ f.result \in Maybe(e) /\ f.owned \in Seq(Handles(e))
  BY DEF FrameSet, Steps

LEMMA TopSteps ==
  ASSUME Shaped, frames # <<>>
  PROVE  /\ \A st \in Steps : SetTop([Top EXCEPT !.step = st]) => TopBecomes(st, Top.result, Top.owned)
         /\ \A r \in Maybe(engine) : SetTop([Top EXCEPT !.result = r]) => TopBecomes(Top.step, r, Top.owned)
         /\ \A o \in Seq(Handles(engine)) : SetTop([Top EXCEPT !.owned = o]) => TopBecomes(Top.step, Top.result, o)
         /\ \A st \in Steps : \A r \in Maybe(engine) :
              SetTop([Top EXCEPT !.step = st, !.result = r]) => TopBecomes(st, r, Top.owned)
         /\ \A r \in Maybe(engine) : \A o \in Seq(Handles(engine)) :
              SetTop([[Top EXCEPT !.result = r] EXCEPT !.owned = o]) => TopBecomes(Top.step, r, o)
         /\ \A st \in Steps : \A r \in Maybe(engine) : \A o \in Seq(Handles(engine)) :
              SetTop([[Top EXCEPT !.step = st, !.result = r] EXCEPT !.owned = o]) => TopBecomes(st, r, o)
  <1>1. Top \in FrameSet(engine)
    BY TopFacts
  <1>2. Top.step \in Steps /\ Top.result \in Maybe(engine) /\ Top.owned \in Seq(Handles(engine))
    BY <1>1, EditOf
  <1>3. ASSUME NEW st \in Steps, NEW r \in Maybe(engine), NEW o \in Seq(Handles(engine)), NEW g,
               g = [Top EXCEPT !.step = st, !.result = r, !.owned = o], SetTop(g)
        PROVE  TopBecomes(st, r, o)
    <2>1. /\ g \in FrameSet(engine) /\ g.kind = Top.kind /\ g.this = Top.this /\ g.arg = Top.arg /\ g.stack = Top.stack
          /\ g.step = st /\ g.result = r /\ g.owned = o
      BY <1>1, <1>3 DEF FrameSet, Steps
    <2> QED
      BY <1>3, <2>1, Becomes
  <1>4. \A st \in Steps : SetTop([Top EXCEPT !.step = st]) => TopBecomes(st, Top.result, Top.owned)
    BY <1>1, <1>2, <1>3, EditOf
  <1>5. \A r \in Maybe(engine) : SetTop([Top EXCEPT !.result = r]) => TopBecomes(Top.step, r, Top.owned)
    BY <1>1, <1>2, <1>3, EditOf
  <1>6. \A o \in Seq(Handles(engine)) : SetTop([Top EXCEPT !.owned = o]) => TopBecomes(Top.step, Top.result, o)
    BY <1>1, <1>2, <1>3, EditOf
  <1>7. \A st \in Steps : \A r \in Maybe(engine) :
          SetTop([Top EXCEPT !.step = st, !.result = r]) => TopBecomes(st, r, Top.owned)
    BY <1>1, <1>2, <1>3, EditOf
  <1>8. \A r \in Maybe(engine) : \A o \in Seq(Handles(engine)) :
          SetTop([[Top EXCEPT !.result = r] EXCEPT !.owned = o]) => TopBecomes(Top.step, r, o)
    BY <1>1, <1>2, <1>3, EditOf
  <1>9. \A st \in Steps : \A r \in Maybe(engine) : \A o \in Seq(Handles(engine)) :
          SetTop([[Top EXCEPT !.step = st, !.result = r] EXCEPT !.owned = o]) => TopBecomes(st, r, o)
    BY <1>1, <1>2, <1>3, EditOf
  <1> QED
    BY <1>4, <1>5, <1>6, <1>7, <1>8, <1>9

\* The scope after a step that may give it a handle.
ScopeWith(h, owns) == IF owns THEN Append(Top.owned, h) ELSE Top.owned

LEMMA TopOwnings ==
  ASSUME Shaped, frames # <<>>, NEW h \in Handles(engine), NEW owns \in BOOLEAN
  PROVE  /\ SetTop(Owning(Top, h, owns)) => TopBecomes(Top.step, Top.result, ScopeWith(h, owns))
         /\ \A r \in Maybe(engine) :
              SetTop(Owning([Top EXCEPT !.result = r], h, owns)) => TopBecomes(Top.step, r, ScopeWith(h, owns))
         /\ \A st \in Steps : \A r \in Maybe(engine) :
              SetTop(Owning([Top EXCEPT !.step = st, !.result = r], h, owns)) => TopBecomes(st, r, ScopeWith(h, owns))
         /\ Range(ScopeWith(h, owns)) = Range(Top.owned) \cup (IF owns THEN {h} ELSE {})
  <1>1. Top \in FrameSet(engine) /\ Top.owned \in Seq(Handles(engine)) /\ Append(Top.owned, h) \in Seq(Handles(engine))
    BY TopFacts, FrameShape
  <1>2. Range(ScopeWith(h, owns)) = Range(Top.owned) \cup (IF owns THEN {h} ELSE {})
    <2>1. /\ Len(Top.owned) \in Nat /\ DOMAIN Append(Top.owned, h) = DOMAIN Top.owned \cup {Len(Top.owned) + 1}
          /\ Append(Top.owned, h)[Len(Top.owned) + 1] = h
          /\ \A j \in DOMAIN Top.owned : Append(Top.owned, h)[j] = Top.owned[j]
      BY <1>1
    <2>2. Range(Append(Top.owned, h)) = Range(Top.owned) \cup {h}
      BY <2>1 DEF Range
    <2> QED
      BY <2>2 DEF ScopeWith
  <1>3. ASSUME SetTop(Owning(Top, h, owns))
        PROVE  TopBecomes(Top.step, Top.result, ScopeWith(h, owns))
    <2>1. Owning(Top, h, owns) = [Top EXCEPT !.owned = ScopeWith(h, owns)]
      BY <1>1 DEF Owning, ScopeWith, FrameSet
    <2>2. ScopeWith(h, owns) \in Seq(Handles(engine))
      BY <1>1 DEF ScopeWith
    <2> QED
      BY <1>3, <2>1, <2>2, TopSteps
  <1>4. ASSUME NEW r \in Maybe(engine), SetTop(Owning([Top EXCEPT !.result = r], h, owns))
        PROVE  TopBecomes(Top.step, r, ScopeWith(h, owns))
    <2>1. Owning([Top EXCEPT !.result = r], h, owns) = [[Top EXCEPT !.result = r] EXCEPT !.owned = ScopeWith(h, owns)]
      BY <1>1 DEF Owning, ScopeWith, FrameSet
    <2>2. ScopeWith(h, owns) \in Seq(Handles(engine))
      BY <1>1 DEF ScopeWith
    <2>3. SetTop([[Top EXCEPT !.result = r] EXCEPT !.owned = ScopeWith(h, owns)])
      BY <1>4, <2>1
    <2> QED
      BY <2>2, <2>3, TopSteps
  <1>5. ASSUME NEW st \in Steps, NEW r \in Maybe(engine), SetTop(Owning([Top EXCEPT !.step = st, !.result = r], h, owns))
        PROVE  TopBecomes(st, r, ScopeWith(h, owns))
    <2>1. Owning([Top EXCEPT !.step = st, !.result = r], h, owns)
            = [[Top EXCEPT !.step = st, !.result = r] EXCEPT !.owned = ScopeWith(h, owns)]
      BY <1>1 DEF Owning, ScopeWith, FrameSet
    <2>2. ScopeWith(h, owns) \in Seq(Handles(engine))
      BY <1>1 DEF ScopeWith
    <2>3. SetTop([[Top EXCEPT !.step = st, !.result = r] EXCEPT !.owned = ScopeWith(h, owns)])
      BY <1>5, <2>1
    <2> QED
      BY <2>2, <2>3, TopSteps
  <1> QED
    BY <1>2, <1>3, <1>4, <1>5

(* A callback's step leaves other frames, what is prepared and what is kept*)
(* as they are.                                                            *)
LEMMA CallbackKeeps ==
  ASSUME IInv, InCall, NEW st \in {"body", "making"}, NEW r, NEW o, TopBecomes(st, r, o),
         UNCHANGED <<engine, phase>>, live \subseteq live', Range(Top.owned) \subseteq Range(o),
         \A w \in Wrappers : payload[<<w, "attribute">>] # NoHandle => payload'[<<w, "attribute">>] = payload[<<w, "attribute">>],
         \/ r \in Range(o) \cup {NoHandle} \/ r = payload'[<<Top.this.of, "attribute">>]
         \/ engine = "mock" /\ r.ref = 0
  PROVE  /\ Framed'
         /\ UNCHANGED <<deferred, batch>> => Batched'
         /\ UNCHANGED <<deferred, batch, functions, outstanding, removals, dangling>> => Kept'
  <1>1. /\ Depth \in DOMAIN frames /\ Depth > 0 /\ Depth \in Nat /\ Top = frames[Depth] /\ 1 \in DOMAIN frames
        /\ DOMAIN frames = 1 .. Depth /\ Top.kind = "call" /\ phase = "running"
    BY TopFacts DEF IInv, InCall, TopBecomes
  <1>2. /\ DOMAIN frames' = DOMAIN frames /\ frames' # <<>> /\ Top' = frames'[Depth]
        /\ \A i \in DOMAIN frames : i # Depth => frames'[i] = frames[i]
        /\ Top'.kind = Top.kind /\ Top'.this = Top.this /\ Top'.arg = Top.arg /\ Top'.stack = Top.stack
        /\ Top'.step = st /\ Top'.result = r /\ Top'.owned = o
    BY DEF TopBecomes
  <1>3. /\ phase \in PhasesOf(engine)
        /\ \A i \in DOMAIN frames : /\ frames[i].kind = "tick" => i = 1 /\ TickFrame(frames[i])
                                    /\ frames[i].kind = "call" => CallFrame(frames[i])
                                    /\ frames[i].stack \subseteq live
    BY DEF IInv, Framed
  <1>4. CallFrame(Top) /\ Top.step \in {"body", "making"}
    BY <1>1, <1>3 DEF CallFrame
  <1>5. CallFrame(Top)'
    BY <1>2, <1>4 DEF CallFrame
  <1>6. \A i \in DOMAIN frames : i # Depth /\ frames[i].kind = "call" => CallFrame(frames[i])'
    <2> SUFFICES ASSUME NEW i \in DOMAIN frames, i # Depth, frames[i].kind = "call"
                 PROVE  CallFrame(frames[i])'
      OBVIOUS
    <2>1. CallFrame(frames[i]) /\ frames'[i] = frames[i]
      BY <1>2, <1>3
    <2>2. frames[i].this.of \in Wrappers
      BY <2>1 DEF CallFrame
    <2> QED
      BY <2>1, <2>2 DEF CallFrame
  <1>7. Framed'
    BY <1>1, <1>2, <1>3, <1>5, <1>6 DEF Framed, TickFrame
  <1>8. /\ frames'[1].step = frames[1].step \/ frames'[1].step \in {"body", "making"}
        /\ frames[1].kind = "tick" => frames'[1] = frames[1]
        /\ frames'[1].step \notin {"body", "making"} => frames'[1] = frames[1]
    BY <1>1, <1>2
  <1>9. UNCHANGED <<deferred, batch>> => Batched'
    BY <1>1, <1>2, <1>8 DEF IInv, Batched
  <1>10. UNCHANGED <<deferred, batch, functions, outstanding, removals, dangling>> => Kept'
    BY <1>1, <1>2, <1>8 DEF IInv, Kept, Unused
  <1> QED
    BY <1>7, <1>9, <1>10

LEMMA UsualGrown ==
  ASSUME Shaped, Balanced, engine # "mock", phase = "running", Shaped',
         UNCHANGED <<engine, phase, classes, finalizing, passed>>,
         NEW cs, Grown(engine, store, store', cs),
         AllIn(engine, store', frames', payload', functions', host', classes'),
         \A k \in Keys(engine) : Weight(engine, store', k) + Total(k) = Weight(engine, store, k) + Total(k)',
         Trampoline \notin cs, cs \cap Objects \subseteq live', live \subseteq live', script' \subseteq live'
  PROVE  Balanced'
  <1>1. Moves(engine, store, store', cs) /\ Moves(engine, store', store', {})
    BY StillGrown DEF Grown, Moves
  <1> QED
    BY <1>1, Usual

LEMMA TotalOwns ==
  ASSUME Shaped, UNCHANGED <<engine, payload, functions, host>>, NEW k, NEW n \in Int,
         Owned(engine, frames', k) = Owned(engine, frames, k) + n
  PROVE  Total(k)' = Total(k) + n /\ Total(k) \in Nat
  <1>1. /\ Owned(engine, frames, k) \in Nat /\ Number(engine, payload, k) \in Nat
        /\ Number(engine, functions, k) \in Nat /\ Number(engine, host, k) \in Nat
    BY ShapedPlaces, TotalsNat
  <1> QED
    BY <1>1 DEF Total

(* The scope of the frame on top gets a handle that an operation returned. *)
LEMMA OwnedGrown ==
  ASSUME Shaped, Balanced, engine # "mock", phase = "running", Shaped',
         UNCHANGED <<engine, phase, payload, functions, host, classes, finalizing, passed>>,
         NEW st, NEW r, NEW h \in Handles(engine), TopBecomes(st, r, Append(Top.owned, h)),
         NEW c, Grown(engine, store, store', {c}), Valid(engine, store', h),
         \A k \in Keys(engine) : Weight(engine, store', k) = Weight(engine, store, k) + One(engine, h, k),
         c # Trampoline, c \in Objects => c \in live', live \subseteq live', script' \subseteq live'
  PROVE  Balanced'
  <1>1. engine \in {"boa", "jsc"} /\ Store(engine, store) /\ \A g : Valid(engine, store, g) => Valid(engine, store', g)
    BY DEF Shaped, Balanced, Grown
  <1>2. /\ \A k : Owned(engine, frames', k) = Owned(engine, frames, k) + One(engine, h, k)
        /\ FramesIn(engine, store', frames) => FramesIn(engine, store', frames')
    BY DEF TopBecomes
  <1>3. AllIn(engine, store', frames', payload', functions', host', classes')
    <2>1. AllIn(engine, store, frames, payload, functions, host, classes)
      BY DEF Balanced, AllValid, Roots, Rooting
    <2>2. AllIn(engine, store', frames, payload, functions, host, classes)
      BY <1>1, <2>1, AllGrow
    <2> QED
      BY <1>2, <2>2 DEF AllIn
  <1>4. \A k \in Keys(engine) : Weight(engine, store', k) + Total(k) = Weight(engine, store, k) + Total(k)'
    <2>1. \A k : One(engine, h, k) \in Nat
      BY DEF One
    <2>2. \A k : Total(k)' = Total(k) + One(engine, h, k) /\ Total(k) \in Nat
      BY <1>2, <2>1, TotalOwns
    <2>3. \A k \in Keys(engine) : Weight(engine, store, k) \in Nat
      BY <1>1, WeightIsNat
    <2> QED
      BY <2>1, <2>2, <2>3
  <1> QED
    BY <1>3, <1>4, UsualGrown

LEMMA MockBalanced ==
  ASSUME engine = "mock", engine' = engine, Store("mock", store'), script' \subseteq live'
  PROVE  Balanced'
  BY DEF Balanced, AllValid, Weighed, BoaOnly, JscOnly, Lively, Roots

(* Only what a frame on top owns nothing of changes.                       *)
LEMMA StoreStays ==
  ASSUME Shaped, Balanced, phase = "running", Shaped',
         UNCHANGED <<engine, phase, store, payload, functions, host, classes, finalizing, passed>>,
         live \subseteq live', script' \subseteq live', NEW st, NEW r, TopBecomes(st, r, Top.owned)
  PROVE  Balanced'
  <1>1. CASE engine = "mock"
    BY <1>1, MockBalanced DEF Balanced
  <1>2. CASE engine # "mock"
    <2>1. Grown(engine, store, store', {})
      BY StillGrown DEF Balanced
    <2>2. /\ \A k : Owned(engine, frames', k) = Owned(engine, frames, k)
          /\ \A s : FramesIn(engine, s, frames) => FramesIn(engine, s, frames')
      BY DEF TopBecomes
    <2>3. AllIn(engine, store', frames', payload', functions', host', classes')
      BY <1>2, <2>2 DEF Balanced, AllValid, Roots, Rooting, AllIn
    <2>4. \A k \in Keys(engine) : Weight(engine, store', k) + Total(k) = Weight(engine, store, k) + Total(k)'
      BY <2>2 DEF Total
    <2>5. Trampoline \notin {} /\ {} \cap Objects \subseteq live' /\ live \subseteq live'
      OBVIOUS
    <2> QED
      BY <1>2, <2>1, <2>3, <2>4, <2>5, UsualGrown
  <1> QED
    BY <1>1, <1>2

LEMMA ScopesSame ==
  ASSUME Shaped, NEW st, NEW r, TopBecomes(st, r, Top.owned), NEW aliases, MockScopes(aliases, frames)
  PROVE  MockScopes(aliases, frames')
  <1>1. \A i \in DOMAIN frames : frames'[i].owned = frames[i].owned
    BY TopFacts DEF TopBecomes
  <1>2. DOMAIN frames' = DOMAIN frames
    BY DEF TopBecomes
  <1> QED
    BY <1>1, <1>2 DEF MockScopes

LEMMA ScopesMore ==
  ASSUME Shaped, NEW st, NEW r, NEW h, TopBecomes(st, r, Append(Top.owned, h)), NEW aliases, h.ref \notin aliases,
         MockScopes(aliases, frames), NEW more, \A n : n \in more <=> n \in aliases \/ n = h.ref
  PROVE  MockScopes(more, frames')
  <1>1. Top.owned \in Seq(Handles(engine)) /\ Top = frames[Depth] /\ Depth \in DOMAIN frames
    BY TopFacts, FrameShape DEF TopBecomes
  <1> DEFINE n == Len(Top.owned) + 1
  <1>2. /\ DOMAIN Append(Top.owned, h) = DOMAIN Top.owned \cup {n} /\ n \notin DOMAIN Top.owned
        /\ Append(Top.owned, h)[n] = h /\ \A j \in DOMAIN Top.owned : Append(Top.owned, h)[j] = Top.owned[j]
    BY <1>1
  <1> HIDE DEF n
  <1>3. /\ DOMAIN frames' = DOMAIN frames /\ frames'[Depth].owned = Append(Top.owned, h)
        /\ \A i \in DOMAIN frames : i # Depth => frames'[i] = frames[i]
    BY DEF TopBecomes
  <1>4. \A i \in DOMAIN frames : \A j : j \in DOMAIN frames'[i].owned <=> j \in DOMAIN frames[i].owned \/ (i = Depth /\ j = n)
    BY <1>1, <1>2, <1>3
  <1>5. /\ \A i \in DOMAIN frames : \A j \in DOMAIN frames[i].owned : frames'[i].owned[j] = frames[i].owned[j]
        /\ frames'[Depth].owned[n] = h
    BY <1>1, <1>2, <1>3
  <1>6. \A i \in DOMAIN frames : \A j \in DOMAIN frames[i].owned : frames[i].owned[j].ref \in aliases
    BY DEF MockScopes
  <1>7. \A k : k \in more <=> \E i \in DOMAIN frames' : \E j \in DOMAIN frames'[i].owned : frames'[i].owned[j].ref = k
    BY <1>1, <1>3, <1>4, <1>5 DEF MockScopes
  <1>8. \A i, l \in DOMAIN frames' : \A j \in DOMAIN frames'[i].owned : \A m \in DOMAIN frames'[l].owned :
          frames'[i].owned[j].ref = frames'[l].owned[m].ref => i = l /\ j = m
    BY <1>3, <1>4, <1>5, <1>6 DEF MockScopes
  <1> QED
    BY <1>7, <1>8 DEF MockScopes

(***************************************************************************)
(* Callbacks.                                                              *)
(***************************************************************************)
LEMMA LookUpStep ==
  ASSUME IInv, NEW c \in Objects, LookUp(c)
  PROVE  IInv'
  <1> DEFINE r == Returned(store, c)  h == r.handle
  <1>1. /\ InCall /\ frames # <<>> /\ Shaped /\ Balanced /\ Store(engine, store) /\ c \in Cells /\ phase = "running"
        /\ engine \in {"boa", "jsc", "mock"} /\ Top.step = "body" /\ (engine = "mock" => M!Unused(store) # {})
        /\ c # Trampoline /\ live \subseteq live' /\ c \in live' /\ live' \subseteq Objects
        /\ store' = r.store /\ UNCHANGED <<engine, phase, script, payload, async, rest>>
    BY EnginesAssumption DEF IInv, Balanced, Shaped, LookUp, InCall, Top, NoFrame, Cells, Room, Trampoline
  <1>2. h \in Handles(engine) /\ h.of = c
    BY <1>1, ResultTyped
  <1>3. TopBecomes(Top.step, Top.result, ScopeWith(h, TRUE)) /\ Range(Top.owned) \subseteq Range(ScopeWith(h, TRUE))
    BY <1>1, <1>2, TopOwnings DEF LookUp
  <1>4. ScopeWith(h, TRUE) = Append(Top.owned, h)
    BY DEF ScopeWith
  <1> HIDE DEF r, h
  <1>5. Shaped'
    BY <1>1, <1>3 DEF Shaped, TopBecomes, async, rest
  <1>6. Framed' /\ Batched' /\ Kept'
    <2>1. CallFrame(Top)
      BY <1>1, TopFacts DEF IInv, Framed, InCall
    <2>2. \/ Top.result \in Range(ScopeWith(h, TRUE)) \cup {NoHandle} \/ Top.result = payload'[<<Top.this.of, "attribute">>]
          \/ engine = "mock" /\ Top.result.ref = 0
      BY <1>1, <1>3, <2>1 DEF CallFrame
    <2> QED
      BY <1>1, <1>3, <2>2, CallbackKeeps DEF async, rest
  <1>7. Balanced'
    <2>1. CASE engine = "mock"
      <3>1. Store("mock", store')
        BY <1>1, <2>1, ResultTyped, MockAlias DEF r
      <3> QED
        BY <1>1, <2>1, <3>1, MockBalanced DEF Balanced, Lively
    <2>2. CASE engine # "mock"
      <3>1. /\ Moves(engine, store, store', {c}) /\ Valid(engine, store', h)
            /\ \A g : Valid(engine, store, g) => Valid(engine, store', g)
            /\ \A k \in Keys(engine) : Weight(engine, store', k) = Weight(engine, store, k) + One(engine, h, k)
        BY <1>1, <2>2, ReturnedFacts DEF r, h
      <3>2. Grown(engine, store, store', {c})
        BY <3>1 DEF Grown
      <3> QED
        BY <1>1, <1>2, <1>3, <1>4, <1>5, <2>2, <3>1, <3>2, OwnedGrown DEF Balanced, Lively, async, rest
    <2> QED
      BY <2>1, <2>2
  <1>8. MockOnly'
    <2> SUFFICES ASSUME engine = "mock"
                 PROVE  MockOnly'
      BY <1>1 DEF MockOnly
    <2>1. /\ store' = M!TrackedAlias(store) /\ h.ref = M!FreshAlias(store)
      BY <1>1, ResultTyped DEF r, h
    <2>2. /\ h.ref \notin store.aliases /\ store'.dups = store.dups /\ store'.panicked = store.panicked
          /\ \A m : m \in store'.aliases <=> m \in store.aliases \/ m = h.ref
      BY <1>1, <2>1, MockAlias
    <2>3. TopBecomes(Top.step, Top.result, Append(Top.owned, h)) /\ MockScopes(store.aliases, frames)
      BY <1>3, <1>4 DEF IInv, MockOnly
    <2>4. MockScopes(store'.aliases, frames')
      BY <1>1, <2>2, <2>3, ScopesMore
    <2> QED
      BY <1>1, <2>2, <2>4 DEF IInv, MockOnly, async, rest
  <1> QED
    BY <1>5, <1>6, <1>7, <1>8 DEF IInv

LEMMA NewInstanceStep ==
  ASSUME IInv, NEW c \in Objects, NewInstance(c)
  PROVE  IInv'
  <1> DEFINE r == Made(store, c)  h == r.handle  owns == engine # "mock"
  <1>1. /\ InCall /\ frames # <<>> /\ Shaped /\ Balanced /\ Store(engine, store) /\ c \in Cells /\ phase = "running"
        /\ engine \in {"boa", "jsc", "mock"} /\ Top.step = "body"
        /\ c # Trampoline /\ live \subseteq live' /\ c \in live' /\ live' \subseteq Objects
        /\ store' = r.store /\ UNCHANGED <<engine, phase, script, payload, async, rest>>
    BY EnginesAssumption DEF IInv, Balanced, Shaped, NewInstance, InCall, Top, NoFrame, Cells, Trampoline
  <1>2. h \in Handles(engine) /\ h.of = c /\ h \in Maybe(engine) /\ (engine = "mock" => r.store = store /\ h.ref = 0)
    BY <1>1, ResultTyped DEF Maybe
  <1>3. /\ TopBecomes(Top.step, h, ScopeWith(h, owns))
        /\ Range(ScopeWith(h, owns)) = Range(Top.owned) \cup (IF owns THEN {h} ELSE {})
    <2>1. SetTop(Owning([Top EXCEPT !.result = h], h, owns))
      BY DEF NewInstance
    <2> HIDE DEF h, r
    <2> QED
      BY <1>1, <1>2, <2>1, TopOwnings
  <1> HIDE DEF r, h
  <1>5. Shaped'
    BY <1>1, <1>3 DEF Shaped, TopBecomes, async, rest
  <1>6. Framed' /\ Batched' /\ Kept'
    BY <1>1, <1>2, <1>3, CallbackKeeps DEF async, rest
  <1>7. Balanced'
    <2>1. CASE engine = "mock"
      BY <1>1, <1>2, <2>1, MockBalanced DEF Balanced, Lively
    <2>2. CASE engine # "mock"
      <3>1. /\ Moves(engine, store, store', {c}) /\ Valid(engine, store', h)
            /\ \A g : Valid(engine, store, g) => Valid(engine, store', g)
            /\ \A k \in Keys(engine) : Weight(engine, store', k) = Weight(engine, store, k) + One(engine, h, k)
        <4>1. r = Returned(store, c) /\ engine \in {"boa", "jsc"}
          BY <1>1, <2>2, ReturnedFacts DEF r
        <4>2. Store(engine, store) /\ c \in Cells
          BY <1>1
        <4> QED
          BY <1>1, <4>1, <4>2, ReturnedFacts DEF h
      <3>2. Grown(engine, store, store', {c})
        BY <3>1 DEF Grown
      <3>3. TopBecomes(Top.step, h, Append(Top.owned, h))
        BY <1>3, <2>2 DEF ScopeWith
      <3> QED
        BY <1>1, <1>2, <1>5, <2>2, <3>1, <3>2, <3>3, OwnedGrown DEF Balanced, Lively, async, rest
    <2> QED
      BY <2>1, <2>2
  <1>8. MockOnly'
    <2> SUFFICES ASSUME engine = "mock"
                 PROVE  MockOnly'
      BY <1>1 DEF MockOnly
    <2>1. MockScopes(store.aliases, frames) /\ TopBecomes(Top.step, h, Top.owned)
      BY <1>3 DEF IInv, MockOnly, ScopeWith
    <2>2. MockScopes(store'.aliases, frames')
      BY <1>1, <1>2, <2>1, ScopesSame
    <2> QED
      BY <1>1, <1>2, <2>2 DEF IInv, MockOnly, async, rest
  <1> QED
    BY <1>5, <1>6, <1>7, <1>8 DEF IInv

(* Steps that leave the frames alone.                                      *)
LEMMA QuietFrames ==
  ASSUME IInv, UNCHANGED <<engine, frames>>, phase' = phase \/ (frames = <<>> /\ phase' \in PhasesOf(engine)),
         \A i \in DOMAIN frames : frames[i].stack \subseteq live',
         \A i \in DOMAIN frames : \A w \in Wrappers \cap frames[i].stack :
           payload[<<w, "attribute">>] # NoHandle => payload'[<<w, "attribute">>] = payload[<<w, "attribute">>]
  PROVE  /\ Framed'
         /\ UNCHANGED <<deferred, batch>> => Batched'
         /\ UNCHANGED <<phase, deferred, batch, functions, outstanding, removals, dangling>> => Kept'
  <1>1. /\ phase' \in PhasesOf(engine') /\ (phase' # "running" => frames' = <<>>)
        /\ \A i \in DOMAIN frames : /\ frames[i].kind = "tick" => i = 1 /\ TickFrame(frames[i])
                                    /\ frames[i].kind = "call" => CallFrame(frames[i])
    BY DEF IInv, Framed
  <1>2. \A i \in DOMAIN frames : frames[i].kind = "call" => CallFrame(frames[i])'
    <2> SUFFICES ASSUME NEW i \in DOMAIN frames, frames[i].kind = "call"
                 PROVE  CallFrame(frames[i])'
      OBVIOUS
    <2>1. CallFrame(frames[i]) /\ frames'[i] = frames[i]
      BY <1>1
    <2>2. frames[i].this.of \in Wrappers \cap frames[i].stack
      BY <2>1 DEF CallFrame
    <2> QED
      BY <2>1, <2>2 DEF CallFrame
  <1>3. Framed'
    BY <1>1, <1>2 DEF Framed, TickFrame
  <1>4. UNCHANGED <<deferred, batch>> => Batched'
    BY DEF IInv, Batched
  <1>5. UNCHANGED <<phase, deferred, batch, functions, outstanding, removals, dangling>> => Kept'
    BY DEF IInv, Kept, Unused
  <1> QED
    BY <1>3, <1>4, <1>5

(* One place of a map gets another handle.                                 *)
LEMMA PlaceSet ==
  ASSUME NEW e, NEW f, IsFiniteSet(DOMAIN f), NEW x \in DOMAIN f, NEW g, DOMAIN g = DOMAIN f,
         \A y \in DOMAIN f \ {x} : g[y] = f[y], NEW k
  PROVE  /\ Number(e, g, k) = Number(e, f, k) - One(e, f[x], k) + One(e, g[x], k)
         /\ One(e, f[x], k) <= Number(e, f, k) /\ Number(e, f, k) \in Nat
         /\ One(e, f[x], k) \in {0, 1} /\ One(e, g[x], k) \in {0, 1}
         /\ Number(e, <<f[x]>>, k) = One(e, f[x], k)
  <1>1. Number(e, f, k) \in Nat
    BY UsesFinite
  <1>2. One(e, f[x], k) \in {0, 1} /\ One(e, g[x], k) \in {0, 1}
    BY DEF One
  <1>3. One(e, f[x], k) <= Number(e, f, k)
    BY <1>1, UseCounts DEF One
  <1>4. Number(e, g, k) = Number(e, f, k) - One(e, f[x], k) + One(e, g[x], k)
    BY OnePlace
  <1> QED
    BY <1>1, <1>2, <1>3, <1>4, NumberOfOne

LEMMA PlacesSet ==
  ASSUME NEW e, NEW s, NEW f, NEW x, NEW h, h = NoHandle \/ Valid(e, s, h), PlacesIn(e, s, f)
  PROVE  PlacesIn(e, s, [f EXCEPT ![x] = h])
  BY DEF PlacesIn

LEMMA TotalPaid ==
  ASSUME Shaped, UNCHANGED <<engine, frames, functions, host>>, NEW k, NEW n \in Int,
         Number(engine, payload', k) = Number(engine, payload, k) + n
  PROVE  Total(k)' = Total(k) + n /\ Total(k) \in Nat /\ Number(engine, payload, k) <= Total(k)
  <1>1. /\ Owned(engine, frames, k) \in Nat /\ Number(engine, payload, k) \in Nat
        /\ Number(engine, functions, k) \in Nat /\ Number(engine, host, k) \in Nat
    BY ShapedPlaces, TotalsNat
  <1> QED
    BY <1>1 DEF Total

LEMMA WeightCovers ==
  ASSUME Shaped, Balanced, engine # "mock", Rooting, NEW k \in Keys(engine)
  PROVE  /\ Weight(engine, store, k) \in Nat /\ Total(k) \in Nat /\ Weight(engine, store, k) >= Total(k)
         /\ Number(engine, payload, k) <= Weight(engine, store, k) /\ Number(engine, functions, k) <= Weight(engine, store, k)
         /\ Number(engine, host, k) <= Weight(engine, store, k) /\ Owned(engine, frames, k) <= Weight(engine, store, k)
         /\ Number(engine, payload, k) + Number(engine, functions, k) <= Weight(engine, store, k)
  <1>1. engine \in {"boa", "jsc"} /\ Store(engine, store) /\ Weight(engine, store, k) >= Total(k) + Extra(k)
    BY DEF Shaped, Balanced, Weighed, Roots
  <1>2. /\ Owned(engine, frames, k) \in Nat /\ Number(engine, payload, k) \in Nat
        /\ Number(engine, functions, k) \in Nat /\ Number(engine, host, k) \in Nat /\ Number(engine, classes, k) \in Nat
    BY ShapedPlaces, TotalsNat
  <1>3. Extra(k) \in Nat
    <2>1. CASE engine = "boa"
      BY <1>2, <2>1 DEF Extra
    <2>2. CASE engine = "jsc"
      <3>1. k \in Cells /\ JscStore(store)
        BY <1>1, <2>2 DEF Keys, Store
      <3>2. store.deferred[k] \in Nat
        BY <3>1 DEF JscStore
      <3>3. finalizing[k] \in Nat /\ passed[k] \in Nat
        BY <3>1 DEF Shaped
      <3>4. TrampolineHeld(k) \in Nat
        BY DEF TrampolineHeld
      <3> QED
        BY <2>2, <3>2, <3>3, <3>4 DEF Extra
    <2> QED
      BY <1>1, <2>1, <2>2
  <1>4. Weight(engine, store, k) \in Nat
    BY <1>1, WeightIsNat
  <1> QED
    BY <1>1, <1>2, <1>3, <1>4 DEF Total

(* A place of a payload gets a handle that weighs already, and its old one *)
(* is released.                                                            *)
LEMMA PayloadSet ==
  ASSUME Shaped, Balanced, engine # "mock", phase = "running", Shaped',
         UNCHANGED <<engine, phase, script, live, frames, functions, host, classes, finalizing, passed>>,
         NEW x \in Fields, NEW h, payload' = [payload EXCEPT ![x] = h],
         NEW t, NEW cs, Grown(engine, store, t, cs), Trampoline \notin cs, cs \cap Objects \subseteq live,
         \A k \in Keys(engine) : Weight(engine, t, k) = Weight(engine, store, k) + One(engine, h, k),
         h = NoHandle \/ Valid(engine, t, h), store' = Release(t, payload[x])
  PROVE  Balanced'
  <1>1. /\ engine \in {"boa", "jsc"} /\ Store(engine, store) /\ Store(engine, t) /\ Moves(engine, store, t, cs)
        /\ \A g : Valid(engine, store, g) => Valid(engine, t, g)
    BY DEF Shaped, Balanced, Grown, Moves
  <1>2. ASSUME NEW k \in Keys(engine)
        PROVE  /\ Number(engine, payload', k) = Number(engine, payload, k) - One(engine, payload[x], k) + One(engine, h, k)
               /\ One(engine, payload[x], k) <= Number(engine, payload, k) /\ Number(engine, payload, k) \in Nat
               /\ One(engine, payload[x], k) \in {0, 1} /\ One(engine, h, k) \in {0, 1}
               /\ Number(engine, <<payload[x]>>, k) = One(engine, payload[x], k)
               /\ Weight(engine, store, k) \in Nat /\ Number(engine, payload, k) <= Weight(engine, store, k)
    <2>1. payload \in [Fields -> Maybe(engine)] /\ IsFiniteSet(DOMAIN payload) /\ x \in DOMAIN payload
      BY ShapedPlaces, FiniteMaps
    <2>2. Weight(engine, store, k) \in Nat /\ Number(engine, payload, k) <= Weight(engine, store, k)
      BY WeightCovers DEF Rooting
    <2>3. payload'[x] = h /\ DOMAIN payload' = DOMAIN payload /\ \A y \in DOMAIN payload \ {x} : payload'[y] = payload[y]
      BY <2>1
    <2>4. ASSUME NEW g, g = payload'
          PROVE  /\ Number(engine, g, k) = Number(engine, payload, k) - One(engine, payload[x], k) + One(engine, h, k)
                 /\ One(engine, payload[x], k) <= Number(engine, payload, k) /\ Number(engine, payload, k) \in Nat
                 /\ One(engine, payload[x], k) \in {0, 1} /\ One(engine, h, k) \in {0, 1}
                 /\ Number(engine, <<payload[x]>>, k) = One(engine, payload[x], k)
      <3>1. g[x] = h /\ DOMAIN g = DOMAIN payload /\ \A y \in DOMAIN payload \ {x} : g[y] = payload[y]
        BY <2>3, <2>4
      <3>2. DOMAIN g = DOMAIN payload
        BY <3>1
      <3>3. /\ Number(engine, g, k) = Number(engine, payload, k) - One(engine, payload[x], k) + One(engine, g[x], k)
            /\ One(engine, payload[x], k) <= Number(engine, payload, k) /\ Number(engine, payload, k) \in Nat
            /\ One(engine, payload[x], k) \in {0, 1} /\ One(engine, g[x], k) \in {0, 1}
            /\ Number(engine, <<payload[x]>>, k) = One(engine, payload[x], k)
        BY ONLY <2>1, <3>1, <3>2, PlaceSet
      <3> QED
        BY <3>1, <3>3
    <2> QED
      BY <2>2, <2>4
  <1>3. \A k \in Keys(engine) : Number(engine, <<payload[x]>>, k) <= Weight(engine, t, k)
    BY <1>2
  <1>4. /\ Moves(engine, t, store', {})
        /\ \A k \in Keys(engine) : Weight(engine, store', k) = Weight(engine, t, k) - Number(engine, <<payload[x]>>, k)
    <2>1. IsFiniteSet(DOMAIN <<payload[x]>>)
      <3>1. DOMAIN <<payload[x]>> = {1}
        OBVIOUS
      <3> QED
        BY <3>1, FS_Singleton
    <2> QED
      BY <1>1, <1>3, <2>1, ReleaseFacts DEF Release
  <1>5. AllIn(engine, t, frames', payload', functions', host', classes')
    <2>1. AllIn(engine, store, frames, payload, functions, host, classes)
      BY DEF Balanced, AllValid, Roots, Rooting
    <2>2. AllIn(engine, t, frames, payload, functions, host, classes)
      BY <1>1, <2>1, AllGrow
    <2>3. PlacesIn(engine, t, payload')
      BY <2>2, PlacesSet DEF AllIn
    <2> QED
      BY <2>2, <2>3 DEF AllIn
  <1>6. \A k \in Keys(engine) : Weight(engine, store', k) + Total(k) = Weight(engine, store, k) + Total(k)'
    <2> SUFFICES ASSUME NEW k \in Keys(engine)
                 PROVE  Weight(engine, store', k) + Total(k) = Weight(engine, store, k) + Total(k)'
      OBVIOUS
    <2> DEFINE a == One(engine, h, k)  b == One(engine, payload[x], k)  n == a - b  p == Number(engine, payload, k)
               q == Number(engine, payload', k)
    <2>0. a \in {0, 1} /\ b \in {0, 1} /\ p \in Nat /\ q = p - b + a
      BY <1>2
    <2>1. n \in Int /\ q = p + n
      <3> HIDE DEF a, b, p, q
      <3> QED
        BY <2>0
    <2>2. Total(k)' = Total(k) + n /\ Total(k) \in Nat
      BY <2>1, TotalPaid
    <2>3. Weight(engine, store', k) = Weight(engine, store, k) + n
      BY <1>2, <1>4
    <2> HIDE DEF n
    <2>4. Weight(engine, store, k) \in Nat
      BY <1>2
    <2> QED
      BY <2>1, <2>2, <2>3, <2>4
  <1> QED
    <2>1. Trampoline \notin cs \cup {} /\ (cs \cup {}) \cap Objects \subseteq live' /\ live \subseteq live'
      OBVIOUS
    <2>2. script' \subseteq live'
      BY DEF Balanced, Lively
    <2> QED
      BY <1>1, <1>4, <1>5, <1>6, <2>1, <2>2, Usual

LEMMA MockPayloadSet ==
  ASSUME IInv, engine = "mock", UNCHANGED <<engine, script, live, frames, functions, host, classes>>,
         NEW x \in Fields, NEW h, h.ref = 0, payload'[x] = h, DOMAIN payload' = Fields,
         \A y \in Fields \ {x} : payload'[y] = payload[y],
         NEW t, Store("mock", t), t.aliases = store.aliases, t.panicked = store.panicked,
         \A d \in Cells : t.dups[d] = store.dups[d] + One("mock", h, d), store' = Release(t, payload[x])
  PROVE  Balanced' /\ MockOnly'
  <1>1. /\ payload \in [Fields -> Maybe("mock")] /\ IsFiniteSet(DOMAIN payload) /\ DOMAIN payload = Fields
        /\ \A d \in Cells : store.dups[d] = Number("mock", payload, d)
        /\ \A y \in Fields : payload[y].ref = 0
    BY ShapedPlaces, FiniteMaps DEF IInv, MockOnly
  <1>3. ASSUME NEW d \in Cells
        PROVE  /\ Number("mock", payload', d) = Number("mock", payload, d) - One("mock", payload[x], d) + One("mock", h, d)
               /\ One("mock", payload[x], d) <= Number("mock", payload, d) /\ Number("mock", payload, d) \in Nat
               /\ One("mock", payload[x], d) \in {0, 1} /\ One("mock", h, d) \in {0, 1}
               /\ Number("mock", <<payload[x]>>, d) = One("mock", payload[x], d)
    <2>1. IsFiniteSet(DOMAIN payload) /\ x \in DOMAIN payload
      BY <1>1
    <2>2. DOMAIN payload' = DOMAIN payload /\ payload'[x] = h /\ \A y \in DOMAIN payload \ {x} : payload'[y] = payload[y]
      BY <1>1
    <2> QED
      BY ONLY <2>1, <2>2, PlaceSet
  <1>4. \A d \in Cells : Number("mock", <<payload[x]>>, d) <= t.dups[d]
    <2> SUFFICES ASSUME NEW d \in Cells
                 PROVE  Number("mock", <<payload[x]>>, d) <= t.dups[d]
      OBVIOUS
    <2>1. t.dups[d] = Number("mock", payload, d) + One("mock", h, d)
      BY <1>1
    <2> QED
      BY ONLY <1>3, <2>1, d \in Cells
  <1>5. /\ Store("mock", store') /\ store'.aliases = t.aliases /\ store'.panicked = t.panicked
        /\ \A d \in Cells : store'.dups[d] = t.dups[d] - Number("mock", <<payload[x]>>, d)
    <2> DEFINE hs == <<payload[x]>>
    <2>1. DOMAIN hs = {1} /\ hs[1] = payload[x]
      OBVIOUS
    <2>2. store' = M!ReleaseValues(t, hs)
      BY DEF Release, ReleaseAll
    <2>4. \A d \in Cells : Number("mock", hs, d) <= t.dups[d]
      BY <1>4
    <2> HIDE DEF hs
    <2>3. IsFiniteSet(DOMAIN hs) /\ \A y \in DOMAIN hs : hs[y].ref = 0
      <3>1. IsFiniteSet(DOMAIN hs)
        BY <2>1, FS_Singleton
      <3>2. payload[x].ref = 0
        BY <1>1
      <3> QED
        BY <2>1, <3>1, <3>2
    <2>5. /\ Store("mock", store') /\ store'.aliases = t.aliases /\ store'.panicked = t.panicked
          /\ \A d \in Cells : store'.dups[d] = t.dups[d] - Number("mock", hs, d)
      BY <2>2, <2>3, <2>4, MockRelease
    <2> QED
      BY <2>5 DEF hs
  <1>6. \A d \in Cells : store'.dups[d] = Number("mock", payload', d)
    <2> SUFFICES ASSUME NEW d \in Cells
                 PROVE  store'.dups[d] = Number("mock", payload', d)
      OBVIOUS
    <2>1. /\ store'.dups[d] = t.dups[d] - Number("mock", <<payload[x]>>, d)
          /\ t.dups[d] = Number("mock", payload, d) + One("mock", h, d)
      BY <1>1, <1>5
    <2> QED
      BY ONLY <1>3, <2>1, d \in Cells
  <1>7. MockOnly'
    BY <1>1, <1>5, <1>6 DEF IInv, MockOnly
  <1>8. script' \subseteq live'
    BY DEF IInv, Balanced, Lively
  <1> QED
    BY <1>5, <1>7, <1>8, MockBalanced

LEMMA SetHandlerStep ==
  ASSUME IInv, SetHandler
  PROVE  IInv'
  <1> DEFINE x == Handler  h == Top.arg
  <1>1. /\ InCall /\ frames # <<>> /\ Shaped /\ Balanced /\ Store(engine, store) /\ phase = "running"
        /\ engine \in {"boa", "jsc", "mock"} /\ Top.step = "body" /\ h # NoHandle
        /\ store' = Release(Duplicate(store, h), payload[x])
        /\ payload' = [payload EXCEPT ![x] = Duplicated(h)]
        /\ UNCHANGED <<heap, frames, async, rest>>
    BY DEF IInv, Balanced, Shaped, SetHandler, InCall, Top, NoFrame
  <1>2. CallFrame(Top) /\ Top.stack \subseteq live /\ Top \in FrameSet(engine)
    BY <1>1, TopFacts DEF IInv, Framed, InCall
  <1>3. /\ h \in Handles(engine) /\ h.of \in Plain /\ h.of \in live /\ h.of \in Cells /\ h.of # Trampoline
        /\ h \in PlainHandles(engine) /\ (engine = "mock" => h.ref = 0)
    BY <1>1, <1>2, FrameShape, EnginesAssumption DEF CallFrame, Maybe, Cells, Objects, PlainHandles, Trampoline
  <1>4. x \in Fields /\ x # <<Top.this.of, "attribute">> /\ \A w : x # <<w, "attribute">>
    BY <1>2 DEF Handler, CallFrame, Fields
  <1>5. Duplicated(h) \in PlainHandles(engine) /\ (engine # "mock" => Duplicated(h) = h)
        /\ (engine = "mock" => Duplicated(h).ref = 0 /\ Duplicated(h).of = h.of)
    <2>1. CASE engine = "mock"
      BY <1>3, <2>1, EnginesAssumption DEF Duplicated, M!Canonical, PlainHandles, Handles
    <2>2. CASE engine # "mock"
      BY <1>3, <2>2 DEF Duplicated
    <2> QED
      BY <2>1, <2>2
  <1> HIDE DEF x, h
  <1>6. Shaped'
    BY <1>1, <1>4, <1>5 DEF Shaped, heap, async, rest
  <1>7. Framed' /\ Batched' /\ Kept'
    <2>1. \A w \in Wrappers : payload'[<<w, "attribute">>] = payload[<<w, "attribute">>]
      BY <1>1, <1>4 DEF Shaped, Fields
    <2>2. \A i \in DOMAIN frames : frames[i].stack \subseteq live'
      BY <1>1 DEF IInv, Framed, heap
    <2> QED
      BY <1>1, <2>1, <2>2, QuietFrames DEF heap, async, rest
  <1>8. CASE engine # "mock"
    <2>0. engine \in {"boa", "jsc"}
      BY <1>1, <1>8
    <2>1. Valid(engine, store, h)
      <3>1. CASE engine = "jsc"
        BY <1>3, <3>1 DEF Valid
      <3>2. CASE engine = "boa"
        <4>1. h \in Range(Top.owned)
          BY <1>1, <1>2, <3>2 DEF CallFrame, h
        <4>2. FramesIn(engine, store, frames)
          BY <1>1, <3>2 DEF Balanced, AllValid, Roots, Rooting, AllIn
        <4> QED
          BY <1>1, <4>1, <4>2, TopFacts DEF FramesIn, Range
      <3> QED
        BY <2>0, <3>1, <3>2
    <2>2. LET t == Duplicate(store, h) IN
          /\ Moves(engine, store, t, {h.of})
          /\ \A g : Valid(engine, store, g) => Valid(engine, t, g)
          /\ \A k \in Keys(engine) : Weight(engine, t, k) = Weight(engine, store, k) + One(engine, h, k)
      BY <1>1, <2>0, <2>1, DuplicateFacts
    <2>3. Grown(engine, store, Duplicate(store, h), {h.of}) /\ Valid(engine, Duplicate(store, h), h)
      BY <2>1, <2>2 DEF Grown
    <2>4. /\ payload' = [payload EXCEPT ![x] = h] /\ Trampoline \notin {h.of} /\ {h.of} \cap Objects \subseteq live
          /\ UNCHANGED <<engine, phase, script, live, frames, functions, host, classes, finalizing, passed>>
      BY <1>1, <1>3, <1>5, <1>8 DEF heap, async, rest
    <2>5. Balanced'
      BY <1>1, <1>4, <1>6, <1>8, <2>2, <2>3, <2>4, PayloadSet
    <2> QED
      BY <1>1, <1>6, <1>7, <1>8, <2>5 DEF IInv, MockOnly, heap
  <1>9. CASE engine = "mock"
    <2> DEFINE t == M!DuplicateValue(store, h.of)
    <2>1. /\ Store("mock", t) /\ t.aliases = store.aliases /\ t.panicked = store.panicked
          /\ \A d \in Cells : t.dups[d] = store.dups[d] + (IF d = h.of THEN 1 ELSE 0)
      BY <1>1, <1>3, <1>9, MockDuplicate
    <2>2. store' = Release(t, payload[x])
      BY <1>1, <1>9 DEF Duplicate
    <2>3. \A d \in Cells : One("mock", Duplicated(h), d) = (IF d = h.of THEN 1 ELSE 0)
      BY <1>5, <1>9 DEF One, Key
    <2> HIDE DEF t
    <2> DEFINE g == Duplicated(h)
    <2>5. /\ g.ref = 0 /\ payload'[x] = g /\ DOMAIN payload' = Fields /\ \A y \in Fields \ {x} : payload'[y] = payload[y]
          /\ \A d \in Cells : t.dups[d] = store.dups[d] + One("mock", g, d)
          /\ UNCHANGED <<engine, script, live, frames, functions, host, classes>>
      BY <1>1, <1>4, <1>5, <1>9, <2>1, <2>3 DEF Shaped, heap, async, rest
    <2> HIDE DEF g
    <2>4. Balanced' /\ MockOnly'
      BY <1>4, <1>9, <2>1, <2>2, <2>5, MockPayloadSet
    <2> QED
      BY <1>6, <1>7, <2>4 DEF IInv
  <1> QED
    BY <1>8, <1>9

LEMMA ClearHandlerStep ==
  ASSUME IInv, ClearHandler
  PROVE  IInv'
  <1> DEFINE x == Handler
  <1>1. /\ InCall /\ frames # <<>> /\ Shaped /\ Balanced /\ Store(engine, store) /\ phase = "running"
        /\ engine \in {"boa", "jsc", "mock"} /\ Top.step = "body"
        /\ store' = Release(store, payload[x]) /\ payload' = [payload EXCEPT ![x] = NoHandle]
        /\ UNCHANGED <<heap, frames, async, rest>>
    BY DEF IInv, Balanced, Shaped, ClearHandler, InCall, Top, NoFrame
  <1>2. CallFrame(Top)
    BY <1>1, TopFacts DEF IInv, Framed, InCall
  <1>3. x \in Fields /\ x # <<Top.this.of, "attribute">> /\ \A w : x # <<w, "attribute">>
    BY <1>2 DEF Handler, CallFrame, Fields
  <1> HIDE DEF x
  <1>4. Shaped'
    BY <1>1, <1>3 DEF Shaped, heap, async, rest
  <1>5. Framed' /\ Batched' /\ Kept'
    <2>1. \A w \in Wrappers : payload'[<<w, "attribute">>] = payload[<<w, "attribute">>]
      BY <1>1, <1>3 DEF Shaped, Fields
    <2>2. \A i \in DOMAIN frames : frames[i].stack \subseteq live'
      BY <1>1 DEF IInv, Framed, heap
    <2> QED
      BY <1>1, <2>1, <2>2, QuietFrames DEF heap, async, rest
  <1>6. CASE engine # "mock"
    <2>1. Grown(engine, store, store, {})
      BY <1>1, StillGrown
    <2>2. \A k \in Keys(engine) : Weight(engine, store, k) = Weight(engine, store, k) + One(engine, NoHandle, k)
      <3>1. \A k \in Keys(engine) : Weight(engine, store, k) \in Nat /\ One(engine, NoHandle, k) = 0
        BY <1>1, NoKey, WeightIsNat
      <3> QED
        BY <3>1
    <2>3. UNCHANGED <<engine, phase, script, live, frames, functions, host, classes, finalizing, passed>>
      BY <1>1 DEF heap, async, rest
    <2>4. Trampoline \notin {} /\ {} \cap Objects \subseteq live
      OBVIOUS
    <2>5. Balanced'
      BY <1>1, <1>3, <1>4, <1>6, <2>1, <2>2, <2>3, <2>4, PayloadSet
    <2> QED
      BY <1>1, <1>4, <1>5, <1>6, <2>5 DEF IInv, MockOnly, heap
  <1>7. CASE engine = "mock"
    <2>1. \A d \in Cells : store.dups[d] = store.dups[d] + One("mock", NoHandle, d)
      <3>1. \A d \in Cells : store.dups[d] \in Nat /\ One("mock", NoHandle, d) = 0
        BY <1>1, <1>7, NoKey DEF Store, MockStore, Keys
      <3> QED
        BY <3>1
    <2>2. NoHandle.ref = 0
      BY DEF NoHandle
    <2>4. /\ payload'[x] = NoHandle /\ DOMAIN payload' = Fields /\ \A y \in Fields \ {x} : payload'[y] = payload[y]
          /\ UNCHANGED <<engine, script, live, frames, functions, host, classes>>
      BY <1>1, <1>3 DEF Shaped, heap, async, rest
    <2>3. Balanced' /\ MockOnly'
      BY <1>1, <1>3, <1>7, <2>1, <2>2, <2>4, MockPayloadSet
    <2> QED
      BY <1>4, <1>5, <2>3 DEF IInv
  <1> QED
    BY <1>6, <1>7

LEMMA ReadAttributeStep ==
  ASSUME IInv, ReadAttribute
  PROVE  IInv'
  <1> DEFINE st == IF payload[Attribute] # NoHandle THEN Top.step ELSE "making"
             r == IF payload[Attribute] # NoHandle THEN payload[Attribute] ELSE Top.result
  <1>1. /\ InCall /\ frames # <<>> /\ Shaped /\ Balanced /\ Store(engine, store) /\ phase = "running"
        /\ engine \in {"boa", "jsc", "mock"} /\ Top.step = "body" /\ Top.result = NoHandle
        /\ UNCHANGED <<heap, store, payload, async, rest>>
    BY DEF IInv, Balanced, Shaped, ReadAttribute, InCall, Top, NoFrame
  <1>2. CallFrame(Top) /\ Top \in FrameSet(engine)
    BY <1>1, TopFacts DEF IInv, Framed, InCall
  <1>3. Attribute = <<Top.this.of, "attribute">> /\ Attribute \in Fields
    BY <1>2 DEF Attribute, CallFrame, Fields
  <1>4. payload[Attribute] \in Maybe(engine)
    BY <1>1, <1>3, ShapedPlaces
  <1>5. TopBecomes(st, r, Top.owned)
    <2>1. CASE payload[Attribute] # NoHandle
      <3>1. SetTop([Top EXCEPT !.result = payload[Attribute]])
        BY <2>1 DEF ReadAttribute
      <3> QED
        BY <1>1, <1>4, <2>1, <3>1, TopSteps
    <2>2. CASE payload[Attribute] = NoHandle
      <3>1. SetTop([Top EXCEPT !.step = "making"]) /\ "making" \in Steps
        BY <2>2 DEF ReadAttribute, Steps
      <3> QED
        BY <1>1, <2>2, <3>1, TopSteps
    <2> QED
      BY <2>1, <2>2
  <1>6. st \in {"body", "making"} /\ (r = NoHandle \/ r = payload[Attribute])
    BY <1>1
  <1> HIDE DEF st, r
  <1>7. Shaped'
    BY <1>1, <1>5 DEF Shaped, TopBecomes, heap, async, rest
  <1>8. Framed' /\ Batched' /\ Kept'
    <2>1. r \in Range(Top.owned) \cup {NoHandle} \/ r = payload'[<<Top.this.of, "attribute">>]
      BY <1>1, <1>3, <1>6
    <2>2. /\ UNCHANGED <<engine, phase>> /\ live \subseteq live'
          /\ UNCHANGED <<deferred, batch, functions, outstanding, removals, dangling>>
      BY <1>1 DEF heap, async, rest
    <2> QED
      BY <1>1, <1>5, <1>6, <2>1, <2>2, CallbackKeeps
  <1>9. Balanced'
    <2>1. /\ UNCHANGED <<engine, phase, live, store, payload, functions, host, classes, finalizing, passed>>
          /\ script' \subseteq live'
      BY <1>1 DEF Balanced, Lively, heap, async, rest
    <2> QED
      BY <1>1, <1>5, <1>7, <2>1, StoreStays
  <1>10. MockOnly'
    <2>1. engine = "mock" => MockScopes(store.aliases, frames')
      BY <1>1, <1>5, ScopesSame DEF IInv, MockOnly
    <2> QED
      BY <1>1, <2>1 DEF IInv, MockOnly, heap, async, rest
  <1> QED
    BY <1>7, <1>8, <1>9, <1>10 DEF IInv

LEMMA TotalChanges ==
  ASSUME Shaped, UNCHANGED <<engine, functions, host>>, NEW k, NEW n \in Int, NEW m \in Int,
         Owned(engine, frames', k) = Owned(engine, frames, k) + n,
         Number(engine, payload', k) = Number(engine, payload, k) + m
  PROVE  Total(k)' = Total(k) + n + m /\ Total(k) \in Nat
  <1>1. /\ Owned(engine, frames, k) \in Nat /\ Number(engine, payload, k) \in Nat
        /\ Number(engine, functions, k) \in Nat /\ Number(engine, host, k) \in Nat
    BY ShapedPlaces, TotalsNat
  <1> QED
    BY <1>1 DEF Total

(* One handle is released.                                                 *)
LEMMA OneReleased ==
  ASSUME engine \in {"boa", "jsc"}, NEW s, Store(engine, s), NEW h,
         \A k \in Keys(engine) : One(engine, h, k) <= Weight(engine, s, k)
  PROVE  LET t == Release(s, h) IN
         /\ Moves(engine, s, t, {})
         /\ \A k \in Keys(engine) : Weight(engine, t, k) = Weight(engine, s, k) - One(engine, h, k)
  <1> DEFINE hs == <<h>>
  <1>1. DOMAIN hs = {1}
    OBVIOUS
  <1>2. \A k : Number(engine, hs, k) = One(engine, h, k)
    BY NumberOfOne
  <1>3. Release(s, h) = ReleaseAll(s, hs)
    BY DEF Release
  <1> HIDE DEF hs
  <1>4. IsFiniteSet(DOMAIN hs)
    BY <1>1, FS_Singleton
  <1>5. \A k \in Keys(engine) : Number(engine, hs, k) <= Weight(engine, s, k)
    BY <1>2
  <1> QED
    BY <1>2, <1>3, <1>4, <1>5, ReleaseFacts

LEMMA MakeAttributeStep ==
  ASSUME IInv, NEW c \in Objects, MakeAttribute(c)
  PROVE  IInv'
  <1> DEFINE r == Made(store, c)  h == r.handle  owns == engine # "mock"  s == Duplicate(r.store, h)
             g == Duplicated(h)  x == Attribute
  <1>1. /\ InCall /\ frames # <<>> /\ Shaped /\ Balanced /\ Store(engine, store) /\ c \in Cells /\ phase = "running"
        /\ engine \in {"boa", "jsc", "mock"} /\ Top.step = "making" /\ c \in Plain
        /\ c # Trampoline /\ live \subseteq live' /\ c \in live' /\ live' \subseteq Objects
        /\ UNCHANGED <<engine, phase, script, deferred, functions, outstanding, removals, batch, host, classes,
                       finalizing, passed, dangling>>
    BY EnginesAssumption DEF IInv, Balanced, Shaped, MakeAttribute, InCall, Top, NoFrame, Cells, Trampoline, async, rest
  <1>2. h \in Handles(engine) /\ h.of = c /\ h \in Maybe(engine) /\ (engine = "mock" => r.store = store /\ h.ref = 0)
    BY <1>1, ResultTyped DEF Maybe
  <1>3. CallFrame(Top) /\ Top.this.of \in Wrappers
    BY <1>1, TopFacts DEF IInv, Framed, InCall, CallFrame
  <1>4. x = <<Top.this.of, "attribute">> /\ x \in Fields
    BY <1>3 DEF Attribute, Fields
  <1>5. /\ g \in PlainHandles(engine) /\ (engine # "mock" => g = h) /\ g # NoHandle
        /\ engine = "mock" => g.ref = 0 /\ g.of = c
    <2>1. CASE engine = "mock"
      BY <1>1, <1>2, <2>1, EnginesAssumption, KeyOfHandle DEF Duplicated, M!Canonical, PlainHandles, Handles
    <2>2. CASE engine # "mock"
      BY <1>1, <1>2, <2>2, KeyOfHandle DEF Duplicated, PlainHandles
    <2> QED
      BY <2>1, <2>2
  <1>6. /\ payload[x] = NoHandle => store' = s /\ payload' = [payload EXCEPT ![x] = g]
        /\ payload[x] # NoHandle => store' = Release(s, g) /\ payload' = payload
        /\ SetTop(Owning([Top EXCEPT !.step = "body", !.result = payload'[x]], h, owns))
    BY DEF MakeAttribute
  <1> HIDE DEF r, h, s, g, x
  <1>7. /\ payload' \in [Fields -> PlainHandles(engine) \cup {NoHandle}] /\ \A y \in Fields \ {x} : payload'[y] = payload[y]
        /\ payload'[x] = IF payload[x] = NoHandle THEN g ELSE payload[x]
        /\ payload'[x] \in Maybe(engine) /\ DOMAIN payload' = Fields /\ DOMAIN payload = Fields
    BY <1>1, <1>4, <1>5, <1>6 DEF Shaped, PlainHandles, Maybe
  <1>8. /\ TopBecomes("body", payload'[x], ScopeWith(h, owns))
        /\ Range(Top.owned) \subseteq Range(ScopeWith(h, owns))
    <2>1. "body" \in Steps
      BY DEF Steps
    <2> QED
      BY <1>1, <1>2, <1>6, <1>7, <2>1, TopOwnings
  <1>9. Shaped'
    BY <1>1, <1>7, <1>8 DEF Shaped, TopBecomes
  <1>10. Framed' /\ Batched' /\ Kept'
    <2>1. \A w \in Wrappers : payload[<<w, "attribute">>] # NoHandle => payload'[<<w, "attribute">>] = payload[<<w, "attribute">>]
      BY <1>7 DEF Fields
    <2>2. payload'[x] = payload'[<<Top.this.of, "attribute">>]
      BY <1>4
    <2> QED
      BY <1>1, <1>8, <2>1, <2>2, CallbackKeeps
  <1>11. ASSUME NEW k
         PROVE  /\ Number(engine, payload', k)
                     = Number(engine, payload, k) + (IF payload[x] = NoHandle THEN One(engine, g, k) - One(engine, NoHandle, k) ELSE 0)
                /\ Number(engine, payload, k) \in Nat /\ One(engine, g, k) \in {0, 1} /\ One(engine, NoHandle, k) \in {0, 1}
    <2>1. IsFiniteSet(DOMAIN payload) /\ x \in DOMAIN payload
      BY <1>4, <1>7, FiniteMaps
    <2>2. DOMAIN payload' = DOMAIN payload /\ \A y \in DOMAIN payload \ {x} : payload'[y] = payload[y]
      BY <1>7
    <2>3. /\ Number(engine, payload', k) = Number(engine, payload, k) - One(engine, payload[x], k) + One(engine, payload'[x], k)
          /\ Number(engine, payload, k) \in Nat
      <3>1. ASSUME NEW z, z = x, NEW f, f = payload'
            PROVE  /\ Number(engine, f, k) = Number(engine, payload, k) - One(engine, payload[z], k) + One(engine, f[z], k)
                   /\ Number(engine, payload, k) \in Nat
        <4>1. /\ IsFiniteSet(DOMAIN payload) /\ z \in DOMAIN payload /\ DOMAIN f = DOMAIN payload
              /\ \A y \in DOMAIN payload \ {z} : f[y] = payload[y]
          BY <2>1, <2>2, <3>1
        <4>2. Number(engine, payload, k) \in Nat
          BY <4>1, UsesFinite
        <4> QED
          BY ONLY <4>1, <4>2, OnePlace
      <3> QED
        BY <3>1
    <2>4. One(engine, g, k) \in {0, 1} /\ One(engine, NoHandle, k) \in {0, 1} /\ One(engine, payload[x], k) \in {0, 1}
      BY DEF One
    <2>5. CASE payload[x] = NoHandle
      BY <1>7, <2>3, <2>4, <2>5
    <2>6. CASE payload[x] # NoHandle
      BY <1>7, <2>3, <2>4, <2>6
    <2> QED
      BY <2>4, <2>3, <2>5, <2>6
  <1>12. CASE engine # "mock"
    <2>0. engine \in {"boa", "jsc"} /\ g = h
      BY <1>1, <1>5, <1>12
    <2>1. /\ Moves(engine, store, r.store, {c}) /\ Valid(engine, r.store, h)
          /\ \A q : Valid(engine, store, q) => Valid(engine, r.store, q)
          /\ \A k \in Keys(engine) : Weight(engine, r.store, k) = Weight(engine, store, k) + One(engine, h, k)
      <3>1. r = Returned(store, c)
        BY <1>1, <2>0, ReturnedFacts DEF r
      <3>2. Store(engine, store) /\ c \in Cells
        BY <1>1
      <3> QED
        BY <2>0, <3>1, <3>2, ReturnedFacts DEF h
    <2>2. /\ Moves(engine, r.store, s, {c})
          /\ \A q : Valid(engine, r.store, q) => Valid(engine, s, q)
          /\ \A k \in Keys(engine) : Weight(engine, s, k) = Weight(engine, r.store, k) + One(engine, h, k)
      <3>1. Store(engine, r.store)
        BY <2>1 DEF Moves
      <3> QED
        BY <1>2, <2>0, <2>1, <3>1, DuplicateFacts DEF s
    <2>3. Grown(engine, store, s, {c})
      <3>1. Grown(engine, store, r.store, {c}) /\ Grown(engine, r.store, s, {c})
        BY <2>1, <2>2 DEF Grown
      <3>2. Grown(engine, store, s, {c} \cup {c})
        BY <3>1, GrownTwice
      <3>3. {c} \cup {c} = {c}
        OBVIOUS
      <3> QED
        BY <3>2, <3>3
    <2>4. Moves(engine, store, s, {c}) /\ Store(engine, s) /\ Valid(engine, s, h)
      BY <2>1, <2>2, <2>3 DEF Grown, Moves
    <2>5. ASSUME NEW k \in Keys(engine)
          PROVE  /\ One(engine, h, k) \in {0, 1} /\ Weight(engine, store, k) \in Nat
                 /\ Weight(engine, s, k) = Weight(engine, store, k) + One(engine, h, k) + One(engine, h, k)
      <3>1. Weight(engine, store, k) \in Nat
        BY <1>1, WeightIsNat
      <3> QED
        BY <2>1, <2>2, <3>1 DEF One
    <2>6. /\ Moves(engine, s, store', {})
          /\ \A k \in Keys(engine) : Weight(engine, store', k) = Weight(engine, store, k) + One(engine, h, k)
                                       + (IF payload[x] = NoHandle THEN One(engine, h, k) ELSE 0)
      <3>1. CASE payload[x] = NoHandle
        <4>1. Moves(engine, s, s, {})
          BY <2>4, StillGrown DEF Grown
        <4> QED
          BY <1>6, <2>5, <3>1, <4>1
      <3>2. CASE payload[x] # NoHandle
        <4>1. \A k \in Keys(engine) : One(engine, h, k) <= Weight(engine, s, k)
          BY <2>5
        <4>2. /\ Moves(engine, s, Release(s, h), {})
              /\ \A k \in Keys(engine) : Weight(engine, Release(s, h), k) = Weight(engine, s, k) - One(engine, h, k)
          BY <2>0, <2>4, <4>1, OneReleased
        <4> QED
          BY <1>6, <2>0, <2>5, <3>2, <4>2
      <3> QED
        BY <3>1, <3>2
    <2>7. TopBecomes("body", payload'[x], Append(Top.owned, h))
      BY <1>8, <1>12 DEF ScopeWith
    <2>8. /\ \A k : Owned(engine, frames', k) = Owned(engine, frames, k) + One(engine, h, k)
          /\ FramesIn(engine, s, frames) /\ Valid(engine, s, h) => FramesIn(engine, s, frames')
      BY <1>2, <2>7 DEF TopBecomes
    <2>9. AllIn(engine, s, frames', payload', functions', host', classes')
      <3>1. AllIn(engine, store, frames, payload, functions, host, classes)
        BY <1>1, <1>12 DEF Balanced, AllValid, Roots, Rooting
      <3>2. AllIn(engine, s, frames, payload, functions, host, classes)
        BY <2>3, <3>1, AllGrow DEF Grown
      <3>3. PlacesIn(engine, s, payload')
        BY <1>7, <2>0, <2>4, <3>2 DEF AllIn, PlacesIn
      <3> QED
        BY <1>1, <2>4, <2>8, <3>2, <3>3 DEF AllIn
    <2>10. \A k \in Keys(engine) : Weight(engine, store', k) + Total(k) = Weight(engine, store, k) + Total(k)'
      <3> SUFFICES ASSUME NEW k \in Keys(engine)
                   PROVE  Weight(engine, store', k) + Total(k) = Weight(engine, store, k) + Total(k)'
        OBVIOUS
      <3> DEFINE n == One(engine, h, k)  m == IF payload[x] = NoHandle THEN n ELSE 0
      <3>1. One(engine, NoHandle, k) = 0
        BY NoKey
      <3>2. n \in Int /\ m \in Int /\ Number(engine, payload', k) = Number(engine, payload, k) + m
        <4>1. n \in {0, 1}
          BY <2>5
        <4>2. CASE payload[x] = NoHandle
          BY <1>11, <2>0, <3>1, <4>1, <4>2
        <4>3. CASE payload[x] # NoHandle
          BY <1>11, <4>1, <4>3
        <4> QED
          BY <4>2, <4>3
      <3>3. Owned(engine, frames', k) = Owned(engine, frames, k) + n
        BY <2>8
      <3>4. Weight(engine, store', k) = Weight(engine, store, k) + n + m /\ Weight(engine, store, k) \in Nat
        BY <2>5, <2>6
      <3> HIDE DEF n, m
      <3>5. Total(k)' = Total(k) + n + m /\ Total(k) \in Nat
        BY <1>1, <3>2, <3>3, TotalChanges
      <3> QED
        BY <3>2, <3>4, <3>5
    <2>11. /\ Trampoline \notin {c} \cup {} /\ ({c} \cup {}) \cap Objects \subseteq live' /\ live \subseteq live'
           /\ script' \subseteq live'
      BY <1>1 DEF Balanced, Lively
    <2>12. Balanced'
      BY <1>1, <1>9, <1>12, <2>4, <2>6, <2>9, <2>10, <2>11, Usual
    <2> QED
      BY <1>1, <1>9, <1>10, <1>12, <2>12 DEF IInv, MockOnly
  <1>13. CASE engine = "mock"
    <2>1. s = M!DuplicateValue(store, c) /\ h.of = c
      BY <1>2, <1>13 DEF s, Duplicate
    <2>2. /\ Store("mock", s) /\ s.aliases = store.aliases /\ s.panicked = store.panicked
          /\ \A d \in Cells : s.dups[d] = store.dups[d] + (IF d = c THEN 1 ELSE 0)
      BY <1>1, <1>13, <2>1, MockDuplicate
    <2>3. /\ \A d \in Cells : store.dups[d] = Number("mock", payload, d) /\ Number("mock", payload, d) \in Nat
          /\ \A d : One("mock", g, d) = IF d = c THEN 1 ELSE 0
      <3>1. \A d \in Cells : store.dups[d] = Number("mock", payload, d) /\ Number("mock", payload, d) \in Nat
        BY <1>11, <1>13 DEF IInv, MockOnly
      <3> QED
        BY <1>5, <1>13, <3>1 DEF One, Key
    <2>4. /\ Store("mock", store') /\ store'.aliases = store.aliases /\ store'.panicked = store.panicked
          /\ \A d \in Cells : store'.dups[d] = store.dups[d] + (IF payload[x] = NoHandle THEN One("mock", g, d) ELSE 0)
      <3>1. CASE payload[x] = NoHandle
        BY <1>6, <2>2, <2>3, <3>1
      <3>2. CASE payload[x] # NoHandle
        <4> DEFINE hs == <<g>>
        <4>1. DOMAIN hs = {1} /\ hs[1] = g
          OBVIOUS
        <4>2. \A d : Number("mock", hs, d) = One("mock", g, d)
          BY NumberOfOne
        <4>3. store' = M!ReleaseValues(s, hs)
          BY <1>6, <1>13, <3>2 DEF Release, ReleaseAll
        <4> HIDE DEF hs
        <4>4. IsFiniteSet(DOMAIN hs)
          BY <4>1, FS_Singleton
        <4>5. \A y \in DOMAIN hs : hs[y].ref = 0
          BY <1>5, <1>13, <4>1
        <4>6. \A d \in Cells : Number("mock", hs, d) <= s.dups[d]
          BY <2>2, <2>3, <4>2
        <4>7. /\ Store("mock", store') /\ store'.aliases = s.aliases /\ store'.panicked = s.panicked
              /\ \A d \in Cells : store'.dups[d] = s.dups[d] - Number("mock", hs, d)
          BY <2>2, <4>3, <4>4, <4>5, <4>6, MockRelease
        <4> QED
          BY <2>2, <2>3, <3>2, <4>2, <4>7
      <3> QED
        BY <3>1, <3>2
    <2>5. \A d \in Cells : store'.dups[d] = Number("mock", payload', d)
      <3> SUFFICES ASSUME NEW d \in Cells
                   PROVE  store'.dups[d] = Number("mock", payload', d)
        OBVIOUS
      <3>1. One("mock", NoHandle, d) = 0
        BY NoKey DEF Keys
      <3>2. /\ Number("mock", payload', d)
                 = Number("mock", payload, d) + (IF payload[x] = NoHandle THEN One("mock", g, d) - One("mock", NoHandle, d) ELSE 0)
            /\ Number("mock", payload, d) \in Nat /\ One("mock", g, d) \in {0, 1}
        BY <1>11, <1>13
      <3> QED
        BY <2>3, <2>4, <3>1, <3>2
    <2>6. MockScopes(store'.aliases, frames')
      <3>1. TopBecomes("body", payload'[x], Top.owned)
        BY <1>8, <1>13 DEF ScopeWith
      <3>2. MockScopes(store.aliases, frames)
        BY <1>13 DEF IInv, MockOnly
      <3> QED
        BY <1>1, <2>4, <3>1, <3>2, ScopesSame
    <2>7. MockOnly'
      BY <1>1, <1>5, <1>7, <1>13, <2>4, <2>5, <2>6 DEF IInv, MockOnly
    <2>8. Balanced'
      BY <1>1, <1>13, <2>4, MockBalanced DEF Balanced, Lively
    <2> QED
      BY <1>9, <1>10, <2>7, <2>8 DEF IInv
  <1> QED
    BY <1>12, <1>13

(* The prototype, or the methods, of a class are kept.                     *)
LEMMA RegisterClassStep ==
  ASSUME IInv, RegisterClass
  PROVE  IInv'
  <1> DEFINE p == Prototype
  <1>1. /\ InCall /\ frames # <<>> /\ Shaped /\ Balanced /\ Store(engine, store) /\ phase = "running"
        /\ engine \in {"boa", "jsc"} /\ engine # "mock" /\ Top.step = "body" /\ script \subseteq live
        /\ UNCHANGED <<engine, phase, script, live, payload, deferred, functions, outstanding, removals, batch, host,
                       finalizing, passed, dangling>>
    BY DEF IInv, Balanced, Shaped, Lively, RegisterClass, InCall, Top, NoFrame, heap, async
  <1>2. /\ p \in Cells /\ p \notin Objects /\ p # Trampoline
    BY EnginesAssumption DEF Cells, Prototype, Trampoline
  <1>3. /\ CallFrame(Top) /\ Top.owned \in Seq(Handles(engine)) /\ classes \in Seq(Handles(engine))
        /\ Roots /\ AllIn(engine, store, frames, payload, functions, host, classes)
    BY <1>1, TopFacts, FrameShape, ShapedPlaces DEF IInv, Framed, InCall, Balanced, AllValid, Roots, Rooting
  <1>4. /\ \/ Top.result \in Range(Top.owned) \cup {NoHandle} \/ Top.result = payload'[<<Top.this.of, "attribute">>]
           \/ engine = "mock" /\ Top.result.ref = 0
        /\ \A w \in Wrappers : payload[<<w, "attribute">>] # NoHandle => payload'[<<w, "attribute">>] = payload[<<w, "attribute">>]
    BY <1>1, <1>3 DEF CallFrame
  <1>5. CASE engine = "boa"
    <2> DEFINE q == B!Returned(store, p)  h == q.handle  s == q.store
    <2>1. /\ Moves("boa", store, s, {p}) /\ Valid("boa", s, h) /\ h.of = p
          /\ \A g : Valid("boa", store, g) => Valid("boa", s, g)
          /\ \A k \in Keys("boa") : Weight("boa", s, k) = Weight("boa", store, k) + One("boa", h, k)
      <3>1. q = Returned(store, p) /\ engine \in {"boa", "jsc"} /\ Store(engine, store) /\ p \in Cells
        BY <1>1, <1>2, <1>5 DEF Returned
      <3> HIDE DEF q, p
      <3> QED
        BY <1>5, <3>1, ReturnedFacts
    <2>2. /\ store' = B!Duplicate(s, h) /\ classes' = Append(classes, h)
          /\ SetTop([Top EXCEPT !.owned = @ \o <<h>>])
      BY <1>5 DEF RegisterClass, B!RegisterClass
    <2> HIDE DEF h, s, q, p
    <2>3. Store("boa", s) /\ h \in Handles("boa") /\ h # NoHandle
      BY <2>1, KeyOfHandle DEF Moves, Valid
    <2>4. /\ Moves("boa", s, store', {})
          /\ \A g : Valid("boa", s, g) => Valid("boa", store', g)
          /\ \A k \in Keys("boa") : Weight("boa", store', k) = Weight("boa", s, k) + One("boa", h, k)
      BY <2>1, <2>2, <2>3, BoaDuplicate
    <2>5. /\ Store("boa", store') /\ Valid("boa", store', h) /\ \A g : Valid("boa", store, g) => Valid("boa", store', g)
          /\ Adds("boa", store, store', {p})
      <3>1. Adds("boa", store, store', {p} \cup {})
        BY <2>1, <2>4, AddsTwice
      <3>2. {p} \cup {} = {p}
        OBVIOUS
      <3> QED
        BY <2>1, <2>4, <3>1, <3>2 DEF Moves
    <2>6. /\ TopBecomes("body", Top.result, Append(Top.owned, h))
          /\ Range(Top.owned) \subseteq Range(Append(Top.owned, h))
      <3>1. ScopeWith(h, TRUE) = Append(Top.owned, h)
        BY DEF ScopeWith
      <3>2. Owning(Top, h, TRUE) = [Top EXCEPT !.owned = @ \o <<h>>]
        <4>1. Append(Top.owned, h) = Top.owned \o <<h>>
          BY <1>3, <1>5, <2>3
        <4> QED
          BY <4>1 DEF Owning
      <3>3. SetTop(Owning(Top, h, TRUE))
        BY <2>2, <3>2
      <3> QED
        BY <1>1, <1>5, <2>3, <3>1, <3>3, TopOwnings
    <2>7. Shaped'
      <3>1. classes' \in Seq(Handles(engine))
        BY <1>3, <1>5, <2>2, <2>3
      <3> QED
        BY <1>1, <2>6, <3>1 DEF Shaped, TopBecomes
    <2>8. Framed' /\ Batched' /\ Kept'
      <3>1. \/ Top.result \in Range(Append(Top.owned, h)) \cup {NoHandle}
            \/ Top.result = payload'[<<Top.this.of, "attribute">>]
            \/ engine = "mock" /\ Top.result.ref = 0
        BY <1>4, <2>6
      <3>2. live \subseteq live'
        BY <1>1
      <3> QED
        BY <1>1, <1>4, <2>6, <3>1, <3>2, CallbackKeeps
    <2>9. /\ \A k : Owned("boa", frames', k) = Owned("boa", frames, k) + One("boa", h, k)
          /\ FramesIn("boa", store', frames')
      <3>1. FramesIn("boa", store', frames)
        BY <1>3, <1>5, <2>5 DEF AllIn, FramesIn
      <3> QED
        BY <1>5, <2>3, <2>5, <2>6, <3>1 DEF TopBecomes
    <2>10. AllIn("boa", store', frames', payload', functions', host', classes')
      <3>1. AllIn("boa", store', frames, payload, functions, host, classes)
        BY <1>3, <1>5, <2>5, AllGrow
      <3>2. PlacesIn("boa", store', classes')
        <4>1. classes \in Seq(Handles("boa")) /\ PlacesIn("boa", store', classes)
          BY <1>3, <1>5, <3>1 DEF AllIn
        <4>2. \A i \in DOMAIN classes' : classes'[i] = h \/ (i \in DOMAIN classes /\ classes'[i] = classes[i])
          BY <2>2, <2>3, <4>1
        <4> QED
          BY <2>5, <4>1, <4>2 DEF PlacesIn
      <3> QED
        BY <1>1, <2>9, <3>1, <3>2 DEF AllIn
    <2>11. ASSUME NEW k \in Keys("boa")
           PROVE  Weight("boa", store', k) + (Total(k) + Extra(k)) = Weight("boa", store, k) + (Total(k)' + Extra(k)')
      <3> DEFINE n == One("boa", h, k)
      <3>1. n \in Int
        BY DEF One
      <3>2. Total(k)' = Total(k) + n /\ Total(k) \in Nat
        BY <1>1, <1>5, <2>9, <3>1, TotalOwns
      <3>3. Number("boa", classes', k) = Number("boa", classes, k) + n /\ Number("boa", classes, k) \in Nat
        <4>1. Number("boa", Append(classes, h), k) = Number("boa", classes, k) + n
          BY <1>3, <1>5, <2>3, NumberAppended
        <4>2. Number("boa", classes, k) \in Nat
          BY <1>3, <1>5, SeqFinite, UsesFinite
        <4> QED
          BY <2>2, <4>1, <4>2
      <3>4. Weight("boa", store', k) = Weight("boa", store, k) + n + n /\ Weight("boa", store, k) \in Nat
        <4>1. Weight("boa", store, k) \in Nat
          BY <1>1, <1>5, WeightIsNat
        <4> QED
          BY <2>1, <2>4, <3>1, <4>1
      <3>5. /\ Extra(k) = Number("boa", classes, k) + (IF k = 1 THEN 1 ELSE 0)
            /\ Extra(k)' = Number("boa", classes', k) + (IF k = 1 THEN 1 ELSE 0)
        BY <1>1, <1>5 DEF Extra
      <3> HIDE DEF n
      <3> QED
        BY <3>1, <3>2, <3>3, <3>4, <3>5
    <2>12. AllValid' /\ Weighed'
      <3>1. Roots' /\ Keeps("boa", store', store') /\ \A k \in Keys("boa") : Exact(k)' => Exact(k)
        BY <1>1, <1>5 DEF Roots, Rooting, Keeps, Exact
      <3> QED
        BY <1>1, <1>3, <1>5, <2>5, <2>7, <2>10, <2>11, <3>1, Settles
    <2>13. BoaOnly' /\ Lively'
      <3>1. Roots' /\ Trampoline \notin {p} /\ {p} \cap Objects \subseteq live' /\ script' \subseteq live'
            /\ Rooted \cap Objects \subseteq live'
        BY <1>1, <1>2 DEF Roots, Rooting, Balanced, Lively
      <3> QED
        BY <1>1, <1>3, <1>5, <2>5, <3>1, LiveRoots
    <2>14. Balanced' /\ MockOnly'
      BY <1>1, <1>5, <2>5, <2>12, <2>13 DEF Balanced, JscOnly, MockOnly
    <2> QED
      BY <2>7, <2>8, <2>14 DEF IInv
  <1>6. CASE engine = "jsc"
    <2> DEFINE h == J!Pointer(p)
    <2>1. JscStore(store) /\ ~store.tearing
      BY <1>1, <1>3, <1>6 DEF Store, Balanced, JscOnly, Roots
    <2>2. /\ store' = J!ProtectClassMethod(store, p) /\ classes' = Append(classes, h)
          /\ SetTop([Top EXCEPT !.owned = @ \o <<>>])
      BY <1>6 DEF RegisterClass, J!RegisterClass
    <2>3. /\ JscStore(store') /\ store'.protected = store.protected /\ store'.deferred = store.deferred
          /\ store'.tearing = store.tearing
          /\ \A c \in Cells : store'.methods[c] = IF c = p THEN store.methods[c] + 1 ELSE store.methods[c]
      <3> HIDE DEF p
      <3>1. store' = [store EXCEPT !.methods = [store.methods EXCEPT ![p] = store.methods[p] + 1]]
        BY <2>1, <2>2 DEF JscStore, J!ProtectClassMethod
      <3>2. store.methods[p] + 1 \in Nat
        BY <1>2, <2>1 DEF JscStore
      <3> QED
        BY <1>2, <2>1, <3>1, <3>2 DEF JscStore
    <2>4. h \in Handles("jsc") /\ h.of = p
      BY <1>2 DEF J!Pointer, Handles
    <2> HIDE DEF p, h
    <2>5. TopBecomes("body", Top.result, Top.owned)
      <3>1. Top.owned \o <<>> = Top.owned
        BY <1>3
      <3>2. SetTop([Top EXCEPT !.owned = Top.owned])
        BY <2>2, <3>1
      <3> QED
        BY <1>1, <1>3, <3>2, TopSteps
    <2>6. /\ classes' \in Seq(Handles("jsc")) /\ Len(classes') = Len(classes) + 1
          /\ \A i \in DOMAIN classes' : classes'[i] = h \/ (i \in DOMAIN classes /\ classes'[i] = classes[i])
      BY <1>3, <1>6, <2>2, <2>4
    <2>7. Shaped'
      BY <1>1, <1>6, <2>5, <2>6 DEF Shaped, TopBecomes
    <2>8. Framed' /\ Batched' /\ Kept'
      <3>2. live \subseteq live' /\ Range(Top.owned) \subseteq Range(Top.owned)
        BY <1>1
      <3> QED
        BY <1>1, <1>4, <2>5, <3>2, CallbackKeeps
    <2>9. /\ \A k : Owned("jsc", frames', k) = Owned("jsc", frames, k)
          /\ \A s : FramesIn("jsc", s, frames) => FramesIn("jsc", s, frames')
      BY <1>6, <2>5 DEF TopBecomes
    <2>10. AllIn("jsc", store', frames', payload', functions', host', classes')
      <3>1. AllIn("jsc", store', frames, payload, functions, host, classes)
        BY <1>3, <1>6, AnyKept
      <3>2. PlacesIn("jsc", store', classes')
        BY <2>4, <2>6, <3>1 DEF AllIn, PlacesIn, Valid
      <3> QED
        BY <1>1, <2>9, <3>1, <3>2 DEF AllIn
    <2>11. ASSUME NEW k \in Keys("jsc")
           PROVE  Weight("jsc", store', k) + (Total(k) + Extra(k)) = Weight("jsc", store, k) + (Total(k)' + Extra(k)')
      BY <1>1, <1>6, <2>3, <2>9 DEF Total, Extra, Weight, TrampolineHeld
    <2>12. Store("jsc", store')
      BY <2>3 DEF Store
    <2>13. AllValid' /\ Weighed'
      <3>1. Roots' /\ Keeps("jsc", store', store') /\ \A k \in Keys("jsc") : Exact(k)' => Exact(k)
        BY <1>1, <1>6, <2>3 DEF Roots, Rooting, Keeps, Exact
      <3> QED
        BY <1>1, <1>3, <1>6, <2>7, <2>10, <2>11, <2>12, <3>1, Settles
    <2>14. BoaOnly' /\ Lively'
      <3>1. Roots' /\ Trampoline \notin {} /\ {} \cap Objects \subseteq live' /\ script' \subseteq live'
            /\ Rooted \cap Objects \subseteq live'
        BY <1>1, <1>2 DEF Roots, Rooting, Balanced, Lively
      <3>2. Adds("jsc", store, store', {}) /\ \A c \in Objects : store'.methods[c] = store.methods[c]
        BY <1>2, <2>3 DEF Adds, Cells
      <3> QED
        BY <1>1, <1>3, <1>6, <2>12, <3>1, <3>2, LiveRoots
    <2>15. JscOnly'
      <3>1. /\ \A c \in Cells : store.methods[c] = IF c = p THEN Len(classes) ELSE 0
            /\ \A i \in DOMAIN classes : classes[i].of = p
            /\ store.tearing <=> phase \in {"enqueued", "mopping"}
            /\ \A c \in Cells \ Objects : store.deferred[c] = 0 /\ finalizing[c] = 0 /\ passed[c] = 0
        BY <1>1, <1>3, <1>6 DEF Balanced, JscOnly, Roots, p
      <3>2. /\ \A c \in Cells : store'.methods[c] = IF c = p THEN Len(classes') ELSE 0
            /\ \A i \in DOMAIN classes' : classes'[i].of = p
        <4>1. \A i \in DOMAIN classes' : classes'[i].of = p
          BY <2>4, <2>6, <3>1
        <4>2. \A c \in Cells : store'.methods[c] = IF c = p THEN Len(classes') ELSE 0
          BY <2>3, <2>6, <3>1
        <4> QED
          BY <4>1, <4>2
      <3> QED
        BY <1>1, <1>6, <2>3, <3>1, <3>2 DEF JscOnly, Rooting, p
    <2> QED
      BY <1>1, <1>6, <2>7, <2>8, <2>12, <2>13, <2>14, <2>15 DEF IInv, Balanced, MockOnly
  <1> QED
    BY <1>1, <1>5, <1>6

(* Two places get other handles; a scope gets two.                         *)
LEMMA TwoPlaces ==
  ASSUME NEW e, NEW f, IsFiniteSet(DOMAIN f), NEW x \in DOMAIN f, NEW y \in DOMAIN f, x # y, NEW g,
         DOMAIN g = DOMAIN f, \A z \in DOMAIN f \ {x, y} : g[z] = f[z], NEW k
  PROVE  /\ Number(e, g, k) = Number(e, f, k) - One(e, f[x], k) - One(e, f[y], k) + One(e, g[x], k) + One(e, g[y], k)
         /\ Number(e, f, k) \in Nat
  <1> DEFINE m == [z \in DOMAIN f |-> IF z = x THEN g[x] ELSE f[z]]
  <1>1. /\ DOMAIN m = DOMAIN f /\ m[x] = g[x] /\ \A z \in DOMAIN f \ {x} : m[z] = f[z]
        /\ m[y] = f[y] /\ \A z \in DOMAIN m \ {y} : g[z] = m[z]
    OBVIOUS
  <1> HIDE DEF m
  <1>2. Number(e, m, k) = Number(e, f, k) - One(e, f[x], k) + One(e, m[x], k)
    BY <1>1, OnePlace
  <1>3. Number(e, g, k) = Number(e, m, k) - One(e, m[y], k) + One(e, g[y], k)
    BY <1>1, OnePlace
  <1>4. Number(e, f, k) \in Nat /\ \A h : One(e, h, k) \in {0, 1}
    BY UsesFinite DEF One
  <1> QED
    BY <1>1, <1>2, <1>3, <1>4

LEMMA TopTakesTwo ==
  ASSUME Shaped, frames # <<>>, NEW h \in Handles(engine), NEW g \in Handles(engine), NEW o, o = Top.owned \o <<h, g>>,
         SetTop([Top EXCEPT !.owned = o])
  PROVE  /\ TopBecomes(Top.step, Top.result, o) /\ Range(Top.owned) \subseteq Range(o)
         /\ \A k : Owned(engine, frames', k) = Owned(engine, frames, k) + One(engine, h, k) + One(engine, g, k)
         /\ \A s : FramesIn(engine, s, frames) /\ Valid(engine, s, h) /\ Valid(engine, s, g) => FramesIn(engine, s, frames')
  <1>1. Top \in FrameSet(engine) /\ Top.owned \in Seq(Handles(engine))
    BY TopFacts, FrameShape
  <1>2. o = Append(Append(Top.owned, h), g) /\ o \in Seq(Handles(engine)) /\ Append(Top.owned, h) \in Seq(Handles(engine))
    BY <1>1
  <1>3. TopBecomes(Top.step, Top.result, o)
    BY <1>2, TopSteps
  <1>4. /\ \A j \in DOMAIN o : o[j] = h \/ o[j] = g \/ (j \in DOMAIN Top.owned /\ o[j] = Top.owned[j])
        /\ \A j \in DOMAIN Top.owned : j \in DOMAIN o /\ o[j] = Top.owned[j]
    BY <1>1
  <1>5. [Top EXCEPT !.owned = o] \in FrameSet(engine) /\ [Top EXCEPT !.owned = o].owned = o
    BY <1>1, <1>2 DEF FrameSet
  <1>6. /\ DOMAIN frames' = DOMAIN frames /\ frames'[Depth] = [Top EXCEPT !.owned = o]
        /\ \A i \in DOMAIN frames : i # Depth => frames'[i] = frames[i]
        /\ \A k : /\ Owned(engine, frames', k)
                        = Owned(engine, frames, k) - Number(engine, Top.owned, k) + Number(engine, o, k)
                  /\ Owned(engine, frames, k) \in Nat /\ Number(engine, Top.owned, k) \in Nat
    BY <1>5, TopChanged
  <1>7. \A k : Number(engine, o, k) = Number(engine, Top.owned, k) + One(engine, h, k) + One(engine, g, k)
    <2> SUFFICES ASSUME NEW k
                 PROVE  Number(engine, o, k) = Number(engine, Top.owned, k) + One(engine, h, k) + One(engine, g, k)
      OBVIOUS
    <2>1. Number(engine, Append(Top.owned, h), k) = Number(engine, Top.owned, k) + One(engine, h, k)
      BY <1>1, NumberAppended
    <2>2. Number(engine, Append(Append(Top.owned, h), g), k) = Number(engine, Append(Top.owned, h), k) + One(engine, g, k)
      BY <1>2, NumberAppended
    <2> QED
      BY <1>2, <2>1, <2>2
  <1>8. \A k : One(engine, h, k) \in {0, 1} /\ One(engine, g, k) \in {0, 1}
    BY DEF One
  <1>9. \A k : Owned(engine, frames', k) = Owned(engine, frames, k) + One(engine, h, k) + One(engine, g, k)
    <2> SUFFICES ASSUME NEW k
                 PROVE  Owned(engine, frames', k) = Owned(engine, frames, k) + One(engine, h, k) + One(engine, g, k)
      OBVIOUS
    <2>1. /\ Owned(engine, frames', k) = Owned(engine, frames, k) - Number(engine, Top.owned, k) + Number(engine, o, k)
          /\ Owned(engine, frames, k) \in Nat /\ Number(engine, Top.owned, k) \in Nat
      BY <1>6
    <2>2. /\ Number(engine, o, k) = Number(engine, Top.owned, k) + One(engine, h, k) + One(engine, g, k)
          /\ One(engine, h, k) \in {0, 1} /\ One(engine, g, k) \in {0, 1}
      BY <1>7, <1>8
    <2> QED
      BY ONLY <2>1, <2>2
  <1>10. Range(Top.owned) \subseteq Range(o)
    BY <1>4 DEF Range
  <1>11. ASSUME NEW s, FramesIn(engine, s, frames), Valid(engine, s, h), Valid(engine, s, g)
         PROVE  FramesIn(engine, s, frames')
    <2>1. \A j \in DOMAIN Top.owned : Valid(engine, s, Top.owned[j])
      BY <1>11, TopFacts DEF FramesIn
    <2>2. \A j \in DOMAIN o : Valid(engine, s, o[j])
      BY <1>4, <1>11, <2>1
    <2> QED
      BY <1>5, <1>6, <1>11, <2>2 DEF FramesIn
  <1> QED
    BY <1>3, <1>9, <1>10, <1>11

(* What a new promise gets.                                                *)
PromiseOf(s, f, g) ==
  CASE engine = "boa" -> B!NewPromise(s, f, g) [] engine = "jsc" -> J!NewPromise(s, f, g)
    [] engine = "mock" -> M!NewPromise(s, f, g)

Promised(s, f, g, r) ==
  /\ Grown(engine, s, r.store, {f, g}) /\ Valid(engine, r.store, r.resolve) /\ Valid(engine, r.store, r.reject)
  /\ r.owned = IF engine = "boa" THEN <<r.resolve, r.reject>> ELSE <<>>
  /\ \A k \in Keys(engine) : Weight(engine, r.store, k)
       = Weight(engine, s, k) + One(engine, r.resolve, k) + One(engine, r.reject, k)
           + (IF engine = "boa" THEN One(engine, r.resolve, k) + One(engine, r.reject, k) ELSE 0)

LEMMA PromiseFacts ==
  ASSUME engine \in {"boa", "jsc"}, NEW s, Store(engine, s), NEW f \in Cells, NEW g \in Cells, NEW r, r = PromiseOf(s, f, g)
  PROVE  Promised(s, f, g, r)
  <1>0. {f} \cup {g} = {f, g} /\ {f, g} \cup {} = {f, g}
    OBVIOUS
  <1> DEFINE a == Returned(s, f)  b == Returned(a.store, g)
  <1>1. /\ Grown(engine, s, a.store, {f}) /\ Valid(engine, a.store, a.handle)
        /\ \A k \in Keys(engine) : Weight(engine, a.store, k) = Weight(engine, s, k) + One(engine, a.handle, k)
    BY ReturnedFacts DEF Grown
  <1>2. Store(engine, a.store)
    BY <1>1 DEF Grown, Moves
  <1> HIDE DEF a
  <1>3. /\ Grown(engine, a.store, b.store, {g}) /\ Valid(engine, b.store, b.handle)
        /\ \A k \in Keys(engine) : Weight(engine, b.store, k) = Weight(engine, a.store, k) + One(engine, b.handle, k)
    BY <1>2, ReturnedFacts DEF Grown
  <1> HIDE DEF b
  <1>4. /\ Grown(engine, s, b.store, {f, g}) /\ Valid(engine, b.store, a.handle) /\ Store(engine, b.store)
    BY <1>0, <1>1, <1>3, GrownTwice DEF Grown, Moves
  <1>5. \A k \in Keys(engine) : Weight(engine, s, k) \in Nat
    BY WeightIsNat
  <1>6. \A h, k : One(engine, h, k) \in {0, 1}
    BY DEF One
  <1>7. CASE engine = "jsc"
    <2>1. /\ r = [store |-> b.store, resolve |-> a.handle, reject |-> b.handle, owned |-> <<>>]
      BY <1>7 DEF PromiseOf, J!NewPromise, a, b, Returned, J!Returned
    <2>2. r.store = b.store /\ r.resolve = a.handle /\ r.reject = b.handle /\ r.owned = <<>>
      BY <2>1
    <2>3. \A k \in Keys(engine) : Weight(engine, b.store, k) = Weight(engine, s, k) + One(engine, a.handle, k) + One(engine, b.handle, k)
      BY <1>1, <1>3
    <2>4. \A k \in Keys(engine) : Weight(engine, r.store, k)
              = Weight(engine, s, k) + One(engine, r.resolve, k) + One(engine, r.reject, k)
                  + (IF engine = "boa" THEN One(engine, r.resolve, k) + One(engine, r.reject, k) ELSE 0)
      BY <1>5, <1>6, <1>7, <2>2, <2>3
    <2> QED
      BY <1>3, <1>4, <1>7, <2>2, <2>4 DEF Promised
  <1>8. CASE engine = "boa"
    <2> DEFINE c == B!Duplicate(b.store, a.handle)  d == B!Duplicate(c, b.handle)
    <2>1. /\ r = [store |-> d, resolve |-> a.handle, reject |-> b.handle, owned |-> <<a.handle, b.handle>>]
      BY <1>8 DEF PromiseOf, B!NewPromise, a, b, Returned
    <2>2. r.store = d /\ r.resolve = a.handle /\ r.reject = b.handle /\ r.owned = <<a.handle, b.handle>>
      BY <2>1
    <2>3. /\ Grown("boa", b.store, c, {})
          /\ \A k \in Keys("boa") : Weight("boa", c, k) = Weight("boa", b.store, k) + One("boa", a.handle, k)
      BY <1>4, <1>8, BoaDuplicate DEF Grown
    <2>4. Store("boa", c) /\ Valid("boa", c, b.handle)
      BY <1>3, <1>8, <2>3 DEF Grown, Moves
    <2> HIDE DEF c
    <2>5. /\ Grown("boa", c, d, {})
          /\ \A k \in Keys("boa") : Weight("boa", d, k) = Weight("boa", c, k) + One("boa", b.handle, k)
      BY <2>4, BoaDuplicate DEF Grown
    <2> HIDE DEF d
    <2>6. Grown("boa", s, d, {f, g})
      <3>1. Grown("boa", s, c, {f, g} \cup {})
        BY <1>4, <1>8, <2>3, GrownTwice
      <3>2. Grown("boa", s, d, {f, g} \cup {})
        BY <1>0, <2>5, <3>1, GrownTwice
      <3> QED
        BY <1>0, <3>2
    <2>7. Valid("boa", d, a.handle) /\ Valid("boa", d, b.handle)
      BY <1>3, <1>4, <1>8, <2>3, <2>5 DEF Grown
    <2>8. ASSUME NEW k \in Keys("boa")
          PROVE  Weight("boa", d, k) = Weight("boa", s, k) + One("boa", a.handle, k) + One("boa", b.handle, k)
                                         + (One("boa", a.handle, k) + One("boa", b.handle, k))
      <3>1. /\ Weight("boa", a.store, k) = Weight("boa", s, k) + One("boa", a.handle, k)
            /\ Weight("boa", b.store, k) = Weight("boa", a.store, k) + One("boa", b.handle, k)
            /\ Weight("boa", c, k) = Weight("boa", b.store, k) + One("boa", a.handle, k)
            /\ Weight("boa", d, k) = Weight("boa", c, k) + One("boa", b.handle, k)
            /\ Weight("boa", s, k) \in Nat /\ One("boa", a.handle, k) \in {0, 1} /\ One("boa", b.handle, k) \in {0, 1}
        BY <1>1, <1>3, <1>5, <1>6, <1>8, <2>3, <2>5
      <3> QED
        BY ONLY <3>1
    <2> QED
      BY <1>8, <2>2, <2>6, <2>7, <2>8 DEF Promised
  <1> QED
    BY <1>7, <1>8

(* The first frame when the one on top, a callback's, changes.             *)
LEMMA FirstFrame ==
  ASSUME Shaped, InCall, NEW st \in {"body", "making"}, NEW r, NEW o, TopBecomes(st, r, o)
  PROVE  /\ frames # <<>> /\ frames' # <<>> /\ (frames[1].kind = "tick" => frames'[1] = frames[1])
         /\ frames'[1].step \notin {"body", "making"} => frames'[1] = frames[1]
  <1>1. /\ Depth \in DOMAIN frames /\ Top = frames[Depth] /\ 1 \in DOMAIN frames /\ Top.kind = "call"
    BY TopFacts DEF InCall, TopBecomes
  <1>2. /\ frames # <<>> /\ frames' # <<>> /\ Top' = frames'[Depth] /\ Top'.step = st
        /\ \A i \in DOMAIN frames : i # Depth => frames'[i] = frames[i]
    BY DEF TopBecomes
  <1> QED
    BY <1>1, <1>2

LEMMA NewPromiseStep ==
  ASSUME IInv, NEW p \in Promises, NewPromise(p)
  PROVE  IInv'
  <1> DEFINE f == Function(p, "resolve")  g == Function(p, "reject")  r == PromiseOf(store, f, g)
             x == <<p, "resolve">>  y == <<p, "reject">>
  <1>1. /\ InCall /\ frames # <<>> /\ Shaped /\ Balanced /\ Store(engine, store) /\ phase = "running" /\ script \subseteq live
        /\ engine \in {"boa", "jsc", "mock"} /\ Top.step = "body" /\ deferred[p] = "none"
        /\ UNCHANGED <<engine, phase, script, live, payload, batch, host, classes, finalizing, passed, dangling>>
    BY DEF IInv, Balanced, Shaped, Lively, NewPromise, InCall, Top, NoFrame, heap, rest
  <1>2. /\ f \in Cells /\ g \in Cells /\ f \notin Objects /\ g \notin Objects /\ f # Trampoline /\ g # Trampoline
        /\ x \in Halves /\ y \in Halves /\ x # y /\ \A z \in Halves : z[1] = p => z = x \/ z = y
    BY EnginesAssumption DEF Cells, Function, Functions, Trampoline, Halves, Resolvers
  <1>3. /\ store' = r.store /\ Requested(p, r.resolve, r.reject) /\ SetTop([Top EXCEPT !.owned = @ \o r.owned])
    BY DEF NewPromise, PromiseOf
  <1>4. functions[x] = NoHandle /\ functions[y] = NoHandle
    BY <1>1, <1>2 DEF IInv, Kept
  <1> HIDE DEF f, g, r
  <1>5. /\ engine # "mock" => /\ Grown(engine, store, store', {f, g}) /\ Valid(engine, store', r.resolve)
                              /\ Valid(engine, store', r.reject)
                              /\ r.owned = IF engine = "boa" THEN <<r.resolve, r.reject>> ELSE <<>>
                              /\ \A k \in Keys(engine) : Weight(engine, store', k)
                                   = Weight(engine, store, k) + One(engine, r.resolve, k) + One(engine, r.reject, k)
                                       + (IF engine = "boa" THEN One(engine, r.resolve, k) + One(engine, r.reject, k) ELSE 0)
        /\ engine = "mock" => /\ store' = store /\ r.resolve = M!Canonical(f) /\ r.reject = M!Canonical(g) /\ r.owned = <<>>
    <2>0. r = PromiseOf(store, f, g)
      BY DEF r
    <2>1. CASE engine # "mock"
      <3>1. engine \in {"boa", "jsc"} /\ Store(engine, store) /\ f \in Cells /\ g \in Cells
        BY <1>1, <1>2, <2>1
      <3>2. Promised(store, f, g, r)
        BY <2>0, <3>1, PromiseFacts
      <3> QED
        BY <1>3, <2>1, <3>2 DEF Promised
    <2>2. CASE engine = "mock"
      <3>1. r = [store |-> store, resolve |-> M!Canonical(f), reject |-> M!Canonical(g), owned |-> <<>>]
        BY <2>0, <2>2 DEF PromiseOf, M!NewPromise
      <3>2. r.store = store /\ r.resolve = M!Canonical(f) /\ r.reject = M!Canonical(g) /\ r.owned = <<>>
        BY <3>1
      <3> QED
        BY <1>3, <2>2, <3>2
    <2> QED
      BY <2>1, <2>2
  <1>6. /\ r.resolve \in Handles(engine) /\ r.reject \in Handles(engine)
        /\ engine = "mock" => r.resolve.ref = 0 /\ r.reject.ref = 0
    <2>1. CASE engine = "mock"
      BY <1>2, <1>5, <2>1, EnginesAssumption DEF M!Canonical, Handles
    <2>2. CASE engine # "mock"
      BY <1>5, <2>2 DEF Valid
    <2> QED
      BY <2>1, <2>2
  <1> DEFINE h == r.resolve  q == r.reject
  <1>7. /\ DOMAIN functions' = Halves /\ DOMAIN functions = Halves /\ functions'[x] = h /\ functions'[y] = q
        /\ \A z \in Halves \ {x, y} : functions'[z] = functions[z]
        /\ functions' \in [Halves -> Maybe(engine)]
        /\ deferred' \in [Promises -> Places] /\ deferred'[p] = "request"
        /\ \A o \in Promises \ {p} : deferred'[o] = deferred[o]
        /\ outstanding' = (outstanding \ removals) \cup {p} /\ removals' = {}
    <2>1. functions \in [Halves -> Maybe(engine)] /\ deferred \in [Promises -> Places]
      BY <1>1 DEF Shaped
    <2>2. functions' = [functions EXCEPT ![x] = h, ![y] = q] /\ h \in Maybe(engine) /\ q \in Maybe(engine)
      BY <1>3, <1>6 DEF Requested, Maybe
    <2>3. deferred' = [deferred EXCEPT ![p] = "request"] /\ "request" \in Places
      BY <1>3 DEF Requested, Places
    <2> HIDE DEF h, q, x, y
    <2>4. /\ DOMAIN functions' = Halves /\ DOMAIN functions = Halves /\ functions'[x] = h /\ functions'[y] = q
          /\ \A z \in Halves \ {x, y} : functions'[z] = functions[z]
          /\ functions' \in [Halves -> Maybe(engine)]
      BY <1>2, <2>1, <2>2
    <2> QED
      BY <1>3, <2>1, <2>3, <2>4 DEF Requested
  <1> HIDE DEF h, q
  <1> DEFINE o == Top.owned \o r.owned
  <1>9. /\ TopBecomes("body", Top.result, o) /\ Range(Top.owned) \subseteq Range(o)
        /\ engine = "boa" =>
             /\ \A k : Owned(engine, frames', k) = Owned(engine, frames, k) + One(engine, h, k) + One(engine, q, k)
             /\ \A s : FramesIn(engine, s, frames) /\ Valid(engine, s, h) /\ Valid(engine, s, q) => FramesIn(engine, s, frames')
        /\ engine # "boa" => o = Top.owned
    <2>0. SetTop([Top EXCEPT !.owned = o])
      BY <1>3
    <2>1. CASE engine = "boa"
      <3>1. o = Top.owned \o <<h, q>> /\ h \in Handles(engine) /\ q \in Handles(engine)
        BY <1>5, <1>6, <2>1 DEF h, q
      <3> HIDE DEF o
      <3> QED
        BY <1>1, <2>0, <2>1, <3>1, TopTakesTwo
    <2>2. CASE engine # "boa"
      <3>1. Top.owned \in Seq(Handles(engine)) /\ r.owned = <<>>
        BY <1>1, <1>5, <2>2, TopFacts, FrameShape
      <3>2. o = Top.owned
        BY <3>1
      <3>3. TopBecomes("body", Top.result, Top.owned)
        <4> HIDE DEF o
        <4> QED
          BY <1>1, <2>0, <3>1, <3>2, TopSteps
      <3> QED
        BY <2>2, <3>2, <3>3
    <2> QED
      BY <2>1, <2>2
  <1> HIDE DEF o
  <1>10. Shaped'
    BY <1>1, <1>7, <1>9 DEF Shaped, TopBecomes
  <1>11. Framed'
    <2>1. CallFrame(Top)
      BY <1>1, TopFacts DEF IInv, Framed, InCall
    <2>2. \/ Top.result \in Range(o) \cup {NoHandle} \/ Top.result = payload'[<<Top.this.of, "attribute">>]
          \/ engine = "mock" /\ Top.result.ref = 0
      BY <1>1, <1>9, <2>1 DEF CallFrame
    <2>3. /\ live \subseteq live' /\ UNCHANGED <<engine, phase>>
          /\ \A w \in Wrappers : payload[<<w, "attribute">>] # NoHandle => payload'[<<w, "attribute">>] = payload[<<w, "attribute">>]
      BY <1>1
    <2> QED
      BY <1>1, <1>9, <2>2, <2>3, CallbackKeeps
  <1>12. Batched' /\ Kept'
    <2>1. /\ frames # <<>> /\ frames' # <<>> /\ (frames[1].kind = "tick" => frames'[1] = frames[1])
          /\ frames'[1].step \notin {"body", "making"} => frames'[1] = frames[1]
      BY <1>1, <1>9, FirstFrame
    <2>2. Batched'
      BY <1>1, <1>7, <2>1 DEF IInv, Batched
    <2>3. p \notin DOMAIN batch /\ Unused' = Unused
      BY <1>1 DEF IInv, Batched, Unused
    <2>4. \A o2 \in Promises : deferred'[o2] = "request" <=> o2 \in outstanding' \ removals'
      BY <1>1, <1>7 DEF IInv, Kept
    <2>5. \A z \in Halves : deferred'[z[1]] \in {"none", "settled", "released"} => functions'[z] = NoHandle
      <3> SUFFICES ASSUME NEW z \in Halves, deferred'[z[1]] \in {"none", "settled", "released"}
                   PROVE  functions'[z] = NoHandle
        OBVIOUS
      <3>1. z[1] \in Promises \ {p}
        BY <1>7 DEF Halves
      <3>2. z \in Halves \ {x, y}
        BY <3>1
      <3> QED
        BY <1>7, <3>1, <3>2 DEF IInv, Kept
    <2>6. frames'[1].step = "settling" => \A z \in Unused' : functions'[z] = NoHandle
      <3> SUFFICES ASSUME frames'[1].step = "settling", NEW z \in Unused
                   PROVE  functions'[z] = NoHandle
        BY <2>3
      <3>1. z[1] \in DOMAIN batch /\ z[1] # p /\ z \in Halves
        BY <1>1, <2>3 DEF Unused, Halves, Resolvers, Shaped
      <3>2. functions[z] = NoHandle
        BY <2>1 DEF IInv, Kept
      <3>3. z \in Halves \ {x, y}
        BY <3>1
      <3> QED
        BY <1>7, <3>2, <3>3
    <2>7. Kept'
      BY <1>1, <2>1, <2>4, <2>5, <2>6 DEF IInv, Kept
    <2> QED
      BY <2>2, <2>7
  <1>13. ASSUME NEW k \in Keys(engine)
         PROVE  /\ Number(engine, functions', k) = Number(engine, functions, k) + One(engine, h, k) + One(engine, q, k)
                /\ Number(engine, functions, k) \in Nat /\ One(engine, h, k) \in {0, 1} /\ One(engine, q, k) \in {0, 1}
    <2>1. /\ IsFiniteSet(DOMAIN functions) /\ x \in DOMAIN functions /\ y \in DOMAIN functions /\ x # y
          /\ DOMAIN functions' = DOMAIN functions /\ \A z \in DOMAIN functions \ {x, y} : functions'[z] = functions[z]
      BY <1>2, <1>7, FiniteMaps
    <2> HIDE DEF x, y
    <2>2. /\ Number(engine, functions', k) = Number(engine, functions, k) - One(engine, functions[x], k)
               - One(engine, functions[y], k) + One(engine, functions'[x], k) + One(engine, functions'[y], k)
          /\ Number(engine, functions, k) \in Nat
      BY ONLY <2>1, TwoPlaces
    <2>3. One(engine, NoHandle, k) = 0 /\ One(engine, h, k) \in {0, 1} /\ One(engine, q, k) \in {0, 1}
      BY NoKey DEF One
    <2>4. functions[x] = NoHandle /\ functions[y] = NoHandle /\ functions'[x] = h /\ functions'[y] = q
      BY <1>4, <1>7
    <2> QED
      BY <2>2, <2>3, <2>4
  <1>14. CASE engine # "mock"
    <2>1. /\ Grown(engine, store, store', {f, g}) /\ Valid(engine, store', h) /\ Valid(engine, store', q)
          /\ \A s : Valid(engine, store, s) => Valid(engine, store', s)
      BY <1>5, <1>14 DEF Grown, h, q
    <2>2. /\ \A k : Owned(engine, frames', k)
                      = Owned(engine, frames, k) + (IF engine = "boa" THEN One(engine, h, k) + One(engine, q, k) ELSE 0)
          /\ FramesIn(engine, store', frames) => FramesIn(engine, store', frames')
      <3>1. CASE engine = "boa"
        <4>1. \A k : One(engine, h, k) \in {0, 1} /\ One(engine, q, k) \in {0, 1} /\ Owned(engine, frames, k) \in Nat
          BY <1>1, ShapedPlaces, TotalsNat DEF One
        <4> QED
          BY <1>9, <2>1, <3>1, <4>1
      <3>2. CASE engine # "boa"
        <4>1. \A k : Owned(engine, frames, k) \in Nat
          BY <1>1, ShapedPlaces, TotalsNat
        <4> QED
          BY <1>9, <3>2, <4>1 DEF TopBecomes
      <3> QED
        BY <3>1, <3>2
    <2>3. AllIn(engine, store', frames', payload', functions', host', classes')
      <3>1. AllIn(engine, store, frames, payload, functions, host, classes)
        BY <1>1, <1>14 DEF Balanced, AllValid, Roots, Rooting
      <3>2. AllIn(engine, store', frames, payload, functions, host, classes)
        BY <2>1, <3>1, AllGrow
      <3>3. PlacesIn(engine, store', functions')
        <4>1. PlacesIn(engine, store', functions)
          BY <3>2 DEF AllIn
        <4>2. \A z \in Halves : z = x \/ z = y \/ functions'[z] = functions[z]
          BY <1>7
        <4> QED
          BY <1>7, <2>1, <4>1, <4>2 DEF PlacesIn
      <3> QED
        BY <1>1, <2>2, <3>2, <3>3 DEF AllIn
    <2>4. \A k \in Keys(engine) : Weight(engine, store', k) + Total(k) = Weight(engine, store, k) + Total(k)'
      <3> SUFFICES ASSUME NEW k \in Keys(engine)
                   PROVE  Weight(engine, store', k) + Total(k) = Weight(engine, store, k) + Total(k)'
        OBVIOUS
      <3> DEFINE n == IF engine = "boa" THEN One(engine, h, k) + One(engine, q, k) ELSE 0
                 m == One(engine, h, k) + One(engine, q, k)
      <3>1. n \in Nat /\ m \in Nat
        BY <1>13
      <3>2. Number(engine, functions', k) = Number(engine, functions, k) + m
        BY <1>13
      <3>3. Owned(engine, frames', k) = Owned(engine, frames, k) + n
        BY <2>2
      <3>4. Weight(engine, store', k) = Weight(engine, store, k) + m + n /\ Weight(engine, store, k) \in Nat
        <4>1. Weight(engine, store, k) \in Nat
          BY <1>1, WeightIsNat
        <4>2. Weight(engine, store', k) = Weight(engine, store, k) + One(engine, h, k) + One(engine, q, k) + n
          BY <1>5, <1>14 DEF h, q
        <4> HIDE DEF n
        <4> QED
          BY <1>13, <3>1, <4>1, <4>2
      <3>5. /\ Owned(engine, frames, k) \in Nat /\ Number(engine, payload, k) \in Nat
            /\ Number(engine, functions, k) \in Nat /\ Number(engine, host, k) \in Nat
        BY <1>1, ShapedPlaces, TotalsNat
      <3>6. /\ Total(k) = Owned(engine, frames, k) + Number(engine, payload, k) + Number(engine, functions, k) + Number(engine, host, k)
            /\ Total(k)' = Owned(engine, frames', k) + Number(engine, payload, k) + Number(engine, functions', k) + Number(engine, host, k)
        BY <1>1 DEF Total
      <3> HIDE DEF n, m
      <3> QED
        BY <3>1, <3>2, <3>3, <3>4, <3>5, <3>6
    <2>5. /\ Trampoline \notin {f, g} /\ {f, g} \cap Objects \subseteq live' /\ live \subseteq live' /\ script' \subseteq live'
      BY <1>1, <1>2
    <2>6. Balanced'
      BY <1>1, <1>10, <1>14, <2>1, <2>3, <2>4, <2>5, UsualGrown
    <2> QED
      BY <1>1, <1>10, <1>11, <1>12, <1>14, <2>6 DEF IInv, MockOnly
  <1>15. CASE engine = "mock"
    <2>1. Balanced'
      BY <1>1, <1>5, <1>15, MockBalanced
    <2>2. MockScopes(store'.aliases, frames')
      <3>1. TopBecomes("body", Top.result, Top.owned) /\ MockScopes(store.aliases, frames) /\ store' = store
        BY <1>5, <1>9, <1>15 DEF IInv, MockOnly
      <3> QED
        BY <1>1, <3>1, ScopesSame
    <2>3. \A z \in Halves : functions'[z].ref = 0
      <3>1. \A z \in Halves : functions[z].ref = 0
        BY <1>15 DEF IInv, MockOnly
      <3>2. h.ref = 0 /\ q.ref = 0
        BY <1>6, <1>15 DEF h, q
      <3> QED
        BY <1>7, <3>1, <3>2
    <2>4. MockOnly'
      BY <1>1, <1>5, <1>15, <2>2, <2>3 DEF IInv, MockOnly
    <2> QED
      BY <1>10, <1>11, <1>12, <2>1, <2>4 DEF IInv
  <1> QED
    BY <1>14, <1>15

(* A frame begins, a callback's or the tick's.                             *)
LEMMA FrameBegins ==
  ASSUME IInv, phase = "running", NEW f \in FrameSet(engine), frames' = Append(frames, f), f.step \in {"body", "pump"},
         UNCHANGED <<engine, phase, live, payload, deferred, functions, outstanding, removals, batch, dangling>>,
         f.kind = "call" => CallFrame(f), f.kind = "tick" => frames = <<>> /\ TickFrame(f), f.stack \subseteq live
  PROVE  /\ Framed' /\ Batched' /\ Kept'
         /\ f.owned = <<>> => \A aliases : MockScopes(aliases, frames) => MockScopes(aliases, frames')
  <1> DEFINE n == Len(frames) + 1
  <1>1. /\ Shaped /\ frames \in Seq(FrameSet(engine)) /\ Len(frames) \in Nat /\ DOMAIN frames = 1 .. Len(frames)
        /\ frames # <<>> => 1 \in DOMAIN frames
        /\ frames = <<>> => n = 1
    BY DEF IInv, Shaped
  <1>2. /\ DOMAIN frames' = DOMAIN frames \cup {n} /\ frames'[n] = f /\ frames' # <<>>
        /\ \A i \in DOMAIN frames : i # n /\ frames'[i] = frames[i]
    BY <1>1, TopBegins
  <1> HIDE DEF n
  <1>3. /\ phase \in PhasesOf(engine)
        /\ \A i \in DOMAIN frames : /\ frames[i].kind = "tick" => i = 1 /\ TickFrame(frames[i])
                                    /\ frames[i].kind = "call" => CallFrame(frames[i])
                                    /\ frames[i].stack \subseteq live
    BY DEF IInv, Framed
  <1>4. \A i \in DOMAIN frames : frames[i].kind = "call" => CallFrame(frames[i])'
    <2> SUFFICES ASSUME NEW i \in DOMAIN frames, frames[i].kind = "call"
                 PROVE  CallFrame(frames[i])'
      OBVIOUS
    <2>1. CallFrame(frames[i]) /\ frames'[i] = frames[i]
      BY <1>2, <1>3
    <2> QED
      BY <2>1 DEF CallFrame
  <1>5. ASSUME f.kind = "call", NEW i, i = n
        PROVE  CallFrame(frames[i])'
    <2>1. CallFrame(f) /\ frames'[i] = f /\ engine' = engine /\ payload' = payload
      BY <1>2, <1>5
    <2> QED
      BY ONLY <2>1 DEF CallFrame
  <1>6. Framed'
    <2>1. \A i \in DOMAIN frames' : /\ frames'[i].kind = "tick" => i = 1 /\ TickFrame(frames[i])'
                                    /\ frames'[i].kind = "call" => CallFrame(frames[i])'
                                    /\ frames'[i].stack \subseteq live'
      <3> SUFFICES ASSUME NEW i \in DOMAIN frames'
                   PROVE  /\ frames'[i].kind = "tick" => i = 1 /\ TickFrame(frames[i])'
                          /\ frames'[i].kind = "call" => CallFrame(frames[i])'
                          /\ frames'[i].stack \subseteq live'
        OBVIOUS
      <3>1. CASE i \in DOMAIN frames
        BY <1>2, <1>3, <1>4, <3>1 DEF TickFrame
      <3>2. CASE i = n
        <4>1. frames'[i] = f /\ (f.kind = "tick" => i = 1 /\ TickFrame(f)) /\ f.stack \subseteq live'
          BY <1>1, <1>2, <3>2
        <4>2. f.kind = "call" => CallFrame(frames[i])'
          BY <1>5, <3>2
        <4> QED
          BY ONLY <4>1, <4>2 DEF TickFrame
      <3> QED
        BY <1>2, <3>1, <3>2
    <2> QED
      BY <1>3, <2>1 DEF Framed
  <1>7. frames # <<>> => frames'[1] = frames[1]
    BY <1>1, <1>2
  <1>8. frames = <<>> => frames'[1] = f
    BY <1>1, <1>2
  <1>9. Batched'
    BY <1>2, <1>7, <1>8 DEF IInv, Batched
  <1>10. Kept'
    BY <1>2, <1>7, <1>8 DEF IInv, Kept, Unused
  <1>11. ASSUME f.owned = <<>>, NEW aliases, MockScopes(aliases, frames)
         PROVE  MockScopes(aliases, frames')
    <2>1. \A i \in DOMAIN frames' : \A j \in DOMAIN frames'[i].owned : i \in DOMAIN frames
      BY <1>2, <1>11
    <2>2. \A i \in DOMAIN frames : i \in DOMAIN frames' /\ frames'[i] = frames[i]
      BY <1>2
    <2> QED
      BY <1>11, <2>1, <2>2 DEF MockScopes
  <1> QED
    BY <1>6, <1>9, <1>10, <1>11

(* What a callback begins with.                                            *)
Begun(s, t, this, arg, owned, cs) ==
  /\ this \in Handles(engine) /\ this.of \in Wrappers \cap cs /\ arg \in Maybe(engine) /\ owned \in Seq(Handles(engine))
  /\ arg # NoHandle => arg.of \in Plain \cap cs
  /\ engine = "boa" => this \in Range(owned) /\ arg \in Range(owned) \cup {NoHandle}
  /\ engine = "mock" => this.ref = 0 /\ arg.ref = 0
  /\ engine # "boa" => t = s /\ owned = <<>>
  /\ engine = "boa" => /\ Grown("boa", s, t, cs) /\ PlacesIn("boa", t, owned)
                       /\ \A k \in Keys("boa") : Weight("boa", t, k) = Weight("boa", s, k) + Number("boa", owned, k)

LEMMA BegunAlone ==
  ASSUME engine \in {"boa", "jsc", "mock"}, Store(engine, store), NEW w \in Wrappers, NEW e, e = Entered(store, w, <<>>)
  PROVE  Begun(store, e.store, e.handles[1], NoHandle, IF engine = "boa" THEN e.handles ELSE <<>>, {w})
  <1>0. w \in Cells /\ NoHandle \in Maybe(engine) /\ NoHandle.ref = 0
    BY DEF Cells, Objects, Maybe, NoHandle
  <1>1. CASE engine = "boa"
    <2> DEFINE a == Returned(store, w)  h == a.handle
    <2>1. e = [store |-> a.store, handles |-> <<h>>]
      BY <1>1 DEF Entered, B!Entered, Returned
    <2>2. e.store = a.store /\ e.handles = <<h>> /\ e.handles[1] = h
      BY <2>1
    <2>3. /\ Grown("boa", store, a.store, {w}) /\ Valid("boa", a.store, h) /\ h.of = w
          /\ \A k \in Keys("boa") : Weight("boa", a.store, k) = Weight("boa", store, k) + One("boa", h, k)
      BY <1>0, <1>1, ReturnedFacts DEF Grown
    <2> HIDE DEF a, h
    <2>4. h \in Handles("boa") /\ <<h>> \in Seq(Handles("boa")) /\ h \in Range(<<h>>)
      <3>1. h \in Handles("boa")
        BY <2>3 DEF Valid
      <3>2. DOMAIN <<h>> = {1} /\ <<h>>[1] = h
        OBVIOUS
      <3> QED
        BY <3>1, <3>2 DEF Range
    <2>5. PlacesIn("boa", a.store, <<h>>)
      BY <2>3 DEF PlacesIn
    <2>6. \A k : Number("boa", <<h>>, k) = One("boa", h, k)
      BY NumberOfOne
    <2> QED
      BY <1>0, <1>1, <2>2, <2>3, <2>4, <2>5, <2>6 DEF Begun
  <1>2. CASE engine = "jsc"
    <2>1. e = [store |-> store, handles |-> <<J!Pointer(w)>>]
      BY <1>2 DEF Entered, J!Entered
    <2>2. e.store = store /\ e.handles[1] = J!Pointer(w)
      BY <2>1
    <2>3. J!Pointer(w) \in Handles("jsc") /\ J!Pointer(w).of = w
      BY <1>0 DEF J!Pointer, Handles
    <2>4. <<>> \in Seq(Handles(engine))
      OBVIOUS
    <2> QED
      BY <1>0, <1>2, <2>2, <2>3, <2>4 DEF Begun
  <1>3. CASE engine = "mock"
    <2>1. e = [store |-> store, handles |-> <<M!Canonical(w)>>]
      BY <1>3 DEF Entered, M!Entered
    <2>2. e.store = store /\ e.handles[1] = M!Canonical(w)
      BY <2>1
    <2>3. M!Canonical(w) \in Handles("mock") /\ M!Canonical(w).of = w /\ M!Canonical(w).ref = 0
      BY <1>0, EnginesAssumption DEF M!Canonical, Handles
    <2>4. <<>> \in Seq(Handles(engine))
      OBVIOUS
    <2> QED
      BY <1>0, <1>3, <2>2, <2>3, <2>4 DEF Begun
  <1> QED
    BY <1>1, <1>2, <1>3

LEMMA BegunWith ==
  ASSUME engine \in {"boa", "jsc", "mock"}, Store(engine, store), NEW w \in Wrappers, NEW p \in Plain,
         NEW e, e = Entered(store, w, <<p>>)
  PROVE  Begun(store, e.store, e.handles[1], e.handles[2], IF engine = "boa" THEN e.handles ELSE <<>>, {w, p})
  <1>0. w \in Cells /\ p \in Cells /\ <<p>> # <<>> /\ <<p>>[1] = p /\ {w} \cup {p} = {w, p}
    BY DEF Cells, Objects
  <1>1. CASE engine = "boa"
    <2> DEFINE a == Returned(store, w)  h == a.handle  b == Returned(a.store, p)  g == b.handle
    <2>1. e = [store |-> b.store, handles |-> <<h, g>>]
      BY <1>0, <1>1 DEF Entered, B!Entered, Returned
    <2>2. e.store = b.store /\ e.handles = <<h, g>> /\ e.handles[1] = h /\ e.handles[2] = g
      BY <2>1
    <2>3. /\ Grown("boa", store, a.store, {w}) /\ Valid("boa", a.store, h) /\ h.of = w
          /\ \A k \in Keys("boa") : Weight("boa", a.store, k) = Weight("boa", store, k) + One("boa", h, k)
      BY <1>0, <1>1, ReturnedFacts DEF Grown
    <2>4. Store(engine, a.store)
      BY <1>1, <2>3 DEF Grown, Moves
    <2> HIDE DEF a, h
    <2>5. /\ Grown("boa", a.store, b.store, {p}) /\ Valid("boa", b.store, g) /\ g.of = p
          /\ \A k \in Keys("boa") : Weight("boa", b.store, k) = Weight("boa", a.store, k) + One("boa", g, k)
      BY <1>0, <1>1, <2>4, ReturnedFacts DEF Grown
    <2> HIDE DEF b, g
    <2>6. Grown("boa", store, b.store, {w, p}) /\ Valid("boa", b.store, h)
      <3>1. Grown("boa", store, b.store, {w} \cup {p})
        BY <2>3, <2>5, GrownTwice
      <3> QED
        BY <1>0, <2>3, <2>5, <3>1 DEF Grown
    <2> DEFINE hs == <<h, g>>
    <2>7. DOMAIN hs = {1, 2} /\ hs[1] = h /\ hs[2] = g
      OBVIOUS
    <2>8. h \in Handles("boa") /\ g \in Handles("boa")
      BY <2>5, <2>6 DEF Valid
    <2>9. hs \in Seq(Handles("boa"))
      BY <2>8
    <2>10. \A k : Number("boa", hs, k) = One("boa", h, k) + One("boa", g, k)
      BY NumberOfTwo
    <2> HIDE DEF hs
    <2>11. h \in Range(hs) /\ g \in Range(hs) /\ PlacesIn("boa", b.store, hs)
      BY <2>5, <2>6, <2>7 DEF Range, PlacesIn
    <2>12. \A k \in Keys("boa") : Weight("boa", b.store, k) = Weight("boa", store, k) + Number("boa", hs, k)
      <3>1. \A k \in Keys("boa") : Weight("boa", store, k) \in Nat /\ One("boa", h, k) \in {0, 1} /\ One("boa", g, k) \in {0, 1}
        BY <1>1, WeightIsNat DEF One
      <3> QED
        BY <2>3, <2>5, <2>10, <3>1
    <2>13. e.store = b.store /\ e.handles = hs /\ e.handles[1] = h /\ e.handles[2] = g
      BY <2>2 DEF hs
    <2>14. g \in Maybe("boa") /\ h.of \in Wrappers \cap {w, p} /\ g.of \in Plain \cap {w, p}
      BY <2>3, <2>5, <2>8 DEF Maybe
    <2> QED
      BY <1>1, <2>6, <2>8, <2>9, <2>11, <2>12, <2>13, <2>14 DEF Begun
  <1>2. CASE engine = "jsc"
    <2>1. e = [store |-> store, handles |-> <<J!Pointer(w), J!Pointer(p)>>]
      BY <1>0, <1>2 DEF Entered, J!Entered
    <2>2. e.store = store /\ e.handles[1] = J!Pointer(w) /\ e.handles[2] = J!Pointer(p)
      BY <2>1
    <2>3. /\ J!Pointer(w) \in Handles("jsc") /\ J!Pointer(w).of = w
          /\ J!Pointer(p) \in Handles("jsc") /\ J!Pointer(p).of = p
      BY <1>0 DEF J!Pointer, Handles
    <2>4. <<>> \in Seq(Handles(engine))
      OBVIOUS
    <2> QED
      BY <1>0, <1>2, <2>2, <2>3, <2>4 DEF Begun, Maybe
  <1>3. CASE engine = "mock"
    <2>1. e = [store |-> store, handles |-> <<M!Canonical(w), M!Canonical(p)>>]
      BY <1>0, <1>3 DEF Entered, M!Entered
    <2>2. e.store = store /\ e.handles[1] = M!Canonical(w) /\ e.handles[2] = M!Canonical(p)
      BY <2>1
    <2>3. /\ M!Canonical(w) \in Handles("mock") /\ M!Canonical(w).of = w /\ M!Canonical(w).ref = 0
          /\ M!Canonical(p) \in Handles("mock") /\ M!Canonical(p).of = p /\ M!Canonical(p).ref = 0
      BY <1>0, EnginesAssumption DEF M!Canonical, Handles
    <2>4. <<>> \in Seq(Handles(engine))
      OBVIOUS
    <2> QED
      BY <1>0, <1>3, <2>2, <2>3, <2>4 DEF Begun, Maybe
  <1> QED
    BY <1>1, <1>2, <1>3

LEMMA CallBegins ==
  ASSUME IInv, phase = "running", NEW this, NEW arg, NEW owned, NEW cs \in SUBSET script, Begun(store, store', this, arg, owned, cs),
         frames' = Append(frames, Frame("call", this, arg, owned, cs)), UNCHANGED <<heap, payload, async, rest>>
  PROVE  IInv'
  <1> DEFINE f == Frame("call", this, arg, owned, cs)
  <1>1. /\ Shaped /\ Balanced /\ Store(engine, store) /\ script \subseteq live /\ script \subseteq Objects
        /\ engine \in {"boa", "jsc", "mock"}
        /\ UNCHANGED <<engine, phase, script, live, payload, deferred, functions, outstanding, removals, batch, host, classes,
                       finalizing, passed, dangling>>
    BY DEF IInv, Balanced, Shaped, Lively, heap, async, rest
  <1>2. /\ f.kind = "call" /\ f.step = "body" /\ f.this = this /\ f.arg = arg /\ f.owned = owned /\ f.stack = cs
        /\ f.result = NoHandle
    BY DEF Frame
  <1>3. f \in FrameSet(engine)
    <2>1. this \in Maybe(engine) /\ arg \in Maybe(engine) /\ owned \in Seq(Handles(engine)) /\ cs \in SUBSET Objects
          /\ NoHandle \in Maybe(engine)
      BY <1>1 DEF Begun, Maybe
    <2> QED
      BY <2>1 DEF Frame, FrameSet
  <1>4. CallFrame(f)
    <2>1. this # NoHandle
      BY KeyOfHandle DEF Begun
    <2> QED
      BY <1>2, <2>1 DEF Begun, CallFrame
  <1>5. frames' = Append(frames, f) /\ f.step \in {"body", "pump"} /\ f.kind # "tick" /\ f.stack \subseteq live
    BY <1>1, <1>2
  <1> HIDE DEF f
  <1>6. /\ Framed' /\ Batched' /\ Kept'
        /\ f.owned = <<>> => \A aliases : MockScopes(aliases, frames) => MockScopes(aliases, frames')
    BY <1>1, <1>3, <1>4, <1>5, FrameBegins
  <1>7. /\ frames' \in Seq(FrameSet(engine))
        /\ \A k : Owned(engine, frames', k) = Owned(engine, frames, k) + Number(engine, owned, k)
        /\ \A s : FramesIn(engine, s, frames) /\ PlacesIn(engine, s, owned) => FramesIn(engine, s, frames')
    BY <1>1, <1>2, <1>3, <1>5, TopBegins
  <1>8. Shaped'
    BY <1>1, <1>7 DEF Shaped
  <1>9. CASE engine # "mock"
    <2>1. \E es : /\ es \subseteq cs /\ Grown(engine, store, store', es) /\ PlacesIn(engine, store', owned)
                  /\ \A k \in Keys(engine) : Weight(engine, store', k) = Weight(engine, store, k) + Number(engine, owned, k)
      <3>1. CASE engine = "boa"
        BY <3>1 DEF Begun
      <3>2. CASE engine # "boa"
        <4>1. store' = store /\ owned = <<>>
          BY <3>2 DEF Begun
        <4>2. Grown(engine, store, store, {}) /\ {} \subseteq cs /\ PlacesIn(engine, store', <<>>)
          BY <1>1, StillGrown DEF PlacesIn
        <4>3. \A k \in Keys(engine) : Weight(engine, store, k) \in Nat /\ Number(engine, <<>>, k) = 0
          BY <1>1, WeightIsNat, NumberOfNone
        <4>4. \A k \in Keys(engine) : Weight(engine, store, k) = Weight(engine, store, k) + Number(engine, <<>>, k)
          BY <4>3
        <4> QED
          BY <4>1, <4>2, <4>4
      <3> QED
        BY <3>1, <3>2
    <2>2. PICK es : /\ es \subseteq cs /\ Grown(engine, store, store', es) /\ PlacesIn(engine, store', owned)
                    /\ \A k \in Keys(engine) : Weight(engine, store', k) = Weight(engine, store, k) + Number(engine, owned, k)
      BY <2>1
    <2>3. AllIn(engine, store', frames', payload', functions', host', classes')
      <3>1. AllIn(engine, store, frames, payload, functions, host, classes)
        BY <1>1, <1>9 DEF Balanced, AllValid, Roots, Rooting
      <3>2. AllIn(engine, store', frames, payload, functions, host, classes)
        BY <2>2, <3>1, AllGrow DEF Grown
      <3> QED
        BY <1>1, <1>7, <2>2, <3>2 DEF AllIn
    <2>4. \A k \in Keys(engine) : Weight(engine, store', k) + Total(k) = Weight(engine, store, k) + Total(k)'
      <3> SUFFICES ASSUME NEW k \in Keys(engine)
                   PROVE  Weight(engine, store', k) + Total(k) = Weight(engine, store, k) + Total(k)'
        OBVIOUS
      <3> DEFINE n == Number(engine, owned, k)
      <3>1. n \in Nat
        BY SeqFinite, UsesFinite DEF Begun
      <3>2. Total(k)' = Total(k) + n /\ Total(k) \in Nat
        BY <1>1, <1>7, <3>1, TotalOwns
      <3>3. Weight(engine, store', k) = Weight(engine, store, k) + n /\ Weight(engine, store, k) \in Nat
        BY <1>1, <2>2, WeightIsNat
      <3> HIDE DEF n
      <3> QED
        BY <3>1, <3>2, <3>3
    <2>5. Trampoline \notin es /\ es \cap Objects \subseteq live' /\ live \subseteq live' /\ script' \subseteq live'
      BY <1>1, <2>2, EnginesAssumption
    <2>6. Balanced'
      BY <1>1, <1>8, <1>9, <2>2, <2>3, <2>4, <2>5, UsualGrown
    <2> QED
      BY <1>1, <1>6, <1>8, <1>9, <2>6 DEF IInv, MockOnly
  <1>10. CASE engine = "mock"
    <2>1. store' = store /\ f.owned = <<>>
      BY <1>2, <1>10 DEF Begun
    <2>2. Balanced'
      BY <1>1, <1>10, <2>1, MockBalanced
    <2>3. MockOnly'
      BY <1>1, <1>6, <1>10, <2>1 DEF IInv, MockOnly
    <2> QED
      BY <1>6, <1>8, <2>2, <2>3 DEF IInv
  <1> QED
    BY <1>9, <1>10

LEMMA CallStep ==
  ASSUME IInv, NEW w \in Wrappers, CallMethod(w) \/ \E p \in Plain : CallSetter(w, p)
  PROVE  IInv'
  <1>0. engine \in {"boa", "jsc", "mock"} /\ Store(engine, store)
    BY DEF IInv, Shaped, Balanced
  <1>1. CASE CallMethod(w)
    <2> DEFINE e == Entered(store, w, <<>>)
    <2>1. Begun(store, e.store, e.handles[1], NoHandle, IF engine = "boa" THEN e.handles ELSE <<>>, {w})
      BY <1>0, BegunAlone
    <2>2. Range(<<>>) = {} /\ {w} \cup {} = {w}
      BY DEF Range
    <2>3. /\ phase = "running" /\ w \in script /\ store' = e.store /\ UNCHANGED <<heap, payload, async, rest>>
          /\ frames' = Append(frames, Frame("call", e.handles[1], NoHandle, IF engine = "boa" THEN e.handles ELSE <<>>, {w}))
      BY <1>1, <2>2 DEF CallMethod, Call, ScriptRuns
    <2> HIDE DEF e
    <2>4. {w} \in SUBSET script
      BY <2>3
    <2> QED
      BY <2>1, <2>3, <2>4, CallBegins
  <1>2. ASSUME NEW p \in Plain, CallSetter(w, p)
        PROVE  IInv'
    <2> DEFINE e == Entered(store, w, <<p>>)
    <2>1. Begun(store, e.store, e.handles[1], e.handles[2], IF engine = "boa" THEN e.handles ELSE <<>>, {w, p})
      BY <1>0, BegunWith
    <2>2. Range(<<p>>) = {p} /\ {w} \cup {p} = {w, p} /\ <<p>> # <<>>
      BY DEF Range
    <2>3. /\ phase = "running" /\ w \in script /\ p \in script /\ store' = e.store /\ UNCHANGED <<heap, payload, async, rest>>
          /\ frames' = Append(frames, Frame("call", e.handles[1], e.handles[2], IF engine = "boa" THEN e.handles ELSE <<>>, {w, p}))
      BY <1>2, <2>2 DEF CallSetter, Call, ScriptRuns
    <2> HIDE DEF e
    <2>4. {w, p} \in SUBSET script
      BY <2>3
    <2> QED
      BY <2>1, <2>3, <2>4, CallBegins
  <1> QED
    BY <1>1, <1>2

(* The scope of the frame on top ends.                                     *)
LEMMA ScopeEnds ==
  ASSUME Shaped, Balanced, engine # "mock", Rooting, frames # <<>>, frames' = Front(frames), UNCHANGED <<payload, functions, host>>,
         engine' = engine, NEW t, t = EndScope(store, Top.owned)
  PROVE  /\ Moves(engine, store, t, {})
         /\ \A k \in Keys(engine) : Weight(engine, t, k) + Total(k) = Weight(engine, store, k) + Total(k)'
         /\ FramesIn(engine, store, frames) => FramesIn(engine, store, frames')
  <1>1. engine \in {"boa", "jsc"} /\ Store(engine, store)
    BY DEF Shaped, Balanced
  <1>2. /\ \A k : /\ Owned(engine, frames', k) = Owned(engine, frames, k) - Number(engine, Top.owned, k)
                  /\ Owned(engine, frames, k) \in Nat /\ Number(engine, Top.owned, k) \in Nat
                  /\ Owned(engine, frames', k) \in Nat
        /\ \A s : FramesIn(engine, s, frames) => FramesIn(engine, s, frames')
    BY TopGone
  <1>3. IsFiniteSet(DOMAIN Top.owned)
    BY TopFacts, FrameShape
  <1>4. \A k \in Keys(engine) : /\ Number(engine, Top.owned, k) <= Weight(engine, store, k) /\ Weight(engine, store, k) \in Nat
    <2> SUFFICES ASSUME NEW k \in Keys(engine)
                 PROVE  Number(engine, Top.owned, k) <= Weight(engine, store, k) /\ Weight(engine, store, k) \in Nat
      OBVIOUS
    <2>1. Owned(engine, frames, k) <= Weight(engine, store, k) /\ Weight(engine, store, k) \in Nat
      BY WeightCovers
    <2>2. /\ Owned(engine, frames', k) = Owned(engine, frames, k) - Number(engine, Top.owned, k)
          /\ Owned(engine, frames, k) \in Nat /\ Number(engine, Top.owned, k) \in Nat
          /\ Owned(engine, frames', k) \in Nat
      BY <1>2
    <2> QED
      BY ONLY <2>1, <2>2
  <1>5. t = ReleaseAll(store, Top.owned)
    BY <1>1, AllRelease
  <1>6. /\ Moves(engine, store, t, {})
        /\ \A k \in Keys(engine) : Weight(engine, t, k) = Weight(engine, store, k) - Number(engine, Top.owned, k)
    BY <1>1, <1>3, <1>4, <1>5, ReleaseFacts
  <1>7. ASSUME NEW k \in Keys(engine)
        PROVE  Weight(engine, t, k) + Total(k) = Weight(engine, store, k) + Total(k)'
    <2> DEFINE n == 0 - Number(engine, Top.owned, k)
    <2>1. Number(engine, Top.owned, k) \in Nat
      BY <1>2
    <2>2. n \in Int /\ Owned(engine, frames', k) = Owned(engine, frames, k) + n
      BY <1>2, <2>1
    <2>3. Total(k)' = Total(k) + n /\ Total(k) \in Nat
      <3> HIDE DEF n
      <3>1. UNCHANGED <<engine, payload, functions, host>>
        OBVIOUS
      <3> QED
        BY <2>2, <3>1, TotalOwns
    <2>4. Weight(engine, t, k) = Weight(engine, store, k) + n /\ Weight(engine, store, k) \in Nat
      BY <1>4, <1>6, <2>1
    <2> HIDE DEF n
    <2> QED
      BY <2>2, <2>3, <2>4
  <1> QED
    BY <1>2, <1>6, <1>7

LEMMA EndsBalanced ==
  ASSUME Shaped, Balanced, engine # "mock", phase = "running", Shaped', frames # <<>>, frames' = Front(frames),
         UNCHANGED <<engine, phase, live, payload, functions, host, classes, finalizing, passed>>,
         store' = EndScope(store, Top.owned), script' \subseteq live'
  PROVE  Balanced'
  <1>1. /\ Moves(engine, store, store', {})
        /\ \A k \in Keys(engine) : Weight(engine, store', k) + Total(k) = Weight(engine, store, k) + Total(k)'
        /\ FramesIn(engine, store, frames) => FramesIn(engine, store, frames')
    <2>1. ASSUME NEW t, t = store'
          PROVE  /\ Moves(engine, store, t, {})
                 /\ \A k \in Keys(engine) : Weight(engine, t, k) + Total(k) = Weight(engine, store, k) + Total(k)'
                 /\ FramesIn(engine, store, frames) => FramesIn(engine, store, frames')
      <3>1. Rooting /\ t = EndScope(store, Top.owned) /\ UNCHANGED <<payload, functions, host>>
        BY <2>1 DEF Rooting
      <3> QED
        BY <3>1, ScopeEnds
    <2> QED
      BY <2>1
  <1>2. Moves(engine, store, store, {})
    BY StillGrown DEF Balanced, Grown
  <1>3. AllIn(engine, store, frames', payload', functions', host', classes')
    BY <1>1 DEF Balanced, AllValid, Roots, Rooting, AllIn
  <1>4. Trampoline \notin {} \cup {} /\ ({} \cup {}) \cap Objects \subseteq live' /\ live \subseteq live'
    OBVIOUS
  <1> QED
    BY <1>1, <1>2, <1>3, <1>4, Usual

LEMMA ScopesFewer ==
  ASSUME Shaped, frames # <<>>, frames' = Front(frames), NEW aliases, MockScopes(aliases, frames),
         NEW less, \A n : n \in less <=> n \in aliases /\ \A i \in DOMAIN Top.owned : Top.owned[i].ref # n
  PROVE  MockScopes(less, frames')
  <1>1. /\ \A i \in DOMAIN frames' : i \in DOMAIN frames /\ i # Depth /\ frames'[i] = frames[i]
        /\ DOMAIN frames' = 1 .. (Depth - 1)
    BY TopGone
  <1>2. Depth \in DOMAIN frames /\ Top = frames[Depth] /\ DOMAIN frames = 1 .. Depth /\ Depth \in Nat
    BY TopFacts
  <1>3. \A i \in DOMAIN frames : i # Depth => i \in DOMAIN frames'
    BY <1>1, <1>2
  <1>4. /\ \A n : n \in aliases <=> \E i \in DOMAIN frames : \E j \in DOMAIN frames[i].owned : frames[i].owned[j].ref = n
        /\ \A i, l \in DOMAIN frames : \A j \in DOMAIN frames[i].owned : \A m \in DOMAIN frames[l].owned :
             frames[i].owned[j].ref = frames[l].owned[m].ref => i = l /\ j = m
    BY DEF MockScopes
  <1>5. ASSUME NEW n
        PROVE  n \in less <=> \E i \in DOMAIN frames' : \E j \in DOMAIN frames'[i].owned : frames'[i].owned[j].ref = n
    <2>1. ASSUME n \in less
          PROVE  \E i \in DOMAIN frames' : \E j \in DOMAIN frames'[i].owned : frames'[i].owned[j].ref = n
      <3>1. PICK i \in DOMAIN frames : \E j \in DOMAIN frames[i].owned : frames[i].owned[j].ref = n
        BY <1>4, <2>1
      <3>2. i # Depth
        BY <1>2, <2>1, <3>1
      <3> QED
        BY <1>1, <1>3, <3>1, <3>2
    <2>2. ASSUME NEW i \in DOMAIN frames', NEW j \in DOMAIN frames'[i].owned, frames'[i].owned[j].ref = n
          PROVE  n \in less
      <3>1. i \in DOMAIN frames /\ i # Depth /\ j \in DOMAIN frames[i].owned /\ frames[i].owned[j].ref = n
        BY <1>1, <2>2
      <3>2. n \in aliases
        BY <1>4, <3>1
      <3>3. \A m \in DOMAIN Top.owned : Top.owned[m].ref # n
        BY <1>2, <1>4, <3>1
      <3> QED
        BY <3>2, <3>3
    <2> QED
      BY <2>1, <2>2
  <1>6. \A i, l \in DOMAIN frames' : \A j \in DOMAIN frames'[i].owned : \A m \in DOMAIN frames'[l].owned :
          frames'[i].owned[j].ref = frames'[l].owned[m].ref => i = l /\ j = m
    BY <1>1, <1>4
  <1> QED
    BY <1>5, <1>6 DEF MockScopes

LEMMA ReturnStep ==
  ASSUME IInv, NEW h, Return(h)
  PROVE  IInv'
  <1>1. /\ InCall /\ frames # <<>> /\ Shaped /\ Balanced /\ Store(engine, store) /\ phase = "running" /\ script \subseteq live
        /\ engine \in {"boa", "jsc", "mock"} /\ live \subseteq Objects /\ Top.kind = "call"
        /\ script' \subseteq live /\ store' = EndScope(store, Top.owned) /\ frames' = Front(frames)
        /\ UNCHANGED <<engine, phase, live, payload, deferred, functions, outstanding, removals, batch, host, classes,
                       finalizing, passed, dangling>>
    BY DEF IInv, Balanced, Shaped, Lively, Return, InCall, Top, NoFrame, async, rest
  <1>2. /\ frames' \in Seq(FrameSet(engine)) /\ Len(frames') = Depth - 1 /\ DOMAIN frames' = 1 .. (Depth - 1)
        /\ \A i \in DOMAIN frames' : i \in DOMAIN frames /\ i # Depth /\ frames'[i] = frames[i]
    BY <1>1, TopGone
  <1>3. /\ Depth \in DOMAIN frames /\ Depth \in Nat /\ Depth > 0 /\ Top = frames[Depth] /\ 1 \in DOMAIN frames
        /\ DOMAIN frames = 1 .. Depth
    BY <1>1, TopFacts
  <1>4. Shaped'
    BY <1>1, <1>2 DEF Shaped
  <1>5. Framed'
    <2>1. /\ phase \in PhasesOf(engine)
          /\ \A i \in DOMAIN frames : /\ frames[i].kind = "tick" => i = 1 /\ TickFrame(frames[i])
                                      /\ frames[i].kind = "call" => CallFrame(frames[i])
                                      /\ frames[i].stack \subseteq live
      BY DEF IInv, Framed
    <2>2. ASSUME NEW i \in DOMAIN frames', frames'[i].kind = "call"
          PROVE  CallFrame(frames[i])'
      <3>1. CallFrame(frames[i]) /\ frames'[i] = frames[i]
        BY <1>2, <2>1, <2>2
      <3> QED
        BY <1>1, <3>1 DEF CallFrame
    <2>3. \A i \in DOMAIN frames' : /\ frames'[i].kind = "tick" => i = 1 /\ TickFrame(frames[i])'
                                    /\ frames'[i].stack \subseteq live'
      BY <1>1, <1>2, <2>1 DEF TickFrame
    <2> QED
      BY <1>1, <2>1, <2>2, <2>3 DEF Framed
  <1>6. Batched' /\ Kept'
    <2>1. frames[1].kind = "tick" => frames' # <<>> /\ frames'[1] = frames[1]
      <3> SUFFICES ASSUME frames[1].kind = "tick"
                   PROVE  frames' # <<>> /\ frames'[1] = frames[1]
        OBVIOUS
      <3>1. Depth # 1
        BY <1>1, <1>3
      <3>2. 1 \in DOMAIN frames'
        BY <1>2, <1>3, <3>1
      <3> QED
        BY <1>2, <3>2
    <2>2. frames' # <<>> => frames'[1] = frames[1]
      <3> SUFFICES ASSUME frames' # <<>>
                   PROVE  frames'[1] = frames[1]
        OBVIOUS
      <3>1. 1 \in DOMAIN frames'
        BY <1>2
      <3> QED
        BY <1>2, <3>1
    <2>3. Batched'
      BY <1>1, <2>1, <2>2 DEF IInv, Batched
    <2>4. Kept'
      BY <1>1, <2>2 DEF IInv, Kept, Unused
    <2> QED
      BY <2>3, <2>4
  <1>7. CASE engine # "mock"
    <2>1. Balanced'
      BY <1>1, <1>4, <1>7, EndsBalanced
    <2> QED
      BY <1>1, <1>4, <1>5, <1>6, <1>7, <2>1 DEF IInv, MockOnly
  <1>8. CASE engine = "mock"
    <2>1. /\ Store("mock", store') /\ store'.dups = store.dups /\ store'.panicked = store.panicked
          /\ \A n : n \in store'.aliases <=> n \in store.aliases /\ \A i \in DOMAIN Top.owned : Top.owned[i].ref # n
      <3>1. store' = M!EndScope(store, Top.owned) /\ Store("mock", store)
        BY <1>1, <1>8 DEF EndScope
      <3> QED
        BY <3>1, MockEnds
    <2>2. Balanced'
      BY <1>1, <1>8, <2>1, MockBalanced
    <2>3. MockScopes(store'.aliases, frames')
      <3>1. MockScopes(store.aliases, frames)
        BY <1>8 DEF IInv, MockOnly
      <3> QED
        BY <1>1, <2>1, <3>1, ScopesFewer
    <2>4. MockOnly'
      BY <1>1, <1>8, <2>1, <2>3 DEF IInv, MockOnly
    <2> QED
      BY <1>4, <1>5, <1>6, <2>2, <2>4 DEF IInv
  <1> QED
    BY <1>7, <1>8

(***************************************************************************)
(* The tick.                                                               *)
(***************************************************************************)
LEMMA BeginTickStep ==
  ASSUME IInv, BeginTick
  PROVE  IInv'
  <1> DEFINE f == Frame("tick", NoHandle, NoHandle, <<>>, {})
  <1>1. /\ Shaped /\ Balanced /\ Store(engine, store) /\ phase = "running" /\ frames = <<>>
        /\ engine \in {"boa", "jsc", "mock"} /\ script \subseteq live
        /\ UNCHANGED <<engine, phase, script, live, store, payload, deferred, functions, outstanding, removals, batch,
                       host, classes, finalizing, passed, dangling>>
    BY DEF IInv, Balanced, Shaped, Lively, BeginTick, heap, async, rest
  <1>2. /\ f.kind = "tick" /\ f.step = "pump" /\ f.this = NoHandle /\ f.arg = NoHandle /\ f.owned = <<>> /\ f.stack = {}
        /\ f.result = NoHandle
    BY DEF Frame
  <1>3. f \in FrameSet(engine) /\ TickFrame(f)
    BY <1>2 DEF Frame, FrameSet, Maybe, TickFrame
  <1>4. frames' = Append(frames, f)
    <2>1. frames' = <<f>>
      BY DEF BeginTick
    <2> HIDE DEF f
    <2> QED
      BY <1>1, <2>1
  <1> HIDE DEF f
  <1>5. /\ Framed' /\ Batched' /\ Kept'
        /\ \A aliases : MockScopes(aliases, frames) => MockScopes(aliases, frames')
    <2>1. /\ f.step \in {"body", "pump"} /\ (f.kind = "call" => CallFrame(f)) /\ f.stack \subseteq live
          /\ f.kind = "tick" => frames = <<>> /\ TickFrame(f)
      BY <1>1, <1>2, <1>3
    <2> QED
      BY <1>1, <1>2, <1>3, <1>4, <2>1, FrameBegins
  <1>6. /\ frames' \in Seq(FrameSet(engine))
        /\ \A k : Owned(engine, frames', k) = Owned(engine, frames, k) + Number(engine, <<>>, k)
        /\ \A s : FramesIn(engine, s, frames) /\ PlacesIn(engine, s, <<>>) => FramesIn(engine, s, frames')
    BY <1>1, <1>2, <1>3, <1>4, TopBegins
  <1>7. Shaped'
    BY <1>1, <1>6 DEF Shaped
  <1>8. CASE engine # "mock"
    <2>1. Grown(engine, store, store', {})
      BY <1>1, StillGrown
    <2>2. AllIn(engine, store', frames', payload', functions', host', classes')
      <3>1. AllIn(engine, store, frames, payload, functions, host, classes)
        BY <1>1, <1>8 DEF Balanced, AllValid, Roots, Rooting
      <3>2. PlacesIn(engine, store, <<>>)
        BY DEF PlacesIn
      <3> QED
        BY <1>1, <1>6, <3>1, <3>2 DEF AllIn
    <2>3. \A k \in Keys(engine) : Weight(engine, store', k) + Total(k) = Weight(engine, store, k) + Total(k)'
      <3> SUFFICES ASSUME NEW k \in Keys(engine)
                   PROVE  Weight(engine, store', k) + Total(k) = Weight(engine, store, k) + Total(k)'
        OBVIOUS
      <3>1. Owned(engine, frames', k) = Owned(engine, frames, k) + 0
        BY <1>6, NumberOfNone
      <3>2. Total(k)' = Total(k) + 0 /\ Total(k) \in Nat
        <4>1. 0 \in Int /\ UNCHANGED <<engine, payload, functions, host>>
          BY <1>1
        <4> QED
          BY <1>1, <3>1, <4>1, TotalOwns
      <3> QED
        BY <1>1, <3>2
    <2>4. Trampoline \notin {} /\ {} \cap Objects \subseteq live' /\ live \subseteq live' /\ script' \subseteq live'
      BY <1>1
    <2>5. Balanced'
      BY <1>1, <1>7, <1>8, <2>1, <2>2, <2>3, <2>4, UsualGrown
    <2> QED
      BY <1>1, <1>5, <1>7, <1>8, <2>5 DEF IInv, MockOnly
  <1>9. CASE engine = "mock"
    <2>1. Balanced'
      BY <1>1, <1>9, MockBalanced
    <2>2. MockOnly'
      BY <1>1, <1>5, <1>9 DEF IInv, MockOnly
    <2> QED
      BY <1>5, <1>7, <2>1, <2>2 DEF IInv
  <1> QED
    BY <1>8, <1>9

(* A step that leaves the roots and their places alone.                    *)
LEMMA RootsStay ==
  ASSUME Shaped, Balanced, Before, Before', Shaped',
         UNCHANGED <<engine, store, frames, payload, functions, host, classes, finalizing, passed>>,
         engine # "mock" => Rooted \cap Objects \subseteq live', script' \subseteq live'
  PROVE  Balanced'
  <1>1. CASE engine = "mock"
    BY <1>1, MockBalanced DEF Balanced
  <1>2. CASE engine # "mock"
    <2>1. Moves(engine, store, store, {}) /\ Moves(engine, store, store', {})
      BY StillGrown DEF Balanced, Grown
    <2>2. AllIn(engine, store, frames', payload', functions', host', classes')
      BY <1>2 DEF Balanced, AllValid, Roots, Rooting, Before
    <2>3. \A k \in Keys(engine) : Weight(engine, store', k) + Total(k) = Weight(engine, store, k) + Total(k)'
      BY DEF Total
    <2>4. Trampoline \notin {} \cup {} /\ ({} \cup {}) \cap Objects \subseteq live' /\ Rooted \cap Objects \subseteq live'
      BY <1>2
    <2> QED
      BY <1>2, <2>1, <2>2, <2>3, <2>4, UsualBefore
  <1> QED
    BY <1>1, <1>2

LEMMA AnswerStep ==
  ASSUME IInv, NEW p \in Promises, Answer(p)
  PROVE  IInv'
  <1>1. /\ Shaped /\ Balanced /\ phase = "running" /\ deferred[p] = "request" /\ deferred \in [Promises -> Places]
        /\ outstanding \in SUBSET Promises /\ removals \in SUBSET Promises /\ script \subseteq live
        /\ engine \in {"boa", "jsc", "mock"} /\ deferred' = [deferred EXCEPT ![p] = "queue"]
        /\ UNCHANGED <<engine, phase, script, live, store, frames, payload, functions, batch,
                       host, classes, finalizing, passed, dangling>>
    BY DEF IInv, Balanced, Shaped, Lively, Answer, InTick, heap, rest
  <1>2. /\ outstanding' \in SUBSET Promises /\ removals' \in SUBSET Promises
        /\ \A q : q \in outstanding' \ removals' <=> q \in outstanding \ removals /\ q # p
    BY <1>1 DEF Answer
  <1>3. /\ deferred' \in [Promises -> Places] /\ deferred'[p] = "queue"
        /\ \A q \in Promises : q # p => deferred'[q] = deferred[q]
    BY <1>1 DEF Places
  <1>4. Shaped'
    BY <1>1, <1>2, <1>3 DEF Shaped
  <1>5. Framed'
    BY <1>1, QuietFrames DEF IInv, Framed
  <1>6. Batched'
    BY <1>1, <1>3 DEF IInv, Batched
  <1>7. Kept'
    <2>1. \A q \in Promises : deferred'[q] = "request" <=> q \in outstanding' \ removals'
      BY <1>1, <1>2, <1>3 DEF IInv, Kept
    <2>2. \A x \in Halves : deferred'[x[1]] \in {"none", "settled", "released"} => functions'[x] = NoHandle
      <3> SUFFICES ASSUME NEW x \in Halves, deferred'[x[1]] \in {"none", "settled", "released"}
                   PROVE  functions'[x] = NoHandle
        OBVIOUS
      <3>1. x[1] \in Promises /\ x[1] # p
        BY <1>3 DEF Halves
      <3> QED
        BY <1>1, <1>3, <3>1 DEF IInv, Kept
    <2> QED
      BY <1>1, <2>1, <2>2 DEF IInv, Kept, Unused
  <1>8. Balanced'
    BY <1>1, <1>4, RootsStay DEF Before, Balanced, Lively
  <1> QED
    BY <1>1, <1>4, <1>5, <1>6, <1>7, <1>8 DEF IInv, MockOnly

(* The tick is the only frame while it is on top.                          *)
LEMMA TickAlone ==
  ASSUME IInv, InTick
  PROVE  /\ frames # <<>> /\ Depth = 1 /\ DOMAIN frames = {1} /\ Top = frames[1] /\ TickFrame(Top) /\ phase = "running"
         /\ Top.kind = "tick" /\ Top \in FrameSet(engine) /\ Top.step \in Steps
  <1>1. frames # <<>> /\ phase = "running" /\ Shaped /\ Top.kind = "tick"
    BY DEF IInv, InTick, Top, NoFrame
  <1>2. Depth \in DOMAIN frames /\ Top = frames[Depth] /\ DOMAIN frames = 1 .. Depth /\ Top \in FrameSet(engine)
    BY <1>1, TopFacts
  <1>3. Depth = 1 /\ TickFrame(Top)
    BY <1>1, <1>2 DEF IInv, Framed
  <1> QED
    BY <1>1, <1>2, <1>3 DEF FrameSet, Steps

LEMMA TickKeeps ==
  ASSUME IInv, InTick, NEW st \in Steps \ {"body", "making"}, NEW o, TopBecomes(st, Top.result, o),
         UNCHANGED <<engine, phase>>, live \subseteq live'
  PROVE  /\ Framed'
         /\ frames' # <<>> /\ frames'[1].kind = "tick" /\ frames'[1].step = st /\ frames'[1].owned = o
  <1>1. /\ Depth = 1 /\ DOMAIN frames = {1} /\ Top = frames[1] /\ TickFrame(Top) /\ phase = "running" /\ Top.kind = "tick"
    BY TickAlone
  <1>2. /\ DOMAIN frames' = {1} /\ frames' # <<>> /\ frames'[1].kind = Top.kind /\ frames'[1].this = Top.this
        /\ frames'[1].arg = Top.arg /\ frames'[1].stack = Top.stack /\ frames'[1].step = st
        /\ frames'[1].result = Top.result /\ frames'[1].owned = o
    BY <1>1 DEF TopBecomes
  <1>3. phase \in PhasesOf(engine) /\ Top.stack \subseteq live
    BY <1>1 DEF IInv, Framed
  <1>4. Framed'
    <2>1. \A i \in DOMAIN frames' : /\ frames'[i].kind = "tick" => i = 1 /\ TickFrame(frames[i])'
                                    /\ frames'[i].kind # "call" /\ frames'[i].stack \subseteq live'
      BY <1>1, <1>2, <1>3 DEF TickFrame
    <2> QED
      BY <1>1, <1>3, <2>1 DEF Framed
  <1> QED
    BY <1>1, <1>2, <1>4

LEMMA StartDrainStep ==
  ASSUME IInv, StartDrain
  PROVE  IInv'
  <1>1. /\ Shaped /\ Balanced /\ InTick /\ Top.step = "pump" /\ phase = "running" /\ script \subseteq live
        /\ SetTop([Top EXCEPT !.step = "prepare"])
        /\ UNCHANGED <<engine, phase, script, live, store, payload, deferred, functions, outstanding, removals, batch,
                       host, classes, finalizing, passed, dangling>>
    BY DEF IInv, Balanced, Lively, StartDrain, InTick, heap, async, rest
  <1>2. frames # <<>> /\ Top = frames[1]
    BY <1>1, TickAlone
  <1>3. TopBecomes("prepare", Top.result, Top.owned)
    <2>1. "prepare" \in Steps
      BY DEF Steps
    <2> QED
      BY <1>1, <1>2, <2>1, TopSteps
  <1>4. Shaped'
    BY <1>1, <1>3 DEF Shaped, TopBecomes
  <1>5. Framed' /\ frames' # <<>> /\ frames'[1].kind = "tick" /\ frames'[1].step = "prepare"
    <2>1. "prepare" \in Steps \ {"body", "making"} /\ live \subseteq live'
      BY <1>1 DEF Steps
    <2> QED
      BY <1>1, <1>3, <2>1, TickKeeps
  <1>6. Batched'
    <2>1. DOMAIN batch = {}
      BY <1>1, <1>2 DEF IInv, Batched
    <2> QED
      BY <1>1, <2>1 DEF IInv, Batched
  <1>7. Kept'
    BY <1>1, <1>5 DEF IInv, Kept
  <1>8. Balanced'
    BY <1>1, <1>3, <1>4, StoreStays
  <1>9. MockOnly'
    <2> SUFFICES ASSUME engine = "mock"
                 PROVE  MockOnly'
      BY <1>1 DEF MockOnly
    <2>1. MockScopes(store'.aliases, frames')
      BY <1>1, <1>3, ScopesSame DEF IInv, MockOnly
    <2> QED
      BY <1>1, <2>1 DEF IInv, MockOnly
  <1> QED
    BY <1>4, <1>5, <1>6, <1>7, <1>8, <1>9 DEF IInv

LEMMA PrepareStep ==
  ASSUME IInv, NEW p \in Promises, NEW c \in Objects, NEW fails \in BOOLEAN, NEW bare \in BOOLEAN,
         Prepare(p, c, fails, bare)
  PROVE  IInv'
  <1> DEFINE r == IF bare THEN Thrown(store, c) ELSE Made(store, c)  h == r.handle
             owns == engine = "boa" \/ (engine = "jsc" /\ ~bare)
  <1>1. /\ Shaped /\ Balanced /\ InTick /\ Top.step = "prepare" /\ phase = "running" /\ script \subseteq live
        /\ Store(engine, store) /\ engine \in {"boa", "jsc", "mock"} /\ c \in Cells /\ c # Trampoline
        /\ deferred \in [Promises -> Places] /\ deferred[p] = "queue" /\ live' = live \cup {c} /\ live' \subseteq Objects
        /\ store' = r.store
        /\ UNCHANGED <<engine, phase, script, payload, functions, outstanding, removals,
                       host, classes, finalizing, passed, dangling>>
    BY EnginesAssumption DEF IInv, Balanced, Shaped, Lively, Prepare, Queued, InTick, rest, Cells, Trampoline
  <1>2. h \in Handles(engine) /\ h.of = c /\ (engine = "mock" => r.store = store /\ h.ref = 0)
        /\ (engine = "jsc" /\ bare => r.store = store)
    BY <1>1, ResultTyped
  <1>3. frames # <<>> /\ Top = frames[1] /\ frames[1].kind = "tick" /\ Top.step \in Steps
    BY <1>1, TickAlone
  <1>4. /\ TopBecomes("prepare", Top.result, ScopeWith(h, owns))
        /\ Range(ScopeWith(h, owns)) = Range(Top.owned) \cup (IF owns THEN {h} ELSE {})
    <2>1. SetTop(Owning(Top, h, owns))
      BY DEF Prepare
    <2> HIDE DEF h, r
    <2> QED
      BY <1>1, <1>2, <1>3, <2>1, TopOwnings
  <1>5. /\ deferred' \in [Promises -> Places] /\ deferred'[p] = "batch" /\ \A q \in Promises : q # p => deferred'[q] = deferred[q]
    BY <1>1 DEF Prepare, Places
  <1>6. /\ DOMAIN batch' = DOMAIN batch \cup {p} /\ batch'[p].value = h /\ batch'[p].fails = fails /\ batch'[p].bare = bare
        /\ \A q \in DOMAIN batch : q # p => batch'[q] = batch[q]
    BY DEF Prepare
  <1> HIDE DEF r, h
  <1>7. Shaped'
    <2>1. DOMAIN batch' \in SUBSET Promises /\ \A q \in DOMAIN batch' : batch'[q].value \in Handles(engine) /\ batch'[q].fails \in BOOLEAN /\ batch'[q].bare \in BOOLEAN
      BY <1>1, <1>2, <1>6 DEF Shaped
    <2> QED
      BY <1>1, <1>4, <1>5, <2>1 DEF Shaped, TopBecomes
  <1>8. /\ Framed' /\ frames' # <<>> /\ frames'[1].kind = "tick" /\ frames'[1].step = "prepare"
        /\ frames'[1].owned = ScopeWith(h, owns)
    <2>1. "prepare" \in Steps \ {"body", "making"} /\ live \subseteq live'
      BY <1>1 DEF Steps
    <2> QED
      BY <1>1, <1>4, <2>1, TickKeeps
  <1>9. Batched'
    <2>1. \A q \in Promises : q \in DOMAIN batch' <=> deferred'[q] = "batch"
      BY <1>5, <1>6 DEF IInv, Batched
    <2>2. \A q \in DOMAIN batch' :
            /\ engine = "boa" \/ (engine = "jsc" /\ ~batch'[q].bare) => batch'[q].value \in Range(frames'[1].owned)
            /\ engine = "mock" => batch'[q].value.ref = 0
      BY <1>1, <1>2, <1>3, <1>4, <1>6, <1>8 DEF IInv, Batched
    <2> QED
      BY <1>1, <1>8, <2>1, <2>2 DEF Batched
  <1>10. Kept'
    <2>1. \A q \in Promises : /\ deferred'[q] = "request" <=> deferred[q] = "request"
                              /\ deferred'[q] = "queue" => deferred[q] = "queue"
      BY <1>1, <1>5
    <2>2. \A x \in Halves : deferred'[x[1]] \in {"none", "settled", "released"} => functions'[x] = NoHandle
      <3> SUFFICES ASSUME NEW x \in Halves, deferred'[x[1]] \in {"none", "settled", "released"}
                   PROVE  functions'[x] = NoHandle
        OBVIOUS
      <3>1. x[1] \in Promises /\ x[1] # p
        BY <1>5 DEF Halves
      <3> QED
        BY <1>1, <1>5, <3>1 DEF IInv, Kept
    <2> QED
      BY <1>1, <1>8, <2>1, <2>2 DEF IInv, Kept
  <1>11. Balanced' /\ MockOnly'
    <2>1. CASE owns
      <3>1. engine \in {"boa", "jsc"} /\ engine # "mock" /\ ScopeWith(h, owns) = Append(Top.owned, h)
        BY <1>1, <2>1 DEF ScopeWith
      <3>2. r = Returned(store, c)
        <4>1. Made(store, c) = Returned(store, c)
          BY <1>1, <3>1, ReturnedFacts
        <4>2. engine = "boa" => Thrown(store, c) = Returned(store, c)
          BY <1>1, ResultTyped
        <4> QED
          BY <2>1, <3>1, <4>1, <4>2 DEF r
      <3>3. /\ Moves(engine, store, store', {c}) /\ Valid(engine, store', h)
            /\ \A g : Valid(engine, store, g) => Valid(engine, store', g)
            /\ \A k \in Keys(engine) : Weight(engine, store', k) = Weight(engine, store, k) + One(engine, h, k)
        <4>1. /\ Moves(engine, store, r.store, {c}) /\ Valid(engine, r.store, r.handle)
              /\ \A g : Valid(engine, store, g) => Valid(engine, r.store, g)
              /\ \A k \in Keys(engine) : Weight(engine, r.store, k) = Weight(engine, store, k) + One(engine, r.handle, k)
          BY <1>1, <3>1, <3>2, ReturnedFacts
        <4> QED
          BY <1>1, <4>1 DEF h
      <3>4. Grown(engine, store, store', {c})
        BY <3>3 DEF Grown
      <3>5. TopBecomes("prepare", Top.result, Append(Top.owned, h))
        BY <1>4, <3>1
      <3>6. (c \in Objects => c \in live') /\ live \subseteq live' /\ script' \subseteq live'
        BY <1>1
      <3>7. Balanced'
        BY <1>1, <1>2, <1>7, <3>1, <3>3, <3>4, <3>5, <3>6, OwnedGrown
      <3> QED
        BY <1>1, <3>1, <3>7 DEF MockOnly
    <2>2. CASE ~owns
      <3>1. store' = store /\ TopBecomes("prepare", Top.result, Top.owned)
        BY <1>1, <1>2, <1>4, <2>2 DEF ScopeWith
      <3>2. live \subseteq live' /\ script' \subseteq live'
        BY <1>1
      <3>3. Balanced'
        BY <1>1, <1>7, <3>1, <3>2, StoreStays
      <3>4. engine = "mock" => MockScopes(store'.aliases, frames')
        BY <1>1, <3>1, ScopesSame DEF IInv, MockOnly
      <3> QED
        BY <1>1, <3>1, <3>3, <3>4 DEF IInv, MockOnly
    <2> QED
      BY <2>1, <2>2
  <1> QED
    BY <1>7, <1>8, <1>9, <1>10, <1>11 DEF IInv

(* The functions of some promises are given back.                          *)
LEMMA FunctionsCleared ==
  ASSUME Shaped, Balanced, engine # "mock", Rooting, NEW U \in SUBSET Halves
  PROVE  LET t == ReleaseAll(store, FunctionsOf(U)) IN
         /\ Moves(engine, store, t, {})
         /\ \A k \in Keys(engine) :
              /\ Weight(engine, t, k) = Weight(engine, store, k) - Number(engine, FunctionsOf(U), k)
              /\ Number(engine, WithoutFunctions(U), k) = Number(engine, functions, k) - Number(engine, FunctionsOf(U), k)
              /\ Number(engine, FunctionsOf(U), k) \in Nat /\ Number(engine, functions, k) \in Nat
              /\ Number(engine, FunctionsOf(U), k) <= Number(engine, functions, k)
  <1> DEFINE hs == FunctionsOf(U)  g == WithoutFunctions(U)
  <1>1. /\ functions \in [Halves -> Maybe(engine)] /\ IsFiniteSet(DOMAIN functions) /\ U \in SUBSET DOMAIN functions
        /\ engine \in {"boa", "jsc"} /\ Store(engine, store)
    BY ShapedPlaces, FiniteMaps DEF Shaped, Balanced
  <1>2. /\ hs = [y \in U |-> functions[y]] /\ DOMAIN g = DOMAIN functions
        /\ \A y \in DOMAIN functions \ U : g[y] = functions[y]
        /\ \A y \in U : g[y] = NoHandle
    BY <1>1 DEF FunctionsOf, WithoutFunctions
  <1>3. IsFiniteSet(DOMAIN hs)
    BY <1>1, <1>2, FS_Subset
  <1> HIDE DEF hs, g
  <1>4. \A k \in Keys(engine) : /\ Number(engine, g, k) = Number(engine, functions, k) - Number(engine, hs, k)
                                /\ Number(engine, hs, k) <= Number(engine, functions, k)
    <2> SUFFICES ASSUME NEW k \in Keys(engine)
                 PROVE  /\ Number(engine, g, k) = Number(engine, functions, k) - Number(engine, hs, k)
                        /\ Number(engine, hs, k) <= Number(engine, functions, k)
      OBVIOUS
    <2>1. /\ Number(engine, [y \in U |-> functions[y]], k) <= Number(engine, functions, k)
          /\ Number(engine, g, k) = Number(engine, functions, k) - Number(engine, [y \in U |-> functions[y]], k)
      <3>1. /\ IsFiniteSet(DOMAIN functions) /\ U \in SUBSET DOMAIN functions /\ DOMAIN g = DOMAIN functions
            /\ \A y \in DOMAIN functions \ U : g[y] = functions[y]
            /\ \A y \in U : g[y] = NoHandle
        BY <1>1, <1>2
      <3> QED
        BY ONLY k \in Keys(engine), <3>1, PlacesCleared
    <2> QED
      BY <1>2, <2>1
  <1>5. \A k \in Keys(engine) : Number(engine, hs, k) \in Nat /\ Number(engine, functions, k) \in Nat
    BY <1>1, <1>3, UsesFinite
  <1>6. \A k \in Keys(engine) : Number(engine, hs, k) <= Weight(engine, store, k)
    <2> SUFFICES ASSUME NEW k \in Keys(engine)
                 PROVE  Number(engine, hs, k) <= Weight(engine, store, k)
      OBVIOUS
    <2>1. Number(engine, functions, k) <= Weight(engine, store, k) /\ Weight(engine, store, k) \in Nat
      BY WeightCovers
    <2> QED
      BY <1>4, <1>5, <2>1
  <1>7. /\ Moves(engine, store, ReleaseAll(store, hs), {})
        /\ \A k \in Keys(engine) : Weight(engine, ReleaseAll(store, hs), k) = Weight(engine, store, k) - Number(engine, hs, k)
    BY <1>1, <1>3, <1>6, ReleaseFacts
  <1> QED
    BY <1>4, <1>5, <1>7 DEF hs, g

LEMMA TotalFreed ==
  ASSUME Shaped, UNCHANGED <<engine, payload, host>>, NEW k, NEW n \in Int,
         Owned(engine, frames', k) = Owned(engine, frames, k),
         Number(engine, functions', k) = Number(engine, functions, k) - n
  PROVE  Total(k)' = Total(k) - n /\ Total(k) \in Nat
  <1>1. /\ Owned(engine, frames, k) \in Nat /\ Number(engine, payload, k) \in Nat
        /\ Number(engine, functions, k) \in Nat /\ Number(engine, host, k) \in Nat
    BY ShapedPlaces, TotalsNat
  <1> QED
    BY <1>1 DEF Total

LEMMA FunctionsReleased ==
  ASSUME Shaped, Balanced, engine # "mock", Before, Before', Shaped',
         UNCHANGED <<engine, live, payload, host, classes, finalizing, passed>>,
         NEW U \in SUBSET Halves, functions' = WithoutFunctions(U), store' = ReleaseAll(store, FunctionsOf(U)),
         \A k : Owned(engine, frames', k) = Owned(engine, frames, k),
         \A s : FramesIn(engine, s, frames) => FramesIn(engine, s, frames'), script' \subseteq live'
  PROVE  Balanced'
  <1>1. Rooting /\ Store(engine, store) /\ engine \in {"boa", "jsc"}
    BY DEF Rooting, Before, Balanced, Shaped
  <1>2. ASSUME NEW t, t = store', NEW g, g = functions'
        PROVE  /\ Moves(engine, store, t, {})
               /\ \A k \in Keys(engine) :
                    /\ Weight(engine, t, k) = Weight(engine, store, k) - Number(engine, FunctionsOf(U), k)
                    /\ Number(engine, g, k) = Number(engine, functions, k) - Number(engine, FunctionsOf(U), k)
                    /\ Number(engine, FunctionsOf(U), k) \in Nat
    BY <1>1, <1>2, FunctionsCleared
  <1>3. Moves(engine, store, store, {}) /\ Moves(engine, store, store', {})
    BY <1>1, <1>2, StillGrown DEF Grown
  <1>4. AllIn(engine, store, frames', payload', functions', host', classes')
    <2>1. AllIn(engine, store, frames, payload, functions, host, classes)
      BY <1>1 DEF Balanced, AllValid, Roots
    <2>2. PlacesIn(engine, store, functions')
      BY <2>1, ShapedPlaces DEF AllIn, PlacesIn, WithoutFunctions
    <2> QED
      BY <2>1, <2>2 DEF AllIn
  <1>5. \A k \in Keys(engine) : Weight(engine, store', k) + Total(k) = Weight(engine, store, k) + Total(k)'
    <2> SUFFICES ASSUME NEW k \in Keys(engine)
                 PROVE  Weight(engine, store', k) + Total(k) = Weight(engine, store, k) + Total(k)'
      OBVIOUS
    <2> DEFINE n == Number(engine, FunctionsOf(U), k)
    <2>1. /\ Weight(engine, store', k) = Weight(engine, store, k) - n /\ n \in Nat
          /\ Number(engine, functions', k) = Number(engine, functions, k) - n
      BY <1>2
    <2> HIDE DEF n
    <2>2. Total(k)' = Total(k) - n /\ Total(k) \in Nat
      <3>1. n \in Int /\ UNCHANGED <<engine, payload, host>> /\ Owned(engine, frames', k) = Owned(engine, frames, k)
        BY <2>1
      <3> QED
        BY <2>1, <3>1, TotalFreed
    <2>3. Weight(engine, store, k) \in Nat
      BY <1>1, WeightIsNat
    <2> QED
      BY <2>1, <2>2, <2>3
  <1>6. Trampoline \notin {} \cup {} /\ ({} \cup {}) \cap Objects \subseteq live' /\ Rooted \cap Objects \subseteq live'
    BY DEF Balanced, Lively
  <1> QED
    BY <1>3, <1>4, <1>5, <1>6, UsualBefore

LEMMA SettleStep ==
  ASSUME IInv, NEW reached, Settle(reached)
  PROVE  IInv'
  <1>1. /\ Shaped /\ Balanced /\ InTick /\ Top.step = "prepare" /\ phase = "running" /\ script \subseteq live
        /\ Store(engine, store) /\ engine \in {"boa", "jsc", "mock"} /\ live \subseteq Objects
        /\ SetTop([Top EXCEPT !.step = "settling"]) /\ script' \subseteq live
        /\ store' = Settling(store, FunctionsOf(Unused)) /\ functions' = WithoutFunctions(Unused)
        /\ UNCHANGED <<engine, phase, live, payload, deferred, outstanding, removals, batch,
                       host, classes, finalizing, passed, dangling>>
    BY DEF IInv, Balanced, Shaped, Lively, Settle, InTick, rest
  <1>2. frames # <<>> /\ Top = frames[1] /\ frames[1].kind = "tick"
    BY <1>1, TickAlone
  <1>3. TopBecomes("settling", Top.result, Top.owned)
    <2>1. "settling" \in Steps
      BY DEF Steps
    <2> QED
      BY <1>1, <1>2, <2>1, TopSteps
  <1>4. Unused \in SUBSET Halves /\ \A x \in Halves : functions'[x] = NoHandle \/ functions'[x] = functions[x]
    BY <1>1 DEF Shaped, Unused, Halves, Resolvers, WithoutFunctions
  <1>5. functions' \in [Halves -> Maybe(engine)] /\ \A x \in Unused : functions'[x] = NoHandle
    BY <1>1, <1>4 DEF WithoutFunctions, Shaped, Maybe
  <1>6. Shaped'
    BY <1>1, <1>3, <1>5 DEF Shaped, TopBecomes
  <1>7. Framed' /\ frames' # <<>> /\ frames'[1].kind = "tick" /\ frames'[1].step = "settling"
    <2>1. "settling" \in Steps \ {"body", "making"} /\ live \subseteq live'
      BY <1>1 DEF Steps
    <2> QED
      BY <1>1, <1>3, <2>1, TickKeeps
  <1>8. Batched'
    BY <1>1, <1>7 DEF IInv, Batched
  <1>9. Kept'
    <2>1. Unused' = Unused
      BY <1>1 DEF Unused
    <2> QED
      BY <1>1, <1>4, <1>5, <2>1 DEF IInv, Kept
  <1>10. CASE engine # "mock"
    <2>1. store' = ReleaseAll(store, FunctionsOf(Unused))
      BY <1>1, <1>10, AllRelease
    <2>2. Before /\ Before'
      BY <1>1 DEF Before
    <2>3. /\ \A k : Owned(engine, frames', k) = Owned(engine, frames, k)
          /\ \A s : FramesIn(engine, s, frames) => FramesIn(engine, s, frames')
      BY <1>3 DEF TopBecomes
    <2>4. Balanced'
      <3>1. ASSUME NEW U \in SUBSET Halves, U = Unused
            PROVE  Balanced'
        <4>1. functions' = WithoutFunctions(U) /\ store' = ReleaseAll(store, FunctionsOf(U)) /\ script' \subseteq live'
          BY <1>1, <2>1, <3>1
        <4> QED
          BY <1>1, <1>6, <1>10, <2>2, <2>3, <4>1, FunctionsReleased
      <3> QED
        BY <1>4, <3>1
    <2> QED
      BY <1>1, <1>6, <1>7, <1>8, <1>9, <1>10, <2>4 DEF IInv, MockOnly
  <1>11. CASE engine = "mock"
    <2>1. store' = store
      BY <1>1, <1>11 DEF Settling
    <2>2. Balanced'
      BY <1>1, <1>11, <2>1, MockBalanced
    <2>3. MockScopes(store'.aliases, frames')
      BY <1>1, <1>3, <1>11, <2>1, ScopesSame DEF IInv, MockOnly
    <2>4. \A x \in Halves : functions'[x].ref = 0
      BY <1>4, <1>11 DEF IInv, MockOnly, NoHandle
    <2>5. MockOnly'
      BY <1>1, <1>11, <2>1, <2>3, <2>4 DEF IInv, MockOnly
    <2> QED
      BY <1>6, <1>7, <1>8, <1>9, <2>2, <2>5 DEF IInv
  <1> QED
    BY <1>10, <1>11

LEMMA SettledStep ==
  ASSUME IInv, Settled
  PROVE  IInv'
  <1>1. /\ Shaped /\ Balanced /\ InTick /\ Top.step = "settling" /\ phase = "running" /\ script \subseteq live
        /\ Store(engine, store) /\ engine \in {"boa", "jsc", "mock"} /\ deferred \in [Promises -> Places]
        /\ SetTop([Top EXCEPT !.step = "drain"]) /\ batch' = <<>>
        /\ store' = AfterCall(store, FunctionsOf(Selected)) /\ functions' = WithoutFunctions(Selected)
        /\ deferred' = [p \in Promises |-> IF p \in DOMAIN batch THEN "settled" ELSE deferred[p]]
        /\ UNCHANGED <<engine, phase, script, live, payload, outstanding, removals,
                       host, classes, finalizing, passed, dangling>>
    BY DEF IInv, Balanced, Shaped, Lively, Settled, InTick, heap, rest
  <1>2. frames # <<>> /\ Top = frames[1] /\ frames[1].kind = "tick"
    BY <1>1, TickAlone
  <1>3. TopBecomes("drain", Top.result, Top.owned)
    <2>1. "drain" \in Steps
      BY DEF Steps
    <2> QED
      BY <1>1, <1>2, <2>1, TopSteps
  <1>4. Selected \in SUBSET Halves /\ \A x \in Halves : functions'[x] = NoHandle \/ functions'[x] = functions[x]
    BY <1>1 DEF Shaped, Selected, Halves, Resolvers, WithoutFunctions
  <1>5. functions' \in [Halves -> Maybe(engine)] /\ \A x \in Selected : functions'[x] = NoHandle
    BY <1>1, <1>4 DEF WithoutFunctions, Shaped, Maybe
  <1>6. /\ deferred' \in [Promises -> Places] /\ DOMAIN batch' = {}
        /\ \A p \in DOMAIN batch : deferred[p] = "batch" /\ deferred'[p] = "settled"
        /\ \A p \in Promises : p \notin DOMAIN batch => deferred'[p] = deferred[p] /\ deferred[p] # "batch"
    BY <1>1 DEF IInv, Shaped, Batched, Places
  <1>7. Shaped'
    BY <1>1, <1>3, <1>5, <1>6 DEF Shaped, TopBecomes
  <1>8. Framed' /\ frames' # <<>> /\ frames'[1].kind = "tick" /\ frames'[1].step = "drain"
    <2>1. "drain" \in Steps \ {"body", "making"} /\ live \subseteq live'
      BY <1>1 DEF Steps
    <2> QED
      BY <1>1, <1>3, <2>1, TickKeeps
  <1>9. Batched'
    BY <1>6, <1>8 DEF Batched
  <1>10. Kept'
    <2>1. \A x \in Halves : deferred'[x[1]] \in {"none", "settled", "released"} => functions'[x] = NoHandle
      <3> SUFFICES ASSUME NEW x \in Halves, deferred'[x[1]] \in {"none", "settled", "released"}
                   PROVE  functions'[x] = NoHandle
        OBVIOUS
      <3>1. CASE x[1] \in DOMAIN batch
        <4>1. x \in Selected \/ x \in Unused
          BY <3>1 DEF Halves, Resolvers, Selected, Unused
        <4>2. \A y \in Unused : functions[y] = NoHandle
          BY <1>1, <1>2 DEF IInv, Kept
        <4> QED
          BY <1>4, <1>5, <4>1, <4>2
      <3>2. CASE x[1] \notin DOMAIN batch
        <4>1. x[1] \in Promises
          BY DEF Halves
        <4>2. functions[x] = NoHandle
          BY <1>6, <3>2, <4>1 DEF IInv, Kept
        <4> QED
          BY <1>4, <4>2
      <3> QED
        BY <3>1, <3>2
    <2>2. \A p \in Promises : /\ deferred'[p] = "request" <=> deferred[p] = "request"
                              /\ deferred'[p] = "queue" <=> deferred[p] = "queue"
      BY <1>6
    <2> QED
      BY <1>1, <1>8, <2>1, <2>2 DEF IInv, Kept
  <1>11. CASE engine # "mock"
    <2>1. store' = ReleaseAll(store, FunctionsOf(Selected))
      BY <1>1, <1>11, AllRelease
    <2>2. Before /\ Before'
      BY <1>1 DEF Before
    <2>3. /\ \A k : Owned(engine, frames', k) = Owned(engine, frames, k)
          /\ \A s : FramesIn(engine, s, frames) => FramesIn(engine, s, frames')
      BY <1>3 DEF TopBecomes
    <2>4. Balanced'
      <3>1. ASSUME NEW U \in SUBSET Halves, U = Selected
            PROVE  Balanced'
        <4>1. functions' = WithoutFunctions(U) /\ store' = ReleaseAll(store, FunctionsOf(U)) /\ script' \subseteq live'
          BY <1>1, <2>1, <3>1
        <4> QED
          BY <1>1, <1>7, <1>11, <2>2, <2>3, <4>1, FunctionsReleased
      <3> QED
        BY <1>4, <3>1
    <2> QED
      BY <1>1, <1>7, <1>8, <1>9, <1>10, <1>11, <2>4 DEF IInv, MockOnly
  <1>12. CASE engine = "mock"
    <2>1. store' = store
      BY <1>1, <1>12 DEF AfterCall, M!Settled
    <2>2. Balanced'
      BY <1>1, <1>12, <2>1, MockBalanced
    <2>3. MockScopes(store'.aliases, frames')
      BY <1>1, <1>3, <1>12, <2>1, ScopesSame DEF IInv, MockOnly
    <2>4. \A x \in Halves : functions'[x].ref = 0
      BY <1>4, <1>12 DEF IInv, MockOnly, NoHandle
    <2>5. MockOnly'
      BY <1>1, <1>12, <2>1, <2>3, <2>4 DEF IInv, MockOnly
    <2> QED
      BY <1>7, <1>8, <1>9, <1>10, <2>2, <2>5 DEF IInv
  <1> QED
    BY <1>11, <1>12

(***************************************************************************)
(* JavaScriptCore: what finalizers enqueued is unprotected.                *)
(***************************************************************************)
LEMMA Drained ==
  ASSUME NEW s, Store("jsc", s), \A c \in Cells : s.deferred[c] <= s.protected[c]
  PROVE  LET t == J!DrainDeferred(s) IN
         /\ Store("jsc", t) /\ t.methods = s.methods /\ t.tearing = s.tearing /\ Adds("jsc", s, t, {})
         /\ \A c \in Cells : t.protected[c] = s.protected[c] - s.deferred[c] /\ t.deferred[c] = 0
  <1> DEFINE t == J!DrainDeferred(s)  P == [c \in Cells |-> J!Without(s.protected[c], s.deferred[c])]
             Z == [c \in Cells |-> 0]
  <1>1. JscStore(s)
    BY DEF Store
  <1>2. t = [s EXCEPT !.protected = P, !.deferred = Z]
    BY DEF J!DrainDeferred
  <1>3. \A c \in Cells : s.protected[c] \in Nat /\ s.deferred[c] \in Nat
    BY <1>1 DEF JscStore
  <1>4. \A c \in Cells : P[c] = s.protected[c] - s.deferred[c] /\ P[c] \in Nat /\ Z[c] = 0
    BY <1>3 DEF J!Without
  <1>5. P \in [Cells -> Nat] /\ Z \in [Cells -> Nat]
    BY <1>4
  <1> HIDE DEF t, P, Z
  <1>6. /\ t.protected = P /\ t.deferred = Z /\ t.methods = s.methods /\ t.tearing = s.tearing
        /\ JscStore(t)
    BY <1>1, <1>2, <1>5 DEF JscStore
  <1>7. Adds("jsc", s, t, {})
    BY <1>3, <1>4, <1>6 DEF Adds
  <1>8. Store("jsc", t) /\ \A c \in Cells : t.protected[c] = s.protected[c] - s.deferred[c] /\ t.deferred[c] = 0
    BY <1>4, <1>6 DEF Store
  <1> QED
    BY <1>6, <1>7, <1>8 DEF t

LEMMA AnyIn ==
  ASSUME NEW s, NEW fs \in Seq(FrameSet("jsc")), NEW pl \in [Fields -> Maybe("jsc")], NEW fn \in [Halves -> Maybe("jsc")],
         NEW ho \in Seq(Handles("jsc")), NEW cl \in Seq(Handles("jsc"))
  PROVE  AllIn("jsc", s, fs, pl, fn, ho, cl)
  <1>1. \A h \in Handles("jsc") : Valid("jsc", s, h)
    BY DEF Valid
  <1>2. FramesIn("jsc", s, fs)
    BY <1>1, FramesShape, FrameShape DEF FramesIn
  <1>3. PlacesIn("jsc", s, pl) /\ PlacesIn("jsc", s, fn)
    BY <1>1 DEF PlacesIn, Maybe
  <1>4. PlacesIn("jsc", s, ho) /\ PlacesIn("jsc", s, cl)
    BY <1>1, SeqFinite DEF PlacesIn
  <1> QED
    BY <1>2, <1>3, <1>4 DEF AllIn, TrampolineIn

LEMMA DeferredCovered ==
  ASSUME Shaped, Balanced, engine = "jsc", Rooting, NEW k \in Cells
  PROVE  /\ Weight("jsc", store, k) >= Total(k) + store.deferred[k] + finalizing[k] + passed[k] + TrampolineHeld(k)
         /\ Weight("jsc", store, k) \in Nat /\ Total(k) \in Nat
         /\ store.deferred[k] \in Nat /\ finalizing[k] \in Nat /\ passed[k] \in Nat /\ TrampolineHeld(k) \in Nat
         /\ Weight("jsc", store, k) = store.protected[k]
  <1>1. k \in Keys("jsc") /\ JscStore(store) /\ Roots
    BY DEF Keys, Balanced, Store, Roots
  <1>2. Weight("jsc", store, k) >= Total(k) + Extra(k)
    BY <1>1 DEF Balanced, Weighed
  <1>3. Weight("jsc", store, k) \in Nat /\ Total(k) \in Nat
    <2>1. engine # "mock" /\ k \in Keys(engine)
      BY <1>1
    <2>2. Weight(engine, store, k) \in Nat /\ Total(k) \in Nat
      BY <2>1, WeightCovers
    <2> QED
      BY <2>2
  <1>4. store.deferred[k] \in Nat /\ finalizing[k] \in Nat /\ passed[k] \in Nat /\ TrampolineHeld(k) \in Nat
    BY <1>1 DEF JscStore, Shaped, TrampolineHeld
  <1>5. Extra(k) = TrampolineHeld(k) + store.deferred[k] + finalizing[k] + passed[k]
    BY DEF Extra
  <1> QED
    BY <1>2, <1>3, <1>4, <1>5 DEF Weight

(* What is enqueued goes, next to what the step gives back otherwise.      *)
LEMMA JscDrained ==
  ASSUME Shaped, Balanced, engine = "jsc", Rooting, Rooting', Shaped',
         phase' \in {"enqueued", "mopping"} <=> phase \in {"enqueued", "mopping"},
         \A k : TrampolineHeld(k)' = TrampolineHeld(k),
         UNCHANGED <<engine, live, classes, finalizing, passed>>, script' \subseteq live',
         NEW s, Moves("jsc", store, s, {}), store' = J!DrainDeferred(s),
         \A k \in Cells : Weight("jsc", s, k) + Total(k) = Weight("jsc", store, k) + Total(k)'
  PROVE  Balanced'
  <1>1. Roots /\ Roots' /\ Store("jsc", store) /\ Store("jsc", s) /\ JscStore(s) /\ JscStore(store) /\ Keys("jsc") = Cells
    BY DEF Roots, Balanced, Moves, Store, Keys
  <1>2. s.methods = store.methods /\ s.deferred = store.deferred /\ s.tearing = store.tearing
    BY DEF Moves, OtherwiseSame
  <1>3. \A k \in Cells : Total(k)' \in Nat
    <2>1. /\ frames' \in Seq(FrameSet("jsc")) /\ payload' \in [Fields -> Maybe("jsc")]
          /\ functions' \in [Halves -> Maybe("jsc")] /\ host' \in Seq(Handles("jsc"))
          /\ classes' \in Seq(Handles("jsc"))
      BY Widened DEF Shaped
    <2>2. ASSUME NEW k \in Cells
          PROVE  Total(k)' \in Nat
      <3>1. /\ Owned("jsc", frames', k) \in Nat /\ Number("jsc", payload', k) \in Nat
            /\ Number("jsc", functions', k) \in Nat /\ Number("jsc", host', k) \in Nat
        BY <2>1, TotalsNat
      <3>2. Total(k)' = Owned("jsc", frames', k) + Number("jsc", payload', k) + Number("jsc", functions', k)
                          + Number("jsc", host', k)
        BY DEF Total
      <3> QED
        BY ONLY <3>1, <3>2
    <2> QED
      BY <2>2
  <1>4. ASSUME NEW c \in Cells
        PROVE  /\ s.deferred[c] <= s.protected[c] /\ s.deferred[c] \in Nat /\ s.protected[c] \in Nat
    <2>1. /\ Weight("jsc", store, c) >= Total(c) + store.deferred[c] + finalizing[c] + passed[c] + TrampolineHeld(c)
          /\ Weight("jsc", store, c) \in Nat /\ Total(c) \in Nat
          /\ store.deferred[c] \in Nat /\ finalizing[c] \in Nat /\ passed[c] \in Nat /\ TrampolineHeld(c) \in Nat
      BY DeferredCovered
    <2>2. Weight("jsc", s, c) = s.protected[c] /\ s.protected[c] \in Nat
      BY <1>1 DEF Weight, JscStore
    <2>3. s.protected[c] + Total(c) = Weight("jsc", store, c) + Total(c)' /\ Total(c)' \in Nat
      BY <1>3, <2>2
    <2>4. s.protected[c] >= store.deferred[c]
      BY ONLY <2>1, <2>2, <2>3
    <2> QED
      BY <1>2, <2>1, <2>2, <2>4
  <1>5. /\ Store("jsc", store') /\ store'.methods = s.methods /\ store'.tearing = s.tearing /\ Adds("jsc", s, store', {})
        /\ \A c \in Cells : store'.protected[c] = s.protected[c] - s.deferred[c] /\ store'.deferred[c] = 0
    BY <1>1, <1>4, Drained
  <1>6. Adds("jsc", store, store', {})
    BY <1>5 DEF Moves, Adds
  <1>7. AllIn("jsc", s, frames', payload', functions', host', classes')
    BY Widened, AnyIn DEF Shaped
  <1>8. Keeps("jsc", s, store')
    BY DEF Keeps, Valid
  <1>9. ASSUME NEW k \in Keys("jsc")
        PROVE  Weight("jsc", store', k) + (Total(k) + Extra(k)) = Weight("jsc", store, k) + (Total(k)' + Extra(k)')
    <2>1. k \in Cells
      BY <1>1, <1>9
    <2>2. /\ Weight("jsc", store, k) \in Nat /\ Total(k) \in Nat /\ Total(k)' \in Nat
          /\ store.deferred[k] \in Nat /\ finalizing[k] \in Nat /\ passed[k] \in Nat /\ TrampolineHeld(k) \in Nat
      BY <1>3, <2>1, DeferredCovered
    <2>3. Extra(k) = TrampolineHeld(k) + store.deferred[k] + finalizing[k] + passed[k]
      BY DEF Extra
    <2>4. Extra(k)' = TrampolineHeld(k) + 0 + finalizing[k] + passed[k]
      BY <1>5, <2>1 DEF Extra
    <2>5. /\ Weight("jsc", store', k) = s.protected[k] - store.deferred[k] /\ s.protected[k] \in Nat
          /\ s.protected[k] + Total(k) = Weight("jsc", store, k) + Total(k)'
      BY <1>2, <1>4, <1>5, <2>1 DEF Weight
    <2> QED
      BY ONLY <2>2, <2>3, <2>4, <2>5
  <1>10. \A k : Exact(k)' => Exact(k)
    BY <1>2, <1>5 DEF Exact
  <1>11. AllValid' /\ Weighed'
    <2>1. /\ Store(engine, store') /\ engine' = engine /\ Keeps(engine, s, store')
          /\ AllIn(engine, s, frames', payload', functions', host', classes')
          /\ \A k \in Keys(engine) :
               Weight(engine, store', k) + (Total(k) + Extra(k)) = Weight(engine, store, k) + (Total(k)' + Extra(k)')
      BY <1>5, <1>7, <1>8, <1>9
    <2> QED
      BY <1>1, <1>10, <2>1, Settles
  <1>12. BoaOnly' /\ Lively'
    <2>1. /\ Store(engine, store') /\ engine' = engine /\ engine \in {"boa", "jsc"} /\ Adds(engine, store, store', {})
          /\ Rooted \cap Objects \subseteq live' /\ Trampoline \notin {} /\ {} \cap Objects \subseteq live'
          /\ engine = "jsc" => \A c \in Objects : store'.methods[c] = store.methods[c]
      BY <1>2, <1>5, <1>6 DEF Balanced, Lively
    <2> QED
      BY <1>1, <2>1, LiveRoots
  <1>13. JscOnly'
    <2>1. /\ \A c \in Cells : store.methods[c] = IF c = Prototype THEN Len(classes) ELSE 0
          /\ \A i \in DOMAIN classes : classes[i].of = Prototype
          /\ store.tearing <=> phase \in {"enqueued", "mopping"}
          /\ \A c \in Cells \ Objects : store.deferred[c] = 0 /\ finalizing[c] = 0 /\ passed[c] = 0
      BY DEF Balanced, JscOnly
    <2>2. /\ \A c \in Cells : store'.methods[c] = IF c = Prototype THEN Len(classes') ELSE 0
          /\ \A i \in DOMAIN classes' : classes'[i].of = Prototype
      <3>1. store'.methods = store.methods /\ classes' = classes
        BY <1>2, <1>5
      <3> QED
        BY ONLY <2>1, <3>1
    <2>3. store'.tearing <=> phase' \in {"enqueued", "mopping"}
      BY <1>2, <1>5, <2>1
    <2>4. \A c \in Cells \ Objects : store'.deferred[c] = 0 /\ finalizing'[c] = 0 /\ passed'[c] = 0
      BY <1>5, <2>1
    <2> QED
      BY <2>2, <2>3, <2>4 DEF JscOnly
  <1> QED
    BY <1>5, <1>11, <1>12, <1>13 DEF Balanced

LEMMA EndTickStep ==
  ASSUME IInv, EndTick
  PROVE  IInv'
  <1> DEFINE s == EndScope(store, Top.owned)
  <1>1. /\ Shaped /\ Balanced /\ InTick /\ phase = "running" /\ script \subseteq live /\ Store(engine, store)
        /\ engine \in {"boa", "jsc", "mock"} /\ frames' = <<>> /\ (engine = "jsc" => store' = J!DrainDeferred(s))
        /\ engine # "jsc" => store' = s
        /\ UNCHANGED <<engine, phase, script, live, payload, deferred, functions, outstanding, removals, batch,
                       host, classes, finalizing, passed, dangling>>
    BY DEF IInv, Balanced, Shaped, Lively, EndTick, InTick, heap, async, rest
  <1>2. frames # <<>> /\ Top = frames[1] /\ Depth = 1
    BY <1>1, TickAlone
  <1>3. frames' = Front(frames)
    <2>1. frames \in Seq(FrameSet(engine)) /\ Len(frames) = 1
      BY <1>1, <1>2 DEF Shaped, Depth
    <2>2. Front(frames) = <<>>
      BY <2>1 DEF Front
    <2> QED
      BY <1>1, <2>2
  <1>4. Shaped'
    <2>1. <<>> \in Seq(FrameSet(engine))
      OBVIOUS
    <2> QED
      BY <1>1, <2>1 DEF Shaped
  <1>5. Framed'
    BY <1>1 DEF IInv, Framed
  <1>6. Batched'
    <2>1. DOMAIN batch = {}
      <3>1. DOMAIN <<>> = {}
        OBVIOUS
      <3>2. Top.step = "drain" \/ batch = <<>>
        BY DEF EndTick
      <3>3. DOMAIN batch # {} => frames[1].step \in {"prepare", "settling"}
        BY DEF IInv, Batched
      <3> QED
        BY <1>2, <3>1, <3>2, <3>3
    <2> QED
      BY <1>1, <2>1 DEF IInv, Batched
  <1>7. Kept'
    BY <1>1 DEF IInv, Kept
  <1>8. CASE engine = "boa"
    <2>1. Balanced'
      BY <1>1, <1>2, <1>3, <1>4, <1>8, EndsBalanced
    <2> QED
      BY <1>1, <1>4, <1>5, <1>6, <1>7, <1>8, <2>1 DEF IInv, MockOnly
  <1>9. CASE engine = "jsc"
    <2> HIDE DEF s
    <2>1. Rooting /\ Rooting' /\ engine # "mock" /\ Keys("jsc") = Cells /\ \A k : TrampolineHeld(k)' = TrampolineHeld(k)
      BY <1>1, <1>9 DEF Rooting, Keys, TrampolineHeld
    <2>2. /\ Moves(engine, store, s, {})
          /\ \A k \in Keys(engine) : Weight(engine, s, k) + Total(k) = Weight(engine, store, k) + Total(k)'
      BY <1>1, <1>2, <1>3, <2>1, ScopeEnds DEF s
    <2>3. /\ Moves("jsc", store, s, {})
          /\ \A k \in Cells : Weight("jsc", s, k) + Total(k) = Weight("jsc", store, k) + Total(k)'
      BY <1>9, <2>1, <2>2
    <2>4. /\ UNCHANGED <<engine, live, classes, finalizing, passed>> /\ script' \subseteq live'
          /\ phase' \in {"enqueued", "mopping"} <=> phase \in {"enqueued", "mopping"}
      BY <1>1
    <2>5. Balanced'
      BY <1>1, <1>4, <1>9, <2>1, <2>3, <2>4, JscDrained
    <2> QED
      BY <1>1, <1>4, <1>5, <1>6, <1>7, <1>9, <2>5 DEF IInv, MockOnly
  <1>10. CASE engine = "mock"
    <2>1. /\ Store("mock", store') /\ store'.dups = store.dups /\ store'.panicked = store.panicked
          /\ \A n : n \in store'.aliases <=> n \in store.aliases /\ \A i \in DOMAIN Top.owned : Top.owned[i].ref # n
      <3>1. store' = M!EndScope(store, Top.owned) /\ Store("mock", store)
        BY <1>1, <1>10 DEF EndScope
      <3> QED
        BY <3>1, MockEnds
    <2>2. Balanced'
      BY <1>1, <1>10, <2>1, MockBalanced
    <2>3. MockScopes(store'.aliases, frames')
      <3>1. MockScopes(store.aliases, frames)
        BY <1>10 DEF IInv, MockOnly
      <3> QED
        BY <1>1, <1>2, <1>3, <2>1, <3>1, ScopesFewer
    <2>4. MockOnly'
      BY <1>1, <1>10, <2>1, <2>3 DEF IInv, MockOnly
    <2> QED
      BY <1>4, <1>5, <1>6, <1>7, <2>2, <2>4 DEF IInv
  <1> QED
    BY <1>1, <1>8, <1>9, <1>10

(***************************************************************************)
(* The host.                                                               *)
(***************************************************************************)
(* A handle that is counted reads its cell, which is rooted.               *)
LEMMA CountedRooted ==
  ASSUME Shaped, Balanced, Roots, NEW h, Valid(engine, store, h),
         engine = "jsc" => Weight(engine, store, h.of) > 0
  PROVE  Reads(h) = h.of /\ h.of \in Rooted
  <1>1. engine \in {"boa", "jsc"} /\ h \in Handles(engine) /\ h.of \in Cells
    BY DEF Shaped, Roots, Valid, Handles
  <1>2. CASE engine = "boa"
    <2>1. h.ref \in DOMAIN store.slots /\ store.slots[h.ref].cell = h.of
      BY <1>2 DEF Valid
    <2> QED
      BY <1>2, <2>1 DEF Reads, Rooted, B!Get, B!Rooted
  <1>3. CASE engine = "jsc"
    <2>1. JscStore(store) /\ store.protected[h.of] > 0
      BY <1>3 DEF Balanced, Store, Weight
    <2>2. store.protected[h.of] \in Nat /\ store.methods[h.of] \in Nat
      BY <1>1, <2>1 DEF JscStore
    <2>3. store.protected[h.of] + store.methods[h.of] > 0
      BY <2>1, <2>2
    <2> QED
      BY <1>1, <1>3, <2>3 DEF Reads, Rooted, J!Rooted
  <1> QED
    BY <1>1, <1>2, <1>3

LEMMA NumberOfSingle ==
  ASSUME NEW e, NEW o, DOMAIN o = {1}, NEW k
  PROVE  Number(e, o, k) = One(e, o[1], k)
  <1>1. CASE Key(e, o[1]) = k
    <2>1. Uses(e, o, k) = {1}
      BY <1>1 DEF Uses
    <2> QED
      BY <1>1, <2>1, FS_Singleton DEF Number, One
  <1>2. CASE Key(e, o[1]) # k
    <2>1. Uses(e, o, k) = {}
      BY <1>2 DEF Uses
    <2> QED
      BY <1>2, <2>1, FS_EmptySet DEF Number, One
  <1> QED
    BY <1>1, <1>2

(* The host takes a handle, or gives it back.                              *)
LEMMA TotalHosts ==
  ASSUME Shaped, UNCHANGED <<engine, frames, payload, functions>>, NEW k, NEW n \in Int,
         Number(engine, host', k) = Number(engine, host, k) + n
  PROVE  Total(k)' = Total(k) + n /\ Total(k) \in Nat
  <1>1. /\ Owned(engine, frames, k) \in Nat /\ Number(engine, payload, k) \in Nat
        /\ Number(engine, functions, k) \in Nat /\ Number(engine, host, k) \in Nat
    BY ShapedPlaces, TotalsNat
  <1> QED
    BY <1>1 DEF Total

LEMMA EvalStep ==
  ASSUME IInv, NEW c \in Objects, Eval(c)
  PROVE  IInv'
  <1> DEFINE r == Returned(store, c)  h == r.handle
  <1>1. /\ Shaped /\ Balanced /\ Store(engine, store) /\ phase = "running" /\ frames = <<>> /\ host = <<>> /\ c \in live
        /\ engine \in {"boa", "jsc"} /\ engine # "mock" /\ c \in Cells /\ c # Trampoline /\ script \subseteq live
        /\ store' = r.store /\ host' = <<h>>
        /\ UNCHANGED <<engine, phase, script, live, frames, payload, deferred, functions, outstanding, removals, batch,
                       classes, finalizing, passed, dangling>>
    BY EnginesAssumption DEF IInv, Balanced, Shaped, Lively, Eval, heap, async, Cells, Trampoline
  <1>2. /\ Moves(engine, store, r.store, {c}) /\ Valid(engine, r.store, h) /\ h.of = c
        /\ \A g : Valid(engine, store, g) => Valid(engine, r.store, g)
        /\ \A k \in Keys(engine) : Weight(engine, r.store, k) = Weight(engine, store, k) + One(engine, h, k)
    BY <1>1, ReturnedFacts
  <1> HIDE DEF r, h
  <1>3. h \in ObjectHandles(engine)
    BY <1>2 DEF Valid, ObjectHandles
  <1>4. host' \in Seq(ObjectHandles(engine)) /\ Len(host') = 1 /\ DOMAIN host' = {1} /\ host'[1] = h
    BY <1>1, <1>3
  <1>5. Shaped'
    BY <1>1, <1>4 DEF Shaped
  <1>6. Framed' /\ Batched' /\ Kept'
    BY <1>1, QuietFrames DEF IInv, Framed
  <1>7. Grown(engine, store, store', {c})
    BY <1>1, <1>2 DEF Grown
  <1>8. AllIn(engine, store', frames', payload', functions', host', classes')
    <2>1. AllIn(engine, store, frames, payload, functions, host, classes)
      BY <1>1 DEF Balanced, AllValid, Roots, Rooting
    <2>2. AllIn(engine, store', frames, payload, functions, host, classes)
      BY <1>1, <1>2, <2>1, AllGrow
    <2>3. PlacesIn(engine, store', host')
      BY <1>1, <1>2, <1>4 DEF PlacesIn
    <2> QED
      BY <1>1, <2>2, <2>3 DEF AllIn
  <1>9. \A k \in Keys(engine) : Weight(engine, store', k) + Total(k) = Weight(engine, store, k) + Total(k)'
    <2> SUFFICES ASSUME NEW k \in Keys(engine)
                 PROVE  Weight(engine, store', k) + Total(k) = Weight(engine, store, k) + Total(k)'
      OBVIOUS
    <2> DEFINE n == One(engine, h, k)
    <2>1. n \in Int
      BY DEF One
    <2>2. Number(engine, host', k) = n
      BY <1>4, NumberOfSingle
    <2>3. Number(engine, host, k) = 0
      BY <1>1, NumberOfNone
    <2>4. Weight(engine, store', k) = Weight(engine, store, k) + n /\ Weight(engine, store, k) \in Nat
      BY <1>1, <1>2, WeightIsNat
    <2> HIDE DEF n
    <2>5. Number(engine, host', k) = Number(engine, host, k) + n
      BY <2>1, <2>2, <2>3
    <2>6. Total(k)' = Total(k) + n /\ Total(k) \in Nat
      BY <1>1, <2>1, <2>5, TotalHosts
    <2> QED
      BY <2>1, <2>4, <2>6
  <1>10. Trampoline \notin {c} /\ {c} \cap Objects \subseteq live' /\ live \subseteq live' /\ script' \subseteq live'
    BY <1>1
  <1>11. Balanced'
    BY <1>1, <1>5, <1>7, <1>8, <1>9, <1>10, UsualGrown
  <1> QED
    BY <1>1, <1>5, <1>6, <1>11 DEF IInv, MockOnly

LEMMA SetGlobalStep ==
  ASSUME IInv, SetGlobal
  PROVE  IInv'
  <1> DEFINE h == host[1]
  <1>1. /\ Shaped /\ Balanced /\ Store(engine, store) /\ phase = "running" /\ frames = <<>> /\ host # <<>>
        /\ engine \in {"boa", "jsc"} /\ engine # "mock" /\ script \subseteq live /\ live \subseteq Objects
        /\ store' = Release(store, h) /\ host' = <<>> /\ script' = script \cup {Reads(h)}
        /\ UNCHANGED <<engine, phase, live, frames, payload, deferred, functions, outstanding, removals, batch,
                       classes, finalizing, passed, dangling>>
    BY DEF IInv, Balanced, Shaped, Lively, MockOnly, SetGlobal, async
  <1>2. host \in Seq(ObjectHandles(engine)) /\ Len(host) = 1
    BY <1>1 DEF Shaped
  <1>3. DOMAIN host = {1} /\ h \in ObjectHandles(engine)
    BY <1>2
  <1>4. Roots
    BY <1>1 DEF Roots, Rooting
  <1>5. AllIn(engine, store, frames, payload, functions, host, classes)
    BY <1>1, <1>4 DEF Balanced, AllValid
  <1>6. Valid(engine, store, h) /\ h \in Handles(engine) /\ h.of \in Objects
    <2>1. h \in Handles(engine) /\ h.of \in Objects
      BY <1>3 DEF ObjectHandles
    <2>2. h # NoHandle
      BY <2>1, KeyOfHandle
    <2> QED
      BY <1>3, <1>5, <2>1, <2>2 DEF AllIn, PlacesIn
  <1>7. \A k : Number(engine, host, k) = One(engine, h, k)
    BY <1>3, NumberOfSingle
  <1>8. \A k \in Keys(engine) : One(engine, h, k) <= Weight(engine, store, k) /\ Weight(engine, store, k) \in Nat
    BY <1>1, <1>4, <1>7, WeightCovers DEF Roots
  <1>9. Reads(h) = h.of /\ h.of \in live
    <2>1. engine = "jsc" => Weight(engine, store, h.of) > 0
      <3> SUFFICES ASSUME engine = "jsc"
                   PROVE  Weight(engine, store, h.of) > 0
        OBVIOUS
      <3>1. Key(engine, h) = h.of /\ Key(engine, h) \in Keys(engine) /\ One(engine, h, Key(engine, h)) = 1
        BY <1>6, KeyOfHandle DEF Key
      <3>2. One(engine, h, h.of) <= Weight(engine, store, h.of) /\ Weight(engine, store, h.of) \in Nat
        BY <1>8, <3>1
      <3> QED
        BY <3>1, <3>2
    <2>2. Reads(h) = h.of /\ h.of \in Rooted
      BY <1>1, <1>4, <1>6, <2>1, CountedRooted
    <2> QED
      BY <1>1, <1>6, <2>2 DEF Balanced, Lively
  <1> HIDE DEF h
  <1>10. Shaped'
    <2>1. <<>> \in Seq(ObjectHandles(engine)) /\ script' \in SUBSET Objects
      BY <1>1, <1>6, <1>9
    <2> QED
      BY <1>1, <2>1 DEF Shaped
  <1>11. Framed' /\ Batched' /\ Kept'
    BY <1>1, QuietFrames DEF IInv, Framed
  <1>12. /\ Moves(engine, store, store', {})
         /\ \A k \in Keys(engine) : Weight(engine, store', k) = Weight(engine, store, k) - One(engine, h, k)
    BY <1>1, <1>8, OneReleased
  <1>13. AllIn(engine, store, frames', payload', functions', host', classes')
    <2>1. PlacesIn(engine, store, <<>>)
      BY DEF PlacesIn
    <2> QED
      BY <1>1, <1>5, <2>1 DEF AllIn
  <1>14. \A k \in Keys(engine) : Weight(engine, store', k) + Total(k) = Weight(engine, store, k) + Total(k)'
    <2> SUFFICES ASSUME NEW k \in Keys(engine)
                 PROVE  Weight(engine, store', k) + Total(k) = Weight(engine, store, k) + Total(k)'
      OBVIOUS
    <2> DEFINE n == 0 - One(engine, h, k)
    <2>1. n \in Int
      BY DEF One
    <2>2. One(engine, h, k) \in {0, 1} /\ Number(engine, host, k) = One(engine, h, k) /\ Number(engine, host', k) = 0
      BY <1>1, <1>7, NumberOfNone DEF One
    <2>3. Weight(engine, store', k) = Weight(engine, store, k) + n /\ Weight(engine, store, k) \in Nat
      BY <1>8, <1>12, <2>2
    <2>4. Number(engine, host', k) = Number(engine, host, k) + n
      BY <2>2
    <2> HIDE DEF n
    <2>5. Total(k)' = Total(k) + n /\ Total(k) \in Nat
      BY <1>1, <2>1, <2>4, TotalHosts
    <2> QED
      BY <2>1, <2>3, <2>5
  <1>15. Trampoline \notin {} \cup {} /\ ({} \cup {}) \cap Objects \subseteq live' /\ live \subseteq live' /\ script' \subseteq live'
    BY <1>1, <1>9
  <1>16. Moves(engine, store, store, {})
    BY <1>1, StillGrown DEF Grown
  <1>17. Balanced'
    BY <1>1, <1>10, <1>12, <1>13, <1>14, <1>15, <1>16, Usual
  <1> QED
    BY <1>1, <1>10, <1>11, <1>17 DEF IInv, MockOnly

LEMMA DrainReleasesStep ==
  ASSUME IInv, DrainReleases
  PROVE  IInv'
  <1>1. /\ Shaped /\ Balanced /\ phase = "running" /\ frames = <<>> /\ engine = "jsc" /\ script \subseteq live
        /\ store' = J!DrainDeferred(store) /\ Store("jsc", store)
        /\ UNCHANGED <<engine, phase, script, live, frames, payload, deferred, functions, outstanding, removals, batch,
                       host, classes, finalizing, passed, dangling>>
    BY DEF IInv, Balanced, Lively, DrainReleases, heap, async, rest
  <1>2. Shaped'
    BY <1>1 DEF Shaped
  <1>3. Framed' /\ Batched' /\ Kept'
    BY <1>1, QuietFrames DEF IInv, Framed
  <1>4. Balanced'
    <2>1. Rooting /\ Rooting' /\ \A k : TrampolineHeld(k)' = TrampolineHeld(k)
      BY <1>1 DEF Rooting, TrampolineHeld
    <2>2. Moves("jsc", store, store, {})
      BY <1>1, StillGrown DEF Grown
    <2>3. \A k \in Cells : Weight("jsc", store, k) + Total(k) = Weight("jsc", store, k) + Total(k)'
      BY <1>1 DEF Total
    <2>4. UNCHANGED <<engine, live, classes, finalizing, passed>> /\ script' \subseteq live'
      BY <1>1
    <2> QED
      BY <1>1, <1>2, <2>1, <2>2, <2>3, <2>4, JscDrained
  <1> QED
    BY <1>1, <1>2, <1>3, <1>4 DEF IInv, MockOnly

(***************************************************************************)
(* The collector.                                                          *)
(***************************************************************************)
LEMMA ForgetStep ==
  ASSUME IInv, NEW c \in Objects, Forget(c)
  PROVE  IInv'
  <1>1. /\ Shaped /\ Balanced /\ phase = "running" /\ script \subseteq live /\ script' = script \ {c} /\ script \subseteq Objects
        /\ UNCHANGED <<engine, phase, live, store, frames, payload, deferred, functions, outstanding, removals, batch,
                       host, classes, finalizing, passed, dangling>>
    BY DEF IInv, Balanced, Shaped, Lively, Forget, async, rest
  <1>2. Shaped'
    BY <1>1 DEF Shaped
  <1>3. Framed' /\ Batched' /\ Kept'
    BY <1>1, QuietFrames DEF IInv, Framed
  <1>4. Balanced'
    <2>1. Before /\ Before' /\ script' \subseteq live'
      BY <1>1 DEF Before
    <2>2. engine # "mock" => Rooted \cap Objects \subseteq live'
      BY <1>1 DEF Balanced, Lively
    <2> QED
      BY <1>1, <1>2, <2>1, <2>2, RootsStay
  <1> QED
    BY <1>1, <1>2, <1>3, <1>4 DEF IInv, MockOnly

(* What some places of the payloads hold is given back, or on its way.     *)
LEMMA PayloadCleared ==
  ASSUME Shaped, NEW V \in SUBSET Fields, NEW hs, hs = [y \in V |-> payload[y]],
         NEW g, g = [y \in Fields |-> IF y \in V THEN NoHandle ELSE payload[y]]
  PROVE  /\ IsFiniteSet(DOMAIN hs) /\ g \in [Fields -> PlainHandles(engine) \cup {NoHandle}]
         /\ \A k \in Keys(engine) :
              /\ Number(engine, g, k) = Number(engine, payload, k) - Number(engine, hs, k)
              /\ Number(engine, hs, k) \in Nat /\ Number(engine, payload, k) \in Nat
              /\ Number(engine, hs, k) <= Number(engine, payload, k)
         /\ \A s : PlacesIn(engine, s, payload) => PlacesIn(engine, s, g)
  <1>1. /\ payload \in [Fields -> PlainHandles(engine) \cup {NoHandle}]
        /\ payload \in [Fields -> Maybe(engine)] /\ IsFiniteSet(DOMAIN payload) /\ V \in SUBSET DOMAIN payload
    BY ShapedPlaces, FiniteMaps DEF Shaped
  <1>2. /\ DOMAIN g = DOMAIN payload /\ \A y \in DOMAIN payload \ V : g[y] = payload[y]
        /\ \A y \in V : g[y] = NoHandle
    BY <1>1
  <1>3. IsFiniteSet(DOMAIN hs) /\ g \in [Fields -> PlainHandles(engine) \cup {NoHandle}]
    BY <1>1, FS_Subset
  <1>4. ASSUME NEW k \in Keys(engine)
        PROVE  /\ Number(engine, g, k) = Number(engine, payload, k) - Number(engine, hs, k)
               /\ Number(engine, hs, k) <= Number(engine, payload, k)
    <2>1. /\ Number(engine, [y \in V |-> payload[y]], k) <= Number(engine, payload, k)
          /\ Number(engine, g, k) = Number(engine, payload, k) - Number(engine, [y \in V |-> payload[y]], k)
      <3>1. /\ IsFiniteSet(DOMAIN payload) /\ V \in SUBSET DOMAIN payload /\ DOMAIN g = DOMAIN payload
            /\ \A y \in DOMAIN payload \ V : g[y] = payload[y]
            /\ \A y \in V : g[y] = NoHandle
        BY <1>1, <1>2
      <3> QED
        BY ONLY k \in Keys(engine), <3>1, PlacesCleared
    <2> QED
      BY <2>1
  <1>5. \A k : Number(engine, hs, k) \in Nat /\ Number(engine, payload, k) \in Nat
    BY <1>1, <1>3, UsesFinite
  <1>6. \A s : PlacesIn(engine, s, payload) => PlacesIn(engine, s, g)
    BY <1>1, <1>2 DEF PlacesIn
  <1> QED
    BY <1>3, <1>4, <1>5, <1>6

\* The places of the payloads of some wrappers.
FieldsOf(ws) == {y \in Fields : y[1] \in ws}

LEMMA HeldIs ==
  ASSUME NEW ws
  PROVE  /\ FieldsOf(ws) \in SUBSET Fields /\ Held(ws) = [y \in FieldsOf(ws) |-> payload[y]]
         /\ Emptied(ws) = [y \in Fields |-> IF y \in FieldsOf(ws) THEN NoHandle ELSE payload[y]]
  BY DEF Held, Emptied, FieldsOf

(* JavaScriptCore's finalizers enqueue what objects a payload held.        *)
LEMMA FinalizersGet ==
  ASSUME Shaped, engine = "jsc", NEW hs, IsFiniteSet(DOMAIN hs), \A x \in DOMAIN hs : hs[x] \in PlainHandles(engine) \cup {NoHandle},
         finalizing' = [c \in Cells |-> finalizing[c] + J!Times(hs, c)]
  PROVE  /\ finalizing' \in [Cells -> Nat] /\ \A c \in Cells : finalizing'[c] = finalizing[c] + Number("jsc", hs, c)
         /\ \A c \in Cells \ Objects : finalizing'[c] = finalizing[c]
  <1>1. \A c : J!Times(hs, c) = Number("jsc", hs, c) /\ Number("jsc", hs, c) \in Nat
    BY JscTimes, UsesFinite
  <1>2. \A c \in Cells : finalizing[c] \in Nat /\ finalizing'[c] = finalizing[c] + Number("jsc", hs, c)
    BY <1>1 DEF Shaped
  <1>3. finalizing' \in [Cells -> Nat]
    <2>1. finalizing' = [c \in Cells |-> finalizing[c] + Number("jsc", hs, c)]
      BY <1>1
    <2>2. \A c \in Cells : finalizing[c] + Number("jsc", hs, c) \in Nat
      BY <1>1, <1>2
    <2> QED
      BY ONLY <2>1, <2>2
  <1>4. ASSUME NEW c \in Cells \ Objects
        PROVE  finalizing'[c] = finalizing[c]
    <2>1. \A x \in DOMAIN hs : hs[x].of # c
      BY <1>4, EnginesAssumption DEF PlainHandles, Objects, NoHandle, Cells
    <2>2. Uses("jsc", hs, c) = {}
      BY <2>1 DEF Uses, Key
    <2>3. Number("jsc", hs, c) = 0
      BY <2>2, FS_EmptySet DEF Number
    <2> QED
      BY <1>2, <2>3
  <1> QED
    BY <1>2, <1>3, <1>4

LEMMA CollectStep ==
  ASSUME IInv, NEW c \in Objects, Collect(c)
  PROVE  IInv'
  <1> DEFINE V == FieldsOf({c})  hs == Held({c})
  <1>1. /\ Shaped /\ Balanced /\ phase = "running" /\ script \subseteq live /\ live \subseteq Objects /\ script \subseteq Objects
        /\ Store(engine, store) /\ engine \in {"boa", "jsc"} /\ engine # "mock"
        /\ c \notin script /\ c \notin Rooted /\ c \notin Stack /\ live' = live \ {c} /\ payload' = Emptied({c})
        /\ UNCHANGED <<engine, phase, script, frames, deferred, functions, outstanding, removals, batch,
                       host, classes, passed, dangling>>
    BY DEF IInv, Balanced, Shaped, Lively, Collect, Finalizes, async
  <1>2. /\ V \in SUBSET Fields /\ hs = [y \in V |-> payload[y]]
        /\ payload' = [y \in Fields |-> IF y \in V THEN NoHandle ELSE payload[y]]
    BY <1>1, HeldIs
  <1>3. payload \in [Fields -> PlainHandles(engine) \cup {NoHandle}]
    BY <1>1 DEF Shaped
  <1> HIDE DEF V, hs
  <1>4. /\ IsFiniteSet(DOMAIN hs) /\ payload' \in [Fields -> PlainHandles(engine) \cup {NoHandle}]
        /\ \A k \in Keys(engine) :
             /\ Number(engine, payload', k) = Number(engine, payload, k) - Number(engine, hs, k)
             /\ Number(engine, hs, k) \in Nat /\ Number(engine, payload, k) \in Nat
             /\ Number(engine, hs, k) <= Number(engine, payload, k)
        /\ \A s : PlacesIn(engine, s, payload) => PlacesIn(engine, s, payload')
    <2>1. ASSUME NEW g, g = payload'
          PROVE  /\ IsFiniteSet(DOMAIN hs) /\ g \in [Fields -> PlainHandles(engine) \cup {NoHandle}]
                 /\ \A k \in Keys(engine) :
                      /\ Number(engine, g, k) = Number(engine, payload, k) - Number(engine, hs, k)
                      /\ Number(engine, hs, k) \in Nat /\ Number(engine, payload, k) \in Nat
                      /\ Number(engine, hs, k) <= Number(engine, payload, k)
                 /\ \A s : PlacesIn(engine, s, payload) => PlacesIn(engine, s, g)
      <3>1. Shaped /\ V \in SUBSET Fields /\ hs = [y \in V |-> payload[y]]
            /\ g = [y \in Fields |-> IF y \in V THEN NoHandle ELSE payload[y]]
        BY <1>1, <1>2, <2>1
      <3> QED
        BY ONLY <3>1, PayloadCleared
    <2> QED
      BY <2>1
  <1>5. /\ Framed'
        /\ UNCHANGED <<deferred, batch>> => Batched'
        /\ UNCHANGED <<phase, deferred, batch, functions, outstanding, removals, dangling>> => Kept'
    <2>1. \A i \in DOMAIN frames : frames[i].stack \subseteq live' /\ c \notin frames[i].stack
      BY <1>1 DEF IInv, Framed, Stack
    <2>2. \A i \in DOMAIN frames : \A w \in Wrappers \cap frames[i].stack :
            payload[<<w, "attribute">>] # NoHandle => payload'[<<w, "attribute">>] = payload[<<w, "attribute">>]
      BY <1>2, <2>1 DEF V, FieldsOf, Fields
    <2> QED
      BY <1>1, <2>1, <2>2, QuietFrames
  <1>6. Framed' /\ Batched' /\ Kept'
    BY <1>1, <1>5
  <1>7. Roots /\ Roots' /\ engine' = engine
    BY <1>1 DEF Roots, Rooting
  <1>8. AllIn(engine, store, frames', payload', functions', host', classes')
    BY <1>1, <1>4, <1>7 DEF Balanced, AllValid, AllIn
  <1>9. \A k \in Keys(engine) : /\ Total(k)' = Total(k) - Number(engine, hs, k) /\ Total(k) \in Nat
                                /\ Number(engine, payload, k) <= Weight(engine, store, k) /\ Weight(engine, store, k) \in Nat
    <2> SUFFICES ASSUME NEW k \in Keys(engine)
                 PROVE  /\ Total(k)' = Total(k) - Number(engine, hs, k) /\ Total(k) \in Nat
                        /\ Number(engine, payload, k) <= Weight(engine, store, k) /\ Weight(engine, store, k) \in Nat
      OBVIOUS
    <2> DEFINE n == 0 - Number(engine, hs, k)
    <2>1. n \in Int /\ Number(engine, payload', k) = Number(engine, payload, k) + n
      BY <1>4
    <2> HIDE DEF n
    <2>2. Total(k)' = Total(k) + n /\ Total(k) \in Nat
      <3>1. UNCHANGED <<engine, frames, functions, host>>
        BY <1>1
      <3> QED
        BY <1>1, <2>1, <3>1, TotalPaid
    <2>3. Number(engine, payload, k) <= Weight(engine, store, k) /\ Weight(engine, store, k) \in Nat
      BY <1>1, <1>7, WeightCovers DEF Roots
    <2>4. Total(k) + n = Total(k) - Number(engine, hs, k)
      BY <1>4, <2>2 DEF n
    <2> QED
      BY <2>2, <2>3, <2>4
  <1>10. Rooted \cap Objects \subseteq live' /\ script' \subseteq live'
    BY <1>1 DEF Balanced, Lively
  <1>11. CASE engine = "boa"
    <2>1. store' = ReleaseAll(store, hs) /\ UNCHANGED finalizing
      BY <1>1, <1>11, AllRelease DEF Collect, Finalizes, hs
    <2>2. Shaped'
      BY <1>1, <1>4, <2>1 DEF Shaped
    <2>3. \A k \in Keys(engine) : Number(engine, hs, k) <= Weight(engine, store, k)
      BY <1>4, <1>9
    <2>4. /\ Moves(engine, store, store', {})
          /\ \A k \in Keys(engine) : Weight(engine, store', k) = Weight(engine, store, k) - Number(engine, hs, k)
      BY <1>1, <1>4, <2>1, <2>3, ReleaseFacts
    <2>5. \A k \in Keys(engine) : Weight(engine, store', k) + Total(k) = Weight(engine, store, k) + Total(k)'
      BY <1>4, <1>9, <2>4
    <2>6. Moves(engine, store, store, {}) /\ Before /\ Before' /\ UNCHANGED <<engine, classes, finalizing, passed>>
      BY <1>1, <2>1, StillGrown DEF Grown, Before
    <2>7. Trampoline \notin {} \cup {} /\ ({} \cup {}) \cap Objects \subseteq live'
      OBVIOUS
    <2>8. Balanced'
      BY <1>1, <1>8, <1>10, <2>2, <2>4, <2>5, <2>6, <2>7, UsualBefore
    <2> QED
      BY <1>1, <1>6, <2>2, <2>8 DEF IInv, MockOnly
  <1>12. CASE engine = "jsc"
    <2>1. store' = store /\ finalizing' = [k \in Cells |-> finalizing[k] + J!Times(hs, k)]
      BY <1>12 DEF Collect, Finalizes, hs
    <2>2. /\ finalizing' \in [Cells -> Nat] /\ \A k \in Cells : finalizing'[k] = finalizing[k] + Number("jsc", hs, k)
          /\ \A k \in Cells \ Objects : finalizing'[k] = finalizing[k]
      <3>1. \A x \in DOMAIN hs : hs[x] \in PlainHandles(engine) \cup {NoHandle}
        BY <1>2, <1>3
      <3> QED
        BY <1>1, <1>4, <1>12, <2>1, <3>1, FinalizersGet
    <2>3. Shaped'
      BY <1>1, <1>4, <2>2 DEF Shaped
    <2>4. ASSUME NEW k \in Keys(engine)
          PROVE  Weight(engine, store', k) + (Total(k) + Extra(k)) = Weight(engine, store, k) + (Total(k)' + Extra(k)')
      <3>1. k \in Cells /\ Rooting
        BY <1>7, <1>12, <2>4 DEF Keys, Roots
      <3>2. /\ store.deferred[k] \in Nat /\ finalizing[k] \in Nat /\ passed[k] \in Nat /\ TrampolineHeld(k) \in Nat
        BY <1>1, <1>12, <3>1, DeferredCovered
      <3>3. Extra(k) = TrampolineHeld(k) + store.deferred[k] + finalizing[k] + passed[k]
        BY <1>12 DEF Extra
      <3>4. Extra(k)' = TrampolineHeld(k) + store.deferred[k] + (finalizing[k] + Number(engine, hs, k)) + passed[k]
        BY <1>1, <1>12, <2>1, <2>2, <3>1 DEF Extra, TrampolineHeld
      <3>5. /\ Total(k)' = Total(k) - Number(engine, hs, k) /\ Total(k) \in Nat /\ Weight(engine, store, k) \in Nat
            /\ Number(engine, hs, k) \in Nat
        BY <1>4, <1>9
      <3>6. Weight(engine, store', k) = Weight(engine, store, k)
        BY <2>1
      <3> QED
        BY ONLY <3>2, <3>3, <3>4, <3>5, <3>6
    <2>5. Keeps(engine, store, store') /\ Adds(engine, store, store', {}) /\ Store(engine, store')
      BY <1>1, <2>1, StillGrown DEF Grown, Moves
    <2>6. \A k : Exact(k)' => Exact(k)
      BY <1>1, <2>1 DEF Exact
    <2>7. AllValid' /\ Weighed'
      BY <1>1, <1>7, <1>8, <2>3, <2>4, <2>5, <2>6, Settles
    <2>8. BoaOnly' /\ Lively'
      <3>1. /\ Trampoline \notin {} /\ {} \cap Objects \subseteq live'
            /\ engine = "jsc" => \A x \in Objects : store'.methods[x] = store.methods[x]
        BY <2>1
      <3> QED
        BY <1>1, <1>7, <1>10, <2>5, <3>1, LiveRoots
    <2>9. JscOnly'
      BY <1>1, <1>12, <2>1, <2>2 DEF Balanced, JscOnly, Rooting
    <2> QED
      BY <1>1, <1>6, <2>3, <2>5, <2>7, <2>8, <2>9 DEF IInv, Balanced, MockOnly
  <1> QED
    BY <1>1, <1>11, <1>12

(***************************************************************************)
(* JavaScriptCore's finalizer thread.                                      *)
(***************************************************************************)
LEMMA DeferChecksStep ==
  ASSUME IInv, NEW c \in Cells, DeferChecks(c)
  PROVE  IInv'
  <1>1. /\ Shaped /\ Balanced /\ engine = "jsc" /\ finalizing[c] > 0 /\ script \subseteq live /\ JscStore(store)
        /\ finalizing \in [Cells -> Nat] /\ passed \in [Cells -> Nat]
        /\ finalizing' = [finalizing EXCEPT ![c] = @ - 1]
        /\ passed' = IF store.tearing THEN passed ELSE [passed EXCEPT ![c] = @ + 1]
        /\ UNCHANGED <<engine, phase, script, live, store, frames, payload, deferred, functions, outstanding, removals, batch,
                       host, classes, dangling>>
    BY DEF IInv, Balanced, Shaped, Lively, Store, DeferChecks, heap, async
  <1>2. /\ finalizing' \in [Cells -> Nat] /\ passed' \in [Cells -> Nat] /\ finalizing'[c] = finalizing[c] - 1
        /\ passed'[c] = IF store.tearing THEN passed[c] ELSE passed[c] + 1
        /\ \A k \in Cells : k # c => finalizing'[k] = finalizing[k] /\ passed'[k] = passed[k]
        /\ finalizing[c] \in Nat /\ passed[c] \in Nat
    BY <1>1
  <1>3. Shaped'
    BY <1>1, <1>2 DEF Shaped
  <1>4. Framed'
    BY <1>1, QuietFrames DEF IInv, Framed
  <1>5. Batched' /\ Kept'
    BY <1>1, QuietFrames DEF IInv, Framed
  <1>6. c \in Objects
    <2>1. JscOnly /\ engine = "jsc"
      BY <1>1 DEF Balanced
    <2>2. \A k \in Cells \ Objects : finalizing[k] = 0
      BY ONLY <2>1 DEF JscOnly
    <2> QED
      BY <1>1, <2>2
  <1>7. AllValid'
    <2>1. AllIn("jsc", store', frames', payload', functions', host', classes')
      BY <1>1, Widened, AnyIn DEF Shaped
    <2> QED
      BY <1>1, <2>1 DEF AllValid
  <1>8. Weighed'
    <2> SUFFICES ASSUME Rooting, NEW k \in Cells
                 PROVE  /\ Weight("jsc", store, k) >= Total(k)' + Extra(k)'
                        /\ Exact(k)' => Weight("jsc", store, k) = Total(k)' + Extra(k)'
      BY <1>1 DEF Weighed, Roots, Rooting, Keys
    <2>1. /\ Weight("jsc", store, k) >= Total(k) + store.deferred[k] + finalizing[k] + passed[k] + TrampolineHeld(k)
          /\ Weight("jsc", store, k) \in Nat /\ Total(k) \in Nat
          /\ store.deferred[k] \in Nat /\ finalizing[k] \in Nat /\ passed[k] \in Nat /\ TrampolineHeld(k) \in Nat
      BY <1>1, DeferredCovered
    <2>2. Exact(k) => Weight("jsc", store, k) = Total(k) + (TrampolineHeld(k) + store.deferred[k] + finalizing[k] + passed[k])
      BY <1>1 DEF Balanced, Weighed, Roots, Keys, Extra
    <2>3. /\ Total(k)' = Total(k) /\ (Exact(k)' <=> Exact(k))
          /\ Extra(k)' = TrampolineHeld(k) + store.deferred[k] + finalizing'[k] + passed'[k]
      BY <1>1 DEF Total, Exact, Extra, TrampolineHeld
    <2>4. CASE k # c
      <3>1. finalizing'[k] = finalizing[k] /\ passed'[k] = passed[k]
        BY <1>2, <2>4
      <3> QED
        BY <2>1, <2>2, <2>3, <3>1
    <2>5. CASE k = c /\ ~store.tearing
      <3>1. finalizing'[k] = finalizing[k] - 1 /\ passed'[k] = passed[k] + 1
        BY <1>2, <2>5
      <3>2. Extra(k)' = TrampolineHeld(k) + store.deferred[k] + finalizing[k] + passed[k]
        BY ONLY <2>1, <2>3, <3>1
      <3> QED
        BY <2>1, <2>2, <2>3, <3>2
    <2>6. CASE k = c /\ store.tearing
      <3>1. finalizing'[k] = finalizing[k] - 1 /\ passed'[k] = passed[k]
        BY <1>2, <2>6
      <3>2. ~Exact(k)'
        BY <1>1, <1>6, <2>6 DEF Exact
      <3>3. Weight("jsc", store, k) >= Total(k)' + Extra(k)'
        BY ONLY <2>1, <2>3, <3>1
      <3> QED
        BY <3>2, <3>3
    <2> QED
      BY <2>4, <2>5, <2>6
  <1>9. BoaOnly' /\ Lively'
    BY <1>1 DEF Balanced, BoaOnly, Lively, Rooted
  <1>10. JscOnly'
    <2>1. \A k \in Cells \ Objects : finalizing'[k] = finalizing[k] /\ passed'[k] = passed[k]
      BY <1>2, <1>6
    <2> QED
      BY <1>1, <2>1 DEF Balanced, JscOnly, Rooting
  <1>11. Store(engine, store)'
    BY <1>1 DEF Balanced
  <1> QED
    BY <1>1, <1>3, <1>4, <1>5, <1>7, <1>8, <1>9, <1>10, <1>11 DEF IInv, Balanced, MockOnly

LEMMA DeferEnqueuesStep ==
  ASSUME IInv, NEW c \in Cells, DeferEnqueues(c)
  PROVE  IInv'
  <1>1. /\ Shaped /\ Balanced /\ engine = "jsc" /\ passed[c] > 0 /\ script \subseteq live /\ JscStore(store)
        /\ passed \in [Cells -> Nat] /\ passed' = [passed EXCEPT ![c] = @ - 1] /\ store' = J!DeferUnprotect(store, c)
        /\ UNCHANGED <<engine, phase, script, live, frames, payload, deferred, functions, outstanding, removals, batch,
                       host, classes, finalizing, dangling>>
    BY DEF IInv, Balanced, Shaped, Lively, Store, DeferEnqueues, heap, async
  <1>2. /\ passed' \in [Cells -> Nat] /\ passed'[c] = passed[c] - 1 /\ passed[c] \in Nat
        /\ \A k \in Cells : k # c => passed'[k] = passed[k]
    BY <1>1
  <1>3. /\ JscStore(store') /\ store'.protected = store.protected /\ store'.methods = store.methods
        /\ store'.tearing = store.tearing /\ store'.deferred[c] = store.deferred[c] + 1
        /\ \A k \in Cells : k # c => store'.deferred[k] = store.deferred[k]
    <2> DEFINE D == [store.deferred EXCEPT ![c] = store.deferred[c] + 1]
    <2>1. store' = [store EXCEPT !.deferred = D]
      BY <1>1 DEF J!DeferUnprotect, JscStore
    <2>2. D \in [Cells -> Nat] /\ D[c] = store.deferred[c] + 1 /\ \A k \in Cells : k # c => D[k] = store.deferred[k]
      BY <1>1 DEF JscStore
    <2> HIDE DEF D
    <2> QED
      BY <1>1, <2>1, <2>2 DEF JscStore
  <1>4. Shaped'
    BY <1>1, <1>2 DEF Shaped
  <1>5. Framed'
    BY <1>1, QuietFrames DEF IInv, Framed
  <1>6. Batched' /\ Kept'
    BY <1>1, QuietFrames DEF IInv, Framed
  <1>7. c \in Objects
    <2>1. JscOnly /\ engine = "jsc"
      BY <1>1 DEF Balanced
    <2>2. \A k \in Cells \ Objects : passed[k] = 0
      BY ONLY <2>1 DEF JscOnly
    <2> QED
      BY <1>1, <2>2
  <1>8. AllValid'
    <2>1. AllIn("jsc", store', frames', payload', functions', host', classes')
      BY <1>1, Widened, AnyIn DEF Shaped
    <2> QED
      BY <1>1, <2>1 DEF AllValid
  <1>9. Weighed'
    <2> SUFFICES ASSUME Rooting, NEW k \in Cells
                 PROVE  /\ Weight("jsc", store', k) >= Total(k)' + Extra(k)'
                        /\ Exact(k)' => Weight("jsc", store', k) = Total(k)' + Extra(k)'
      BY <1>1 DEF Weighed, Roots, Rooting, Keys
    <2>1. /\ Weight("jsc", store, k) >= Total(k) + store.deferred[k] + finalizing[k] + passed[k] + TrampolineHeld(k)
          /\ Weight("jsc", store, k) \in Nat /\ Total(k) \in Nat
          /\ store.deferred[k] \in Nat /\ finalizing[k] \in Nat /\ passed[k] \in Nat /\ TrampolineHeld(k) \in Nat
      BY <1>1, DeferredCovered
    <2>2. Exact(k) => Weight("jsc", store, k) = Total(k) + (TrampolineHeld(k) + store.deferred[k] + finalizing[k] + passed[k])
      BY <1>1 DEF Balanced, Weighed, Roots, Keys, Extra
    <2>3. /\ Total(k)' = Total(k) /\ (Exact(k)' <=> Exact(k)) /\ Weight("jsc", store', k) = Weight("jsc", store, k)
          /\ Extra(k)' = TrampolineHeld(k) + store'.deferred[k] + finalizing[k] + passed'[k]
      BY <1>1, <1>3 DEF Total, Exact, Extra, TrampolineHeld, Weight
    <2>4. Extra(k)' = TrampolineHeld(k) + store.deferred[k] + finalizing[k] + passed[k]
      <3>1. \/ store'.deferred[k] = store.deferred[k] /\ passed'[k] = passed[k]
            \/ store'.deferred[k] = store.deferred[k] + 1 /\ passed'[k] = passed[k] - 1
        BY <1>2, <1>3
      <3> QED
        BY ONLY <2>1, <2>3, <3>1
    <2> QED
      BY <2>1, <2>2, <2>3, <2>4
  <1>10. BoaOnly' /\ Lively'
    BY <1>1, <1>3 DEF Balanced, BoaOnly, Lively, Rooted, J!Rooted
  <1>11. JscOnly'
    <2>1. \A k \in Cells \ Objects : store'.deferred[k] = store.deferred[k] /\ passed'[k] = passed[k]
      BY <1>2, <1>3, <1>7
    <2>2. /\ Rooting => /\ \A k \in Cells : store.methods[k] = IF k = Prototype THEN Len(classes) ELSE 0
                        /\ \A i \in DOMAIN classes : classes[i].of = Prototype
                        /\ store.tearing <=> phase \in {"enqueued", "mopping"}
          /\ ~Rooting => \A k \in Cells : store.methods[k] = 0 /\ store.protected[k] = 0
          /\ \A k \in Cells \ Objects : store.deferred[k] = 0 /\ finalizing[k] = 0 /\ passed[k] = 0
      BY <1>1 DEF Balanced, JscOnly
    <2>3. /\ Rooting' = Rooting /\ store'.methods = store.methods /\ store'.protected = store.protected
          /\ store'.tearing = store.tearing /\ classes' = classes /\ phase' = phase /\ finalizing' = finalizing
      BY <1>1, <1>3 DEF Rooting
    <2>4. /\ Rooting' => /\ \A k \in Cells : store'.methods[k] = IF k = Prototype THEN Len(classes') ELSE 0
                         /\ \A i \in DOMAIN classes' : classes'[i].of = Prototype
                         /\ store'.tearing <=> phase' \in {"enqueued", "mopping"}
          /\ ~Rooting' => \A k \in Cells : store'.methods[k] = 0 /\ store'.protected[k] = 0
          /\ \A k \in Cells \ Objects : store'.deferred[k] = 0 /\ finalizing'[k] = 0 /\ passed'[k] = 0
      BY ONLY <2>1, <2>2, <2>3
    <2> QED
      BY ONLY <2>4 DEF JscOnly
  <1>12. Store(engine, store)'
    BY <1>1, <1>3 DEF Store
  <1> QED
    BY <1>1, <1>4, <1>5, <1>6, <1>8, <1>9, <1>10, <1>11, <1>12 DEF IInv, Balanced, MockOnly

(***************************************************************************)
(* The runtime's drop.                                                     *)
(***************************************************************************)
LEMMA BeginDropStep ==
  ASSUME IInv, BeginDrop
  PROVE  IInv'
  <1>1. /\ Shaped /\ Balanced /\ phase = "running" /\ script \subseteq live /\ frames = <<>> /\ engine \in {"boa", "jsc", "mock"}
        /\ phase' = IF engine = "jsc" THEN "outstanding" ELSE IF engine = "boa" THEN "pending" ELSE "payloads"
        /\ UNCHANGED <<engine, script, live, store, frames, payload, deferred, functions, outstanding, removals, batch,
                       host, classes, finalizing, passed, dangling>>
    BY DEF IInv, Balanced, Shaped, Lively, BeginDrop, To, async, rest
  <1>2. Shaped'
    BY <1>1 DEF Shaped
  <1>3. Framed'
    <2>1. phase' \in PhasesOf(engine)
      BY <1>1 DEF PhasesOf
    <2> QED
      BY <1>1, <2>1 DEF IInv, Framed
  <1>4. Batched'
    BY <1>1 DEF IInv, Batched
  <1>5. Kept'
    BY <1>1 DEF IInv, Kept
  <1>6. Balanced'
    <2>1. Before /\ Before' /\ script' \subseteq live'
      BY <1>1 DEF Before
    <2>2. engine # "mock" => Rooted \cap Objects \subseteq live'
      BY <1>1 DEF Balanced, Lively
    <2> QED
      BY <1>1, <1>2, <2>1, <2>2, RootsStay
  <1> QED
    BY <1>1, <1>2, <1>3, <1>4, <1>5, <1>6 DEF IInv, MockOnly

(* The drop gives the functions of some promises back.                     *)
LEMMA PromisesReleased ==
  ASSUME IInv, frames = <<>>, UNCHANGED <<engine, frames, batch>>, NEW R \in SUBSET Promises, Released(R),
         \A p \in R : deferred[p] \in {"request", "queue"}
  PROVE  /\ Batched' /\ deferred' \in [Promises -> Places] /\ functions' \in [Halves -> Maybe(engine)]
         /\ HalvesOf(R) \in SUBSET Halves
         /\ \A p \in Promises : deferred'[p] = IF p \in R THEN "released" ELSE deferred[p]
         /\ \A x \in Halves : deferred'[x[1]] \in {"none", "settled", "released"} => functions'[x] = NoHandle
  <1>1. /\ deferred \in [Promises -> Places] /\ functions \in [Halves -> Maybe(engine)]
        /\ functions' = WithoutFunctions(HalvesOf(R))
        /\ deferred' = [p \in Promises |-> IF p \in R THEN "released" ELSE deferred[p]]
    BY DEF IInv, Shaped, Released
  <1>2. deferred' \in [Promises -> Places]
    BY <1>1 DEF Places
  <1>3. functions' \in [Halves -> Maybe(engine)]
    BY <1>1 DEF WithoutFunctions, Maybe
  <1>4. HalvesOf(R) \in SUBSET Halves
    BY DEF HalvesOf, Halves
  <1>5. \A p \in Promises : deferred'[p] = IF p \in R THEN "released" ELSE deferred[p]
    BY <1>1
  <1>6. ASSUME NEW x \in Halves, deferred'[x[1]] \in {"none", "settled", "released"}
        PROVE  functions'[x] = NoHandle
    <2>1. x[1] \in Promises /\ x[2] \in Resolvers /\ x = <<x[1], x[2]>>
      BY DEF Halves
    <2>2. functions'[x] = IF x \in HalvesOf(R) THEN NoHandle ELSE functions[x]
      BY <1>1 DEF WithoutFunctions
    <2>3. CASE x[1] \in R
      BY <2>1, <2>2, <2>3 DEF HalvesOf
    <2>4. CASE x[1] \notin R
      <3>1. deferred[x[1]] \in {"none", "settled", "released"}
        BY <1>5, <1>6, <2>1, <2>4
      <3> QED
        BY <2>2, <3>1 DEF IInv, Kept
    <2> QED
      BY <2>3, <2>4
  <1>7. Batched'
    <2>1. \A p \in Promises : deferred'[p] = "batch" <=> deferred[p] = "batch"
      BY <1>5
    <2> QED
      BY <2>1 DEF IInv, Batched
  <1> QED
    BY <1>2, <1>3, <1>4, <1>5, <1>6, <1>7

LEMMA ReleaseOutstandingStep ==
  ASSUME IInv, ReleaseOutstanding
  PROVE  IInv'
  <1> DEFINE registered == outstanding \ removals
             R == {p \in registered : deferred[p] = "request"}
  <1>1. /\ Shaped /\ Balanced /\ phase = "outstanding" /\ script \subseteq live /\ frames = <<>>
        /\ phase' = IF engine = "jsc" THEN "pending" ELSE "clear"
        /\ dangling' = (\E p \in registered : deferred[p] # "request")
        /\ store' = ReleaseAll(store, FunctionsOf(HalvesOf(R))) /\ Released(R)
        /\ functions' = WithoutFunctions(HalvesOf(R)) /\ outstanding' = {} /\ removals' = {}
        /\ UNCHANGED <<engine, script, live, frames, payload, batch, host, classes, finalizing, passed>>
    BY DEF IInv, Balanced, Lively, Framed, ReleaseOutstanding, ReleaseDeferreds, Released, To
  <1>2. engine \in {"boa", "jsc"} /\ engine # "mock"
    BY <1>1 DEF IInv, Framed, PhasesOf, Shaped
  <1>3. registered \in SUBSET Promises /\ \A p \in Promises : deferred[p] = "request" <=> p \in registered
    BY <1>1 DEF IInv, Kept, Shaped
  <1>4. R \in SUBSET Promises /\ (\A p \in R : deferred[p] \in {"request", "queue"}) /\ R = registered /\ dangling' = FALSE
    BY <1>1, <1>3
  <1> HIDE DEF registered, R
  <1>5. /\ Batched' /\ deferred' \in [Promises -> Places] /\ functions' \in [Halves -> Maybe(engine)]
        /\ HalvesOf(R) \in SUBSET Halves
        /\ \A p \in Promises : deferred'[p] = IF p \in R THEN "released" ELSE deferred[p]
        /\ \A x \in Halves : deferred'[x[1]] \in {"none", "settled", "released"} => functions'[x] = NoHandle
    BY <1>1, <1>4, PromisesReleased
  <1>6. Shaped'
    <2>1. outstanding' \in SUBSET Promises /\ removals' \in SUBSET Promises
      BY <1>1
    <2> QED
      BY <1>1, <1>5, <2>1 DEF Shaped
  <1>7. Framed'
    <2>1. phase' \in PhasesOf(engine)
      BY <1>1, <1>2 DEF PhasesOf
    <2> QED
      BY <1>1, <2>1 DEF IInv, Framed
  <1>8. Kept'
    <2>1. \A p \in Promises : deferred'[p] # "request" /\ (deferred'[p] = "queue" => deferred[p] = "queue")
      BY <1>3, <1>4, <1>5
    <2>2. \A p \in Promises : deferred'[p] = "request" <=> p \in outstanding' \ removals'
      BY <1>1, <2>1
    <2>3. engine = "boa" => \A p \in Promises : deferred[p] # "queue"
      BY <1>1 DEF IInv, Kept
    <2> QED
      BY <1>1, <1>2, <1>4, <1>5, <2>1, <2>2, <2>3 DEF Kept
  <1>9. Balanced'
    <2>1. Before /\ Before' /\ script' \subseteq live'
      BY <1>1, <1>2 DEF Before
    <2>2. \A k : Owned(engine, frames', k) = Owned(engine, frames, k)
      BY <1>1
    <2>3. \A s : FramesIn(engine, s, frames) => FramesIn(engine, s, frames')
      BY <1>1
    <2> QED
      BY <1>1, <1>2, <1>5, <1>6, <2>1, <2>2, <2>3, FunctionsReleased
  <1> QED
    BY <1>1, <1>2, <1>5, <1>6, <1>7, <1>8, <1>9 DEF IInv, MockOnly

LEMMA ReleaseTrampolineStep ==
  ASSUME IInv, ReleaseTrampoline
  PROVE  IInv'
  <1> DEFINE hs == <<J!Pointer(Trampoline)>>
  <1>1. /\ Shaped /\ Balanced /\ phase = "trampoline" /\ script \subseteq live /\ frames = <<>> /\ engine = "jsc"
        /\ engine \in {"boa", "jsc"} /\ Store(engine, store) /\ Trampoline \in Cells /\ Trampoline \notin Objects
        /\ phase' = "tearing" /\ store' = ReleaseAll(store, hs)
        /\ UNCHANGED <<engine, script, live, frames, payload, deferred, functions, outstanding, removals, batch,
                       host, classes, finalizing, passed, dangling>>
    <2>1. engine = "jsc"
      BY DEF IInv, Shaped, Framed, PhasesOf, ReleaseTrampoline
    <2>2. Trampoline \in Cells /\ Trampoline \notin Objects
      BY EnginesAssumption DEF Cells
    <2> QED
      BY <2>1, <2>2 DEF IInv, Balanced, Shaped, Lively, Framed, ReleaseTrampoline, To, ReleaseAll, async, rest
  <1>2. /\ Roots /\ Roots' /\ engine' = engine /\ Rooting
    BY <1>1 DEF Roots, Rooting
  <1>3. DOMAIN hs = {1} /\ hs[1] = J!Pointer(Trampoline) /\ IsFiniteSet(DOMAIN hs)
    BY FS_Singleton
  <1>4. \A k \in Cells : Number(engine, hs, k) = IF k = Trampoline THEN 1 ELSE 0
    <2>1. \A k : Number(engine, hs, k) = One(engine, hs[1], k)
      BY <1>3, NumberOfSingle
    <2> QED
      BY <1>1, <1>3, <2>1 DEF One, Key, J!Pointer
  <1> HIDE DEF hs
  <1>5. ASSUME NEW k \in Cells
        PROVE  /\ Weight(engine, store, k) >= Total(k) + store.deferred[k] + finalizing[k] + passed[k] + TrampolineHeld(k)
               /\ Weight(engine, store, k) \in Nat /\ Total(k) \in Nat /\ store.deferred[k] \in Nat
               /\ finalizing[k] \in Nat /\ passed[k] \in Nat /\ TrampolineHeld(k) = Number(engine, hs, k)
               /\ TrampolineHeld(k)' = 0 /\ TrampolineHeld(k) \in Nat
    <2>1. TrampolineHeld(k) = Number(engine, hs, k) /\ TrampolineHeld(k)' = 0
      BY <1>1, <1>4 DEF TrampolineHeld
    <2>2. /\ Weight("jsc", store, k) >= Total(k) + store.deferred[k] + finalizing[k] + passed[k] + TrampolineHeld(k)
          /\ Weight("jsc", store, k) \in Nat /\ Total(k) \in Nat /\ store.deferred[k] \in Nat
          /\ finalizing[k] \in Nat /\ passed[k] \in Nat /\ TrampolineHeld(k) \in Nat
      BY <1>1, <1>2, DeferredCovered
    <2> QED
      BY <1>1, <2>1, <2>2
  <1>6. \A k \in Keys(engine) : Number(engine, hs, k) <= Weight(engine, store, k)
    <2> SUFFICES ASSUME NEW k \in Cells
                 PROVE  Number(engine, hs, k) <= Weight(engine, store, k)
      BY <1>1 DEF Keys
    <2> QED
      BY ONLY <1>5
  <1>7. /\ Moves(engine, store, store', {})
        /\ \A k \in Keys(engine) : Weight(engine, store', k) = Weight(engine, store, k) - Number(engine, hs, k)
    BY <1>1, <1>3, <1>6, ReleaseFacts
  <1>8. /\ Store(engine, store') /\ Keeps(engine, store, store') /\ Adds(engine, store, store', {})
        /\ store'.methods = store.methods /\ store'.deferred = store.deferred /\ store'.tearing = store.tearing
    BY <1>1, <1>7 DEF Moves, OtherwiseSame
  <1>9. Shaped'
    BY <1>1 DEF Shaped
  <1>10. Framed'
    <2>1. phase' \in PhasesOf(engine)
      BY <1>1 DEF PhasesOf
    <2> QED
      BY <1>1, <2>1 DEF IInv, Framed
  <1>11. Batched'
    BY <1>1 DEF IInv, Batched
  <1>12. Kept'
    BY <1>1 DEF IInv, Kept
  <1>13. AllValid' /\ Weighed'
    <2>1. AllIn(engine, store, frames', payload', functions', host', classes')
      BY <1>1, <1>2 DEF Balanced, AllValid
    <2>2. ASSUME NEW k \in Keys(engine)
          PROVE  Weight(engine, store', k) + (Total(k) + Extra(k)) = Weight(engine, store, k) + (Total(k)' + Extra(k)')
      <3>1. k \in Cells
        BY <1>1 DEF Keys
      <3>2. Weight(engine, store', k) = Weight(engine, store, k) - Number(engine, hs, k)
        BY <1>7
      <3>3. /\ Extra(k) = TrampolineHeld(k) + store.deferred[k] + finalizing[k] + passed[k]
            /\ Extra(k)' = TrampolineHeld(k)' + store.deferred[k] + finalizing[k] + passed[k]
            /\ Total(k)' = Total(k)
        BY <1>1, <1>8 DEF Extra, Total
      <3> QED
        BY ONLY <1>5, <3>1, <3>2, <3>3
    <2>3. \A k \in Keys(engine) : Exact(k)' => Exact(k)
      BY <1>1, <1>8 DEF Exact
    <2> QED
      BY <1>1, <1>2, <1>8, <1>9, <2>1, <2>2, <2>3, Settles
  <1>14. BoaOnly' /\ Lively'
    <2>1. /\ Trampoline \notin {} /\ {} \cap Objects \subseteq live' /\ Rooted \cap Objects \subseteq live'
          /\ engine = "jsc" => \A x \in Objects : store'.methods[x] = store.methods[x]
      BY <1>1, <1>8 DEF Balanced, Lively
    <2> QED
      BY <1>1, <1>2, <1>8, <2>1, LiveRoots
  <1>15. JscOnly'
    BY <1>1, <1>2, <1>8 DEF Balanced, JscOnly, Roots
  <1> QED
    BY <1>1, <1>8, <1>9, <1>10, <1>11, <1>12, <1>13, <1>14, <1>15 DEF IInv, Balanced, MockOnly

(* Two releases, one after the other.                                      *)
LEMMA ReleasedTwice ==
  ASSUME engine \in {"boa", "jsc"}, NEW s, NEW t, NEW u, Moves(engine, s, t, {}), Moves(engine, t, u, {}),
         \A k \in Keys(engine) : Weight(engine, u, k) <= Weight(engine, t, k)
  PROVE  Moves(engine, s, u, {})
  <1>1. Store(engine, t) /\ Store(engine, u) /\ Keeps(engine, s, t) /\ Keeps(engine, t, u)
    BY DEF Moves
  <1>2. Adds(engine, s, u, {}) /\ OtherwiseSame(engine, s, u)
    <2>1. Adds(engine, s, u, {} \cup {}) /\ OtherwiseSame(engine, s, u)
      BY AddsTwice
    <2>2. {} \cup {} = {}
      OBVIOUS
    <2> QED
      BY <2>1, <2>2
  <1>3. ASSUME NEW h, Valid(engine, s, h), Weight(engine, u, Key(engine, h)) > 0
        PROVE  Valid(engine, u, h)
    <2>1. h \in Handles(engine)
      BY <1>3 DEF Valid
    <2>2. Key(engine, h) \in Keys(engine)
      BY <2>1, KeyOfHandle
    <2>3. Weight(engine, u, Key(engine, h)) \in Nat /\ Weight(engine, t, Key(engine, h)) \in Nat
      BY <1>1, <2>2, WeightIsNat
    <2>4. Weight(engine, t, Key(engine, h)) > 0
      BY <1>3, <2>2, <2>3
    <2>5. Valid(engine, t, h)
      BY <1>1, <1>3, <2>4 DEF Keeps
    <2> QED
      BY <1>1, <1>3, <2>5 DEF Keeps
  <1>4. Keeps(engine, s, u)
    BY <1>3 DEF Keeps
  <1> QED
    BY <1>1, <1>2, <1>4 DEF Moves

LEMMA ReleasePendingStep ==
  ASSUME IInv, ReleasePending
  PROVE  IInv'
  <1> DEFINE U == HalvesOf(Queued)  hs == [x \in Handlers |-> payload[x]]  t == ReleaseAll(store, FunctionsOf(U))
             g == [x \in Fields |-> IF x \in Handlers THEN NoHandle ELSE payload[x]]
  <1>1. /\ Shaped /\ Balanced /\ phase = "pending" /\ script \subseteq live /\ frames = <<>>
        /\ phase' = IF engine = "jsc" THEN "trampoline" ELSE "outstanding"
        /\ Released(Queued) /\ functions' = WithoutFunctions(U) /\ payload' = g /\ store' = ReleaseAll(t, hs)
        /\ UNCHANGED <<engine, script, live, frames, outstanding, removals, batch, host, classes, finalizing, passed, dangling>>
    BY DEF IInv, Balanced, Lively, Framed, ReleasePending, Released, To, rest
  <1>2. engine \in {"boa", "jsc"} /\ engine # "mock" /\ Rooting /\ Rooting' /\ Roots
    BY <1>1 DEF IInv, Framed, PhasesOf, Shaped, Rooting, Roots
  <1>3. Queued \in SUBSET Promises /\ \A p \in Queued : deferred[p] \in {"request", "queue"}
    BY DEF Queued
  <1>4. /\ Batched' /\ deferred' \in [Promises -> Places] /\ functions' \in [Halves -> Maybe(engine)]
        /\ U \in SUBSET Halves
        /\ \A p \in Promises : deferred'[p] = IF p \in Queued THEN "released" ELSE deferred[p]
        /\ \A x \in Halves : deferred'[x[1]] \in {"none", "settled", "released"} => functions'[x] = NoHandle
    BY <1>1, <1>3, PromisesReleased
  <1>5. /\ IsFiniteSet(DOMAIN hs) /\ g \in [Fields -> PlainHandles(engine) \cup {NoHandle}]
        /\ \A k \in Keys(engine) :
             /\ Number(engine, g, k) = Number(engine, payload, k) - Number(engine, hs, k)
             /\ Number(engine, hs, k) \in Nat /\ Number(engine, payload, k) \in Nat
             /\ Number(engine, hs, k) <= Number(engine, payload, k)
        /\ \A s : PlacesIn(engine, s, payload) => PlacesIn(engine, s, g)
    <2>1. Shaped /\ Handlers \in SUBSET Fields
      BY <1>1 DEF Handlers
    <2> QED
      BY <2>1, PayloadCleared
  <1>6. /\ Moves(engine, store, t, {})
        /\ \A k \in Keys(engine) :
             /\ Weight(engine, t, k) = Weight(engine, store, k) - Number(engine, FunctionsOf(U), k)
             /\ Number(engine, WithoutFunctions(U), k) = Number(engine, functions, k) - Number(engine, FunctionsOf(U), k)
             /\ Number(engine, FunctionsOf(U), k) \in Nat /\ Number(engine, functions, k) \in Nat
             /\ Number(engine, FunctionsOf(U), k) <= Number(engine, functions, k)
    BY <1>1, <1>2, <1>4, FunctionsCleared
  <1> HIDE DEF U, hs, t, g
  <1>7. ASSUME NEW k \in Keys(engine)
        PROVE  /\ Number(engine, hs, k) <= Weight(engine, t, k) /\ Weight(engine, t, k) \in Nat
               /\ Weight(engine, store, k) \in Nat
    <2>1. /\ Weight(engine, store, k) \in Nat
          /\ Number(engine, payload, k) + Number(engine, functions, k) <= Weight(engine, store, k)
      BY <1>1, <1>2, WeightCovers
    <2>2. /\ Number(engine, hs, k) \in Nat /\ Number(engine, payload, k) \in Nat
          /\ Number(engine, hs, k) <= Number(engine, payload, k)
          /\ Weight(engine, t, k) = Weight(engine, store, k) - Number(engine, FunctionsOf(U), k)
          /\ Number(engine, FunctionsOf(U), k) \in Nat /\ Number(engine, functions, k) \in Nat
          /\ Number(engine, FunctionsOf(U), k) <= Number(engine, functions, k)
      BY <1>5, <1>6
    <2> QED
      BY ONLY <2>1, <2>2
  <1>8. /\ Moves(engine, t, store', {})
        /\ \A k \in Keys(engine) : Weight(engine, store', k) = Weight(engine, t, k) - Number(engine, hs, k)
    <2>1. Store(engine, t)
      BY <1>6 DEF Moves
    <2> QED
      BY <1>1, <1>2, <1>5, <1>7, <2>1, ReleaseFacts
  <1>9. Moves(engine, store, store', {}) /\ Moves(engine, store, store, {})
    <2>1. \A k \in Keys(engine) : Weight(engine, store', k) <= Weight(engine, t, k)
      <3> SUFFICES ASSUME NEW k \in Keys(engine)
                   PROVE  Weight(engine, store', k) <= Weight(engine, t, k)
        OBVIOUS
      <3>1. /\ Weight(engine, store', k) = Weight(engine, t, k) - Number(engine, hs, k)
            /\ Weight(engine, t, k) \in Nat /\ Number(engine, hs, k) \in Nat
        BY <1>5, <1>7, <1>8
      <3> QED
        BY ONLY <3>1
    <2>2. Moves(engine, store, store, {})
      BY <1>1, StillGrown DEF Balanced, Grown
    <2> QED
      BY <1>2, <1>6, <1>8, <2>1, <2>2, ReleasedTwice
  <1>10. Shaped'
    BY <1>1, <1>4, <1>5 DEF Shaped
  <1>11. Framed'
    <2>1. phase' \in PhasesOf(engine)
      BY <1>1, <1>2 DEF PhasesOf
    <2> QED
      BY <1>1, <2>1 DEF IInv, Framed
  <1>12. Kept'
    <2>1. \A p \in Promises : deferred'[p] # "queue" /\ (deferred'[p] = "request" <=> deferred[p] = "request")
      BY <1>4 DEF Queued
    <2>2. \A p \in Promises : deferred'[p] = "request" <=> p \in outstanding' \ removals'
      BY <1>1, <2>1 DEF IInv, Kept
    <2>3. engine = "jsc" => \A p \in Promises : deferred[p] # "request"
      BY <1>1 DEF IInv, Kept
    <2>4. dangling' = FALSE
      BY <1>1 DEF IInv, Kept
    <2> QED
      BY <1>1, <1>2, <1>4, <2>1, <2>2, <2>3, <2>4 DEF Kept
  <1>13. Balanced'
    <2>1. Before /\ Before' /\ script' \subseteq live' /\ UNCHANGED <<engine, classes, finalizing, passed>>
      BY <1>1, <1>2 DEF Before
    <2>2. AllIn(engine, store, frames', payload', functions', host', classes')
      <3>1. AllIn(engine, store, frames, payload, functions, host, classes)
        BY <1>1, <1>2 DEF Balanced, AllValid
      <3>2. PlacesIn(engine, store, functions')
        BY <1>1, <3>1, ShapedPlaces DEF AllIn, PlacesIn, WithoutFunctions
      <3> QED
        BY <1>1, <1>5, <3>1, <3>2 DEF AllIn
    <2>3. ASSUME NEW k \in Keys(engine)
          PROVE  Weight(engine, store', k) + Total(k) = Weight(engine, store, k) + Total(k)'
      <3>1. /\ Number(engine, payload', k) = Number(engine, payload, k) - Number(engine, hs, k)
            /\ Number(engine, functions', k) = Number(engine, functions, k) - Number(engine, FunctionsOf(U), k)
        BY <1>1, <1>5, <1>6
      <3>2. /\ Total(k) = Owned(engine, frames, k) + Number(engine, payload, k) + Number(engine, functions, k)
                            + Number(engine, host, k)
            /\ Total(k)' = Owned(engine, frames, k) + Number(engine, payload', k) + Number(engine, functions', k)
                             + Number(engine, host, k)
        BY <1>1 DEF Total
      <3>3. Owned(engine, frames, k) \in Nat /\ Number(engine, host, k) \in Nat
        BY <1>1, ShapedPlaces, TotalsNat
      <3>4. /\ Number(engine, hs, k) \in Nat /\ Number(engine, payload, k) \in Nat /\ Weight(engine, store, k) \in Nat
            /\ Number(engine, FunctionsOf(U), k) \in Nat /\ Number(engine, functions, k) \in Nat
            /\ Weight(engine, t, k) = Weight(engine, store, k) - Number(engine, FunctionsOf(U), k)
            /\ Weight(engine, store', k) = Weight(engine, t, k) - Number(engine, hs, k)
        BY <1>5, <1>6, <1>7, <1>8
      <3> QED
        BY ONLY <3>1, <3>2, <3>3, <3>4
    <2>4. Trampoline \notin {} \cup {} /\ ({} \cup {}) \cap Objects \subseteq live' /\ Rooted \cap Objects \subseteq live'
      BY <1>1, <1>2 DEF Balanced, Lively
    <2> QED
      BY <1>1, <1>2, <1>9, <1>10, <2>1, <2>2, <2>3, <2>4, UsualBefore
  <1> QED
    BY <1>1, <1>2, <1>4, <1>10, <1>11, <1>12, <1>13 DEF IInv, MockOnly

LEMMA StoreTearingStep ==
  ASSUME IInv, StoreTearing
  PROVE  IInv'
  <1>1. /\ Shaped /\ Balanced /\ phase = "tearing" /\ script \subseteq live /\ frames = <<>> /\ engine = "jsc"
        /\ engine \in {"boa", "jsc"} /\ Store(engine, store) /\ JscStore(store)
        /\ phase' = "enqueued" /\ store' = [store EXCEPT !.tearing = TRUE]
        /\ UNCHANGED <<engine, script, live, frames, payload, deferred, functions, outstanding, removals, batch,
                       host, classes, finalizing, passed, dangling>>
    <2>1. engine = "jsc"
      BY DEF IInv, Shaped, Framed, PhasesOf, StoreTearing
    <2> QED
      BY <2>1 DEF IInv, Balanced, Shaped, Lively, Framed, StoreTearing, To, Store, async, rest
  <1>2. Roots /\ Roots' /\ engine' = engine /\ Rooting /\ Rooting'
    BY <1>1 DEF Roots, Rooting
  <1>3. /\ JscStore(store') /\ store'.methods = store.methods /\ store'.deferred = store.deferred
        /\ store'.protected = store.protected /\ store'.tearing = TRUE
    BY <1>1 DEF JscStore
  <1>4. Store(engine, store') /\ Keeps(engine, store, store') /\ Adds(engine, store, store', {})
    BY <1>1, <1>3 DEF Store, Keeps, Valid, Adds
  <1>5. Shaped'
    BY <1>1 DEF Shaped
  <1>6. Framed'
    <2>1. phase' \in PhasesOf(engine)
      BY <1>1 DEF PhasesOf
    <2> QED
      BY <1>1, <2>1 DEF IInv, Framed
  <1>7. Batched'
    BY <1>1 DEF IInv, Batched
  <1>8. Kept'
    BY <1>1 DEF IInv, Kept
  <1>9. AllValid' /\ Weighed'
    <2>1. AllIn(engine, store, frames', payload', functions', host', classes')
      BY <1>1, <1>2 DEF Balanced, AllValid
    <2>2. ASSUME NEW k \in Keys(engine)
          PROVE  Weight(engine, store', k) + (Total(k) + Extra(k)) = Weight(engine, store, k) + (Total(k)' + Extra(k)')
      BY <1>1, <1>3 DEF Weight, Total, Extra, TrampolineHeld
    <2>3. ~store.tearing
      BY <1>1, <1>2 DEF Balanced, JscOnly
    <2>4. \A k \in Keys(engine) : Exact(k)' => Exact(k)
      BY <2>3 DEF Exact
    <2> QED
      BY <1>1, <1>2, <1>4, <1>5, <2>1, <2>2, <2>4, Settles
  <1>10. BoaOnly' /\ Lively'
    <2>1. /\ Trampoline \notin {} /\ {} \cap Objects \subseteq live' /\ Rooted \cap Objects \subseteq live'
          /\ engine = "jsc" => \A x \in Objects : store'.methods[x] = store.methods[x]
      BY <1>1, <1>3 DEF Balanced, Lively
    <2> QED
      BY <1>1, <1>2, <1>4, <2>1, LiveRoots
  <1>11. JscOnly'
    <2>1. /\ \A c \in Cells : store.methods[c] = IF c = Prototype THEN Len(classes) ELSE 0
          /\ \A i \in DOMAIN classes : classes[i].of = Prototype
          /\ \A c \in Cells \ Objects : store.deferred[c] = 0 /\ finalizing[c] = 0 /\ passed[c] = 0
      BY <1>1, <1>2 DEF Balanced, JscOnly
    <2> QED
      BY <1>1, <1>2, <1>3, <2>1 DEF JscOnly
  <1> QED
    BY <1>1, <1>4, <1>5, <1>6, <1>7, <1>8, <1>9, <1>10, <1>11 DEF IInv, Balanced, MockOnly

LEMMA DrainEnqueuedStep ==
  ASSUME IInv, DrainEnqueued
  PROVE  IInv'
  <1>1. /\ Shaped /\ Balanced /\ phase = "enqueued" /\ script \subseteq live /\ frames = <<>> /\ engine = "jsc"
        /\ Store(engine, store) /\ phase' = "mopping" /\ store' = J!DrainDeferred(store)
        /\ UNCHANGED <<engine, script, live, frames, payload, deferred, functions, outstanding, removals, batch,
                       host, classes, finalizing, passed, dangling>>
    <2>1. engine = "jsc"
      BY DEF IInv, Shaped, Framed, PhasesOf, DrainEnqueued
    <2> QED
      BY <2>1 DEF IInv, Balanced, Shaped, Lively, Framed, DrainEnqueued, To, async, rest
  <1>2. Shaped'
    BY <1>1 DEF Shaped
  <1>3. Framed'
    <2>1. phase' \in PhasesOf(engine)
      BY <1>1 DEF PhasesOf
    <2> QED
      BY <1>1, <2>1 DEF IInv, Framed
  <1>4. Batched'
    BY <1>1 DEF IInv, Batched
  <1>5. Kept'
    BY <1>1 DEF IInv, Kept
  <1>6. Balanced'
    <2>1. Moves("jsc", store, store, {})
      BY <1>1, StillGrown DEF Grown
    <2>2. Rooting /\ Rooting' /\ \A k : TrampolineHeld(k)' = TrampolineHeld(k)
      BY <1>1 DEF Rooting, TrampolineHeld
    <2>3. \A k \in Cells : Weight("jsc", store, k) + Total(k) = Weight("jsc", store, k) + Total(k)'
      BY <1>1 DEF Total
    <2>4. /\ phase' \in {"enqueued", "mopping"} <=> phase \in {"enqueued", "mopping"}
          /\ UNCHANGED <<engine, live, classes, finalizing, passed>> /\ script' \subseteq live'
      BY <1>1
    <2> QED
      BY <1>1, <1>2, <2>1, <2>2, <2>3, <2>4, JscDrained
  <1> QED
    BY <1>1, <1>2, <1>3, <1>4, <1>5, <1>6 DEF IInv, MockOnly

(* Once the roots are gone nothing is counted.                             *)
LEMMA NothingRooted ==
  ASSUME ~Rooting', engine' = engine, Store(engine, store'), script' \subseteq live',
         engine = "boa" => DOMAIN store'.slots = {},
         engine = "jsc" => /\ \A c \in Cells : store'.methods[c] = 0 /\ store'.protected[c] = 0
                           /\ \A c \in Cells \ Objects : store'.deferred[c] = 0 /\ finalizing'[c] = 0 /\ passed'[c] = 0,
         engine \in {"boa", "jsc"}
  PROVE  Balanced'
  <1>1. AllValid' /\ Weighed' /\ BoaOnly'
    BY DEF AllValid, Weighed, BoaOnly, Roots
  <1>2. JscOnly'
    BY DEF JscOnly
  <1>3. Rooted' = {}
    <2>1. CASE engine = "boa"
      BY <2>1 DEF Rooted, B!Rooted
    <2>2. CASE engine = "jsc"
      <3>1. \A c \in Cells : ~(store'.protected[c] + store'.methods[c] > 0)
        BY <2>2
      <3> QED
        BY <2>2, <3>1 DEF Rooted, J!Rooted
    <2> QED
      BY <2>1, <2>2
  <1>4. Lively'
    BY <1>3 DEF Lively
  <1> QED
    BY <1>1, <1>2, <1>4 DEF Balanced

LEMMA MopUpStep ==
  ASSUME IInv, MopUp
  PROVE  IInv'
  <1>1. /\ Shaped /\ Balanced /\ phase = "mopping" /\ script \subseteq live /\ frames = <<>> /\ engine = "jsc"
        /\ JscStore(store) /\ phase' = "context" /\ store' = J!MopUp(store) /\ host' = <<>> /\ classes' = <<>>
        /\ UNCHANGED <<engine, script, live, frames, payload, deferred, functions, outstanding, removals, batch,
                       finalizing, passed, dangling>>
    <2>1. engine = "jsc"
      BY DEF IInv, Shaped, Framed, PhasesOf, MopUp
    <2> QED
      BY <2>1 DEF IInv, Balanced, Shaped, Lively, Framed, MopUp, To, Store, async
  <1>2. Shaped'
    <2>1. <<>> \in Seq(ObjectHandles(engine)) /\ <<>> \in Seq(Handles(engine))
      OBVIOUS
    <2> QED
      BY <1>1, <2>1 DEF Shaped
  <1>3. Framed'
    <2>1. phase' \in PhasesOf(engine)
      BY <1>1 DEF PhasesOf
    <2> QED
      BY <1>1, <2>1 DEF IInv, Framed
  <1>4. Batched'
    BY <1>1 DEF IInv, Batched
  <1>5. Kept'
    BY <1>1 DEF IInv, Kept
  <1>6. Balanced'
    <2>1. /\ JscStore(store') /\ store'.deferred = store.deferred
          /\ \A c \in Cells : store'.methods[c] = 0 /\ store'.protected[c] = 0
      BY <1>1 DEF J!MopUp, JscStore
    <2>2. \A c \in Cells \ Objects : store.deferred[c] = 0 /\ finalizing[c] = 0 /\ passed[c] = 0
      BY <1>1 DEF Balanced, JscOnly
    <2>3. /\ ~Rooting' /\ Store(engine, store') /\ script' \subseteq live' /\ engine' = engine
          /\ \A c \in Cells \ Objects : store'.deferred[c] = 0 /\ finalizing'[c] = 0 /\ passed'[c] = 0
      BY <1>1, <2>1, <2>2 DEF Rooting, Store
    <2> QED
      BY <1>1, <2>1, <2>3, NothingRooted
  <1> QED
    BY <1>1, <1>2, <1>3, <1>4, <1>5, <1>6 DEF IInv, MockOnly

LEMMA ClearSlotsStep ==
  ASSUME IInv, ClearSlots
  PROVE  IInv'
  <1>1. /\ Shaped /\ Balanced /\ phase = "clear" /\ script \subseteq live /\ frames = <<>> /\ engine = "boa"
        /\ phase' = "context" /\ store' = B!Arena /\ host' = <<>> /\ classes' = <<>>
        /\ UNCHANGED <<engine, script, live, frames, payload, deferred, functions, outstanding, removals, batch,
                       finalizing, passed, dangling>>
    <2>1. engine = "boa"
      BY DEF IInv, Shaped, Framed, PhasesOf, ClearSlots
    <2> QED
      BY <2>1 DEF IInv, Balanced, Shaped, Lively, Framed, ClearSlots, To, async
  <1>2. Shaped'
    <2>1. <<>> \in Seq(ObjectHandles(engine)) /\ <<>> \in Seq(Handles(engine))
      OBVIOUS
    <2> QED
      BY <1>1, <2>1 DEF Shaped
  <1>3. Framed'
    <2>1. phase' \in PhasesOf(engine)
      BY <1>1 DEF PhasesOf
    <2> QED
      BY <1>1, <2>1 DEF IInv, Framed
  <1>4. Batched'
    BY <1>1 DEF IInv, Batched
  <1>5. Kept'
    BY <1>1 DEF IInv, Kept
  <1>6. Balanced'
    <2>1. DOMAIN <<>> = {} /\ <<>> \in Seq(Slots)
      OBVIOUS
    <2>2. store' = [slots |-> <<>>, free |-> {}]
      BY <1>1 DEF B!Arena
    <2>3. BoaStore(store')
      BY <2>1, <2>2 DEF BoaStore
    <2>4. ~Rooting' /\ Store(engine, store') /\ script' \subseteq live' /\ engine' = engine /\ DOMAIN store'.slots = {}
      BY <1>1, <2>1, <2>2, <2>3 DEF Rooting, Store
    <2> QED
      BY <1>1, <2>4, NothingRooted
  <1> QED
    BY <1>1, <1>2, <1>3, <1>4, <1>5, <1>6 DEF IInv, MockOnly

(* Releases in an arena that is empty find nothing.                        *)
LEMMA EmptyArena ==
  ASSUME NEW s, BoaStore(s), DOMAIN s.slots = {}, NEW hs
  PROVE  BoaStore(B!ReleaseAll(s, hs)) /\ DOMAIN B!ReleaseAll(s, hs).slots = {}
  <1> DEFINE t == B!ReleaseAll(s, hs)
  <1>1. s.free = {}
    BY DEF BoaStore
  <1>2. \A n : {i \in DOMAIN s.slots : B!Left(s, hs, i) <= n} = {}
    OBVIOUS
  <1>3. t.free = {} /\ DOMAIN t.slots = {} /\ t = [slots |-> t.slots, free |-> t.free]
    BY <1>1, <1>2 DEF B!ReleaseAll
  <1>4. t.slots = <<>>
    <2>1. \A i \in DOMAIN s.slots : FALSE
      OBVIOUS
    <2>2. \A f, g : DOMAIN f = {} /\ DOMAIN g = {} /\ f = [i \in DOMAIN f |-> f[i]] /\ g = [i \in DOMAIN g |-> g[i]] => f = g
      OBVIOUS
    <2>3. DOMAIN <<>> = {} /\ <<>> = [i \in DOMAIN <<>> |-> <<>>[i]]
      OBVIOUS
    <2>4. t.slots = [i \in DOMAIN t.slots |-> t.slots[i]]
      BY DEF B!ReleaseAll
    <2> HIDE DEF t
    <2> QED
      BY <1>3, <2>2, <2>3, <2>4
  <1>5. <<>> \in Seq(Slots)
    OBVIOUS
  <1> HIDE DEF t
  <1>6. BoaStore(t)
    BY <1>3, <1>4, <1>5 DEF BoaStore
  <1> QED
    BY <1>3, <1>6 DEF t

LEMMA DropContextStep ==
  ASSUME IInv, DropContext
  PROVE  IInv'
  <1> DEFINE V == FieldsOf(Wrappers)  hs == Held(Wrappers)
  <1>1. /\ Shaped /\ Balanced /\ phase = "context" /\ frames = <<>> /\ engine \in {"boa", "jsc"} /\ Store(engine, store)
        /\ phase' = "done" /\ live' = {} /\ script' = {} /\ payload' = Emptied(Wrappers) /\ ~Rooting
        /\ (engine = "boa" => store' = B!Finalized(store, hs) /\ UNCHANGED finalizing)
        /\ (engine = "jsc" => /\ UNCHANGED store
                              /\ finalizing' = [c \in Cells |-> finalizing[c] + J!Times(hs, c)])
        /\ UNCHANGED <<engine, frames, deferred, functions, outstanding, removals, batch, host, classes, passed, dangling>>
    <2>1. engine \in {"boa", "jsc"}
      BY DEF IInv, Shaped, Framed, PhasesOf, DropContext
    <2> QED
      BY <2>1 DEF IInv, Balanced, Shaped, Framed, DropContext, Finalizes, To, async, Rooting
  <1>2. /\ V \in SUBSET Fields /\ hs = [y \in V |-> payload[y]]
        /\ payload' = [y \in Fields |-> IF y \in V THEN NoHandle ELSE payload[y]]
    BY <1>1, HeldIs
  <1> HIDE DEF V
  <1>3. IsFiniteSet(DOMAIN hs) /\ \A x \in DOMAIN hs : hs[x] \in PlainHandles(engine) \cup {NoHandle}
    <2>1. DOMAIN hs = V /\ \A x \in V : hs[x] = payload[x] /\ x \in Fields
      BY <1>2
    <2> QED
      BY <1>1, <1>2, <2>1, FiniteMaps, FS_Subset DEF Shaped
  <1>4. payload' \in [Fields -> PlainHandles(engine) \cup {NoHandle}]
    BY <1>1, <1>2 DEF Shaped
  <1> HIDE DEF hs
  <1>5. Framed'
    <2>1. phase' \in PhasesOf(engine)
      BY <1>1 DEF PhasesOf
    <2>2. DOMAIN <<>> = {}
      OBVIOUS
    <2> QED
      BY <1>1, <2>1, <2>2 DEF Framed
  <1>6. Batched'
    BY <1>1 DEF IInv, Batched
  <1>7. Kept'
    BY <1>1 DEF IInv, Kept
  <1>8. Shaped' /\ Balanced'
    <2>1. CASE engine = "boa"
      <3>1. BoaStore(store) /\ DOMAIN store.slots = {}
        BY <1>1, <2>1 DEF Balanced, BoaOnly, Store
      <3>2. store' = B!ReleaseAll(store, hs)
        BY <1>1, <2>1 DEF B!Finalized
      <3>3. BoaStore(store') /\ DOMAIN store'.slots = {}
        BY <3>1, <3>2, EmptyArena
      <3>4. Shaped'
        BY <1>1, <1>4, <2>1 DEF Shaped
      <3>5. ~Rooting' /\ Store(engine, store') /\ script' \subseteq live' /\ engine' = engine
        BY <1>1, <2>1, <3>3 DEF Rooting, Store
      <3> QED
        BY <1>1, <2>1, <3>3, <3>4, <3>5, NothingRooted
    <2>2. CASE engine = "jsc"
      <3>1. finalizing' = [c \in Cells |-> finalizing[c] + J!Times(hs, c)]
        BY <1>1, <2>2
      <3>2. finalizing' \in [Cells -> Nat] /\ \A c \in Cells \ Objects : finalizing'[c] = finalizing[c]
        BY <1>1, <1>3, <2>2, <3>1, FinalizersGet
      <3>3. Shaped'
        BY <1>1, <1>4, <2>2, <3>2 DEF Shaped
      <3>4. /\ \A c \in Cells : store.methods[c] = 0 /\ store.protected[c] = 0
            /\ \A c \in Cells \ Objects : store.deferred[c] = 0 /\ finalizing[c] = 0 /\ passed[c] = 0
        BY <1>1, <2>2 DEF Balanced, JscOnly
      <3>5. /\ \A c \in Cells : store'.methods[c] = 0 /\ store'.protected[c] = 0
            /\ \A c \in Cells \ Objects : store'.deferred[c] = 0 /\ finalizing'[c] = 0 /\ passed'[c] = 0
        BY <1>1, <2>2, <3>2, <3>4
      <3>6. ~Rooting' /\ Store(engine, store') /\ script' \subseteq live' /\ engine' = engine
        BY <1>1, <2>2 DEF Rooting
      <3> QED
        BY <1>1, <2>2, <3>3, <3>5, <3>6, NothingRooted
    <2> QED
      BY <1>1, <2>1, <2>2
  <1> QED
    BY <1>1, <1>5, <1>6, <1>7, <1>8 DEF IInv, MockOnly

LEMMA DropMockStep ==
  ASSUME IInv, DropMock
  PROVE  IInv'
  <1> DEFINE V == FieldsOf(Wrappers)  hs == Held(Wrappers)  g == Emptied(Wrappers)
  <1>1. /\ Shaped /\ Balanced /\ MockOnly /\ phase = "payloads" /\ frames = <<>> /\ engine = "mock" /\ Store("mock", store)
        /\ phase' = "done" /\ live' = {} /\ script' = {} /\ payload' = g
        /\ store' = M!ReleaseValues(store, hs)
        /\ UNCHANGED <<engine, frames, deferred, functions, outstanding, removals, batch, host, classes,
                       finalizing, passed, dangling>>
    <2>1. engine = "mock"
      BY DEF IInv, Shaped, Framed, PhasesOf, DropMock
    <2> QED
      BY <2>1 DEF IInv, Balanced, Shaped, Framed, DropMock, To, ReleaseAll, async, rest
  <1>2. V \in SUBSET Fields /\ hs = [y \in V |-> payload[y]] /\ g = [y \in Fields |-> IF y \in V THEN NoHandle ELSE payload[y]]
    BY HeldIs
  <1>3. \A x \in DOMAIN hs : hs[x].ref = 0
    <2>1. DOMAIN hs = V /\ \A x \in V : hs[x] = payload[x] /\ x \in Fields
      BY <1>2
    <2> QED
      BY <1>1, <2>1 DEF MockOnly
  <1>4. \A x \in Fields : g[x].ref = 0
    <2>1. \A x \in Fields : g[x] = NoHandle \/ g[x] = payload[x]
      BY <1>2
    <2> QED
      BY <1>1, <2>1 DEF MockOnly, NoHandle
  <1> HIDE DEF V, hs, g
  <1>5. /\ IsFiniteSet(DOMAIN hs) /\ g \in [Fields -> PlainHandles(engine) \cup {NoHandle}]
        /\ \A k \in Keys(engine) :
             /\ Number(engine, g, k) = Number(engine, payload, k) - Number(engine, hs, k)
             /\ Number(engine, hs, k) \in Nat /\ Number(engine, payload, k) \in Nat
             /\ Number(engine, hs, k) <= Number(engine, payload, k)
        /\ \A s : PlacesIn(engine, s, payload) => PlacesIn(engine, s, g)
    BY <1>1, <1>2, PayloadCleared
  <1>6. \A c \in Cells : /\ Number("mock", hs, c) <= store.dups[c] /\ store.dups[c] = Number("mock", payload, c)
                         /\ Number("mock", g, c) = store.dups[c] - Number("mock", hs, c)
    BY <1>1, <1>5 DEF MockOnly, Keys
  <1>7. /\ Store("mock", store') /\ store'.aliases = store.aliases /\ store'.panicked = store.panicked
        /\ \A c \in Cells : store'.dups[c] = store.dups[c] - Number("mock", hs, c)
    BY <1>1, <1>3, <1>5, <1>6, MockRelease
  <1>8. Shaped'
    BY <1>1, <1>5 DEF Shaped
  <1>9. Framed'
    <2>1. phase' \in PhasesOf(engine)
      BY <1>1 DEF PhasesOf
    <2>2. DOMAIN <<>> = {}
      OBVIOUS
    <2> QED
      BY <1>1, <2>1, <2>2 DEF Framed
  <1>10. Batched'
    BY <1>1 DEF IInv, Batched
  <1>11. Kept'
    BY <1>1 DEF IInv, Kept
  <1>12. Balanced'
    BY <1>1, <1>7, MockBalanced
  <1>13. MockOnly'
    <2>1. \A c \in Cells : store'.dups[c] = Number("mock", payload', c)
      BY <1>1, <1>6, <1>7
    <2>2. MockScopes(store'.aliases, frames')
      BY <1>1, <1>7 DEF MockOnly
    <2>3. /\ ~store'.panicked /\ host' = <<>> /\ classes' = <<>> /\ \A x \in Fields : payload'[x].ref = 0
          /\ \A x \in Halves : functions'[x].ref = 0
      BY <1>1, <1>4, <1>7 DEF MockOnly
    <2> QED
      BY <2>1, <2>2, <2>3 DEF MockOnly
  <1> QED
    BY <1>8, <1>9, <1>10, <1>11, <1>12, <1>13 DEF IInv

(***************************************************************************)
(* The invariant holds.                                                    *)
(***************************************************************************)
LEMMA NumberOfEmpty ==
  ASSUME NEW e, NEW hs, \A x \in DOMAIN hs : hs[x] = NoHandle, NEW k \in Keys(e)
  PROVE  Number(e, hs, k) = 0
  <1>1. Uses(e, hs, k) = {}
    BY NoKey DEF Uses
  <1> QED
    BY <1>1, FS_EmptySet DEF Number

LEMMA InitShaped ==
  ASSUME Init
  PROVE  Shaped /\ Framed /\ Batched /\ Kept /\ script \subseteq live
  <1>1. /\ engine \in {"boa", "jsc", "mock"} /\ phase = "running" /\ live = Objects /\ script = Objects /\ frames = <<>>
        /\ payload = [x \in Fields |-> NoHandle] /\ deferred = [p \in Promises |-> "none"]
        /\ functions = [x \in Halves |-> NoHandle] /\ outstanding = {} /\ removals = {} /\ batch = <<>>
        /\ host = <<>> /\ classes = <<>> /\ finalizing = [c \in Cells |-> 0] /\ passed = [c \in Cells |-> 0]
        /\ dangling = FALSE
    BY EnginesAssumption DEF Init
  <1>2. DOMAIN <<>> = {}
    OBVIOUS
  <1>3. Shaped
    <2>1. /\ <<>> \in Seq(FrameSet(engine)) /\ <<>> \in Seq(ObjectHandles(engine)) /\ <<>> \in Seq(Handles(engine))
      OBVIOUS
    <2>2. /\ payload \in [Fields -> PlainHandles(engine) \cup {NoHandle}] /\ functions \in [Halves -> Maybe(engine)]
          /\ deferred \in [Promises -> Places] /\ finalizing \in [Cells -> Nat] /\ passed \in [Cells -> Nat]
      BY <1>1 DEF Maybe, Places
    <2> QED
      BY <1>1, <1>2, <2>1, <2>2 DEF Shaped
  <1>4. Framed
    <2>1. phase \in PhasesOf(engine)
      BY <1>1 DEF PhasesOf
    <2> QED
      BY <1>1, <1>2, <2>1 DEF Framed
  <1>5. Batched
    BY <1>1, <1>2 DEF Batched
  <1>6. Kept
    BY <1>1 DEF Kept, Halves
  <1> QED
    BY <1>1, <1>3, <1>4, <1>5, <1>6

LEMMA InitBalanced ==
  ASSUME Init, Shaped, script \subseteq live, engine # "mock"
  PROVE  Balanced
  <1>1. /\ engine \in {"boa", "jsc"} /\ phase = "running" /\ live = Objects /\ frames = <<>>
        /\ payload = [x \in Fields |-> NoHandle] /\ functions = [x \in Halves |-> NoHandle]
        /\ host = <<>> /\ classes = <<>> /\ finalizing = [c \in Cells |-> 0] /\ passed = [c \in Cells |-> 0]
        /\ (engine = "boa" => store = B!Insert(B!Arena, Trampoline))
        /\ (engine = "jsc" => store = J!Protect(J!Ledger, Trampoline))
    BY DEF Init, Shaped
  <1>2. Trampoline \in Cells /\ Trampoline # None /\ Trampoline \notin Objects /\ Trampoline # Prototype
    BY EnginesAssumption DEF Cells, Trampoline, Prototype
  <1>3. \A k \in Keys(engine) : Total(k) = 0 /\ Number(engine, classes, k) = 0
    <2> SUFFICES ASSUME NEW k \in Keys(engine)
                 PROVE  Total(k) = 0 /\ Number(engine, classes, k) = 0
      OBVIOUS
    <2>1. Owned(engine, frames, k) = 0 /\ Number(engine, host, k) = 0 /\ Number(engine, classes, k) = 0
      BY <1>1, OwnedByNone, NumberOfNone
    <2>2. Number(engine, payload, k) = 0
      <3>1. \A x \in DOMAIN payload : payload[x] = NoHandle
        BY <1>1
      <3> QED
        BY <3>1, NumberOfEmpty
    <2>3. Number(engine, functions, k) = 0
      <3>1. \A x \in DOMAIN functions : functions[x] = NoHandle
        BY <1>1
      <3> QED
        BY <3>1, NumberOfEmpty
    <2> QED
      BY <2>1, <2>2, <2>3 DEF Total
  <1>4. /\ \A s : FramesIn(engine, s, frames) /\ PlacesIn(engine, s, payload) /\ PlacesIn(engine, s, functions)
        /\ \A s : PlacesIn(engine, s, host) /\ PlacesIn(engine, s, classes)
    BY <1>1 DEF FramesIn, PlacesIn
  <1>5. CASE engine = "boa"
    <2> DEFINE h == [of |-> Trampoline, ref |-> 1]
    <2>1. Store("boa", B!Arena) /\ B!Index(B!Arena) = 1 /\ DOMAIN B!Arena.slots = {}
      <3>1. DOMAIN <<>> = {} /\ <<>> \in Seq(Slots) /\ Len(<<>>) + 1 = 1
        OBVIOUS
      <3> QED
        BY <3>1 DEF B!Arena, B!Index, Store, BoaStore
    <2>2. /\ Moves("boa", B!Arena, store, {Trampoline}) /\ Valid("boa", store, h)
          /\ \A k \in Keys("boa") : Weight("boa", store, k) = Weight("boa", B!Arena, k) + One("boa", h, k)
      BY <1>1, <1>2, <1>5, <2>1, BoaInsert
    <2>3. \A k \in Keys("boa") : Weight("boa", store, k) = IF k = 1 THEN 1 ELSE 0
      BY <2>1, <2>2 DEF Weight, One, Key
    <2>4. DOMAIN store.slots = {1} /\ store.slots[1].cell = Trampoline /\ Store("boa", store)
      <3>1. B!Arena.free = {} /\ B!Arena.slots = <<>>
        BY DEF B!Arena
      <3>2. store.slots = Append(<<>>, [cell |-> Trampoline, refs |-> 1])
        BY <1>1, <1>5, <3>1 DEF B!Insert, B!Arena
      <3> QED
        BY <2>2, <3>2 DEF Moves
    <2>5. AllValid
      BY <1>4, <1>5, <2>2 DEF AllValid, AllIn, TrampolineIn
    <2>6. Weighed
      BY <1>3, <1>5, <2>3 DEF Weighed, Extra
    <2>7. BoaOnly
      BY <1>1, <2>4 DEF BoaOnly, Rooting
    <2>8. Lively
      BY <1>1, <1>2, <1>5, <2>4 DEF Lively, Rooted, B!Rooted
    <2> QED
      BY <1>5, <2>4, <2>5, <2>6, <2>7, <2>8 DEF Balanced, JscOnly
  <1>6. CASE engine = "jsc"
    <2>1. JscStore(J!Ledger) /\ J!Ledger.protected = [c \in Cells |-> 0]
      BY DEF J!Ledger, JscStore
    <2>2. /\ JscStore(store) /\ store.protected = [c \in Cells |-> IF c = Trampoline THEN 1 ELSE 0]
          /\ store.methods = [c \in Cells |-> 0] /\ store.deferred = [c \in Cells |-> 0] /\ store.tearing = FALSE
      <3> DEFINE P == [J!Ledger.protected EXCEPT ![Trampoline] = J!Ledger.protected[Trampoline] + 1]
      <3>1. store = [J!Ledger EXCEPT !.protected = P]
        BY <1>1, <1>6 DEF J!Protect, J!Ledger
      <3>2. P = [c \in Cells |-> IF c = Trampoline THEN 1 ELSE 0] /\ P \in [Cells -> Nat]
        BY <1>2, <2>1
      <3> HIDE DEF P
      <3> QED
        BY <3>1, <3>2 DEF J!Ledger, JscStore
    <2>3. AllValid
      BY <1>4, <1>6 DEF AllValid, AllIn, TrampolineIn
    <2>4. Weighed
      <3> SUFFICES ASSUME NEW k \in Cells
                   PROVE  Weight(engine, store, k) = Total(k) + Extra(k) /\ Weight(engine, store, k) \in Nat
        BY <1>6 DEF Weighed, Keys
      <3>1. Weight(engine, store, k) = IF k = Trampoline THEN 1 ELSE 0
        BY <1>6, <2>2 DEF Weight
      <3>2. Extra(k) = IF k = Trampoline THEN 1 ELSE 0
        BY <1>1, <1>6, <2>2 DEF Extra, TrampolineHeld
      <3>3. Total(k) = 0
        BY <1>3, <1>6 DEF Keys
      <3> QED
        BY <3>1, <3>2, <3>3
    <2>5. JscOnly
      <3>1. DOMAIN <<>> = {} /\ Len(<<>>) = 0
        OBVIOUS
      <3> QED
        BY <1>1, <2>2, <3>1 DEF JscOnly, Rooting
    <2>6. Lively
      <3>1. Rooted \cap Objects = {}
        BY <1>2, <1>6, <2>2 DEF Rooted, J!Rooted
      <3> QED
        BY <3>1 DEF Lively
    <2> QED
      BY <1>6, <2>2, <2>3, <2>4, <2>5, <2>6 DEF Balanced, BoaOnly, Store
  <1> QED
    BY <1>1, <1>5, <1>6

LEMMA InitInvariant ==
  ASSUME Init
  PROVE  IInv
  <1>1. Shaped /\ Framed /\ Batched /\ Kept /\ script \subseteq live
    BY InitShaped
  <1>2. CASE engine # "mock"
    BY <1>1, <1>2, InitBalanced DEF IInv, MockOnly
  <1>3. CASE engine = "mock"
    <2>1. /\ frames = <<>> /\ payload = [x \in Fields |-> NoHandle] /\ functions = [x \in Halves |-> NoHandle]
          /\ host = <<>> /\ classes = <<>> /\ store = M!Values
      BY <1>3 DEF Init
    <2>2. Store("mock", store)
      BY <2>1 DEF Store, MockStore, M!Values
    <2>3. Balanced
      BY <1>1, <1>3, <2>2 DEF Balanced, AllValid, Weighed, BoaOnly, JscOnly, Lively, Roots
    <2>4. ASSUME NEW c \in Cells
          PROVE  store.dups[c] = Number("mock", payload, c)
      <3>1. \A x \in DOMAIN payload : payload[x] = NoHandle
        BY <2>1
      <3>2. c \in Keys("mock")
        BY DEF Keys
      <3>3. Number("mock", payload, c) = 0
        BY <3>1, <3>2, NumberOfEmpty
      <3> QED
        BY <2>1, <3>3 DEF M!Values
    <2>5. MockScopes(store.aliases, frames)
      <3>1. DOMAIN <<>> = {}
        OBVIOUS
      <3> QED
        BY <2>1, <3>1 DEF MockScopes, M!Values
    <2>6. MockOnly
      BY <2>1, <2>4, <2>5 DEF MockOnly, M!Values, NoHandle
    <2> QED
      BY <1>1, <2>3, <2>6 DEF IInv
  <1> QED
    BY <1>2, <1>3

LEMMA Stutters ==
  ASSUME IInv, UNCHANGED vars
  PROVE  IInv'
  <1>1. UNCHANGED <<engine, phase, store, script, live, frames, payload, deferred, functions, outstanding, removals, batch,
                    host, classes, finalizing, passed, dangling>>
    BY DEF vars
  <1>2. Shaped'
    BY <1>1 DEF IInv, Shaped
  <1>3. Framed' /\ Batched' /\ Kept'
    BY <1>1, QuietFrames DEF IInv, Framed
  <1>4. AllValid' /\ Weighed'
    <2>1. AllValid'
      BY <1>1 DEF IInv, Balanced, AllValid, Roots, Rooting
    <2>2. Weighed'
      BY <1>1 DEF IInv, Balanced, Weighed, Roots, Rooting, Total, Extra, Exact, TrampolineHeld
    <2> QED
      BY <2>1, <2>2
  <1>5. BoaOnly' /\ JscOnly' /\ Lively' /\ Store(engine, store)'
    <2>1. BoaOnly'
      BY <1>1 DEF IInv, Balanced, BoaOnly, Rooting
    <2>2. JscOnly'
      BY <1>1 DEF IInv, Balanced, JscOnly, Rooting
    <2>3. Lively' /\ Store(engine, store)'
      BY <1>1 DEF IInv, Balanced, Lively, Rooted
    <2> QED
      BY <2>1, <2>2, <2>3
  <1>6. MockOnly'
    BY <1>1 DEF IInv, MockOnly
  <1> QED
    BY <1>2, <1>3, <1>4, <1>5, <1>6 DEF IInv, Balanced

LEMMA NextInvariant ==
  ASSUME IInv, [Next]_vars
  PROVE  IInv'
  <1>1. ASSUME NEW w \in Wrappers, CallMethod(w) \/ \E a \in Plain : CallSetter(w, a)
        PROVE  IInv'
    BY <1>1, CallStep
  <1>2. ASSUME NEW c \in Objects,
               LookUp(c) \/ NewInstance(c) \/ MakeAttribute(c) \/ Forget(c) \/ Collect(c) \/ Eval(c)
        PROVE  IInv'
    BY <1>2, LookUpStep, NewInstanceStep, MakeAttributeStep, ForgetStep, CollectStep, EvalStep
  <1>3. CASE SetHandler \/ ClearHandler \/ ReadAttribute \/ RegisterClass
    BY <1>3, SetHandlerStep, ClearHandlerStep, ReadAttributeStep, RegisterClassStep
  <1>4. ASSUME NEW p \in Promises, NewPromise(p) \/ Answer(p)
        PROVE  IInv'
    BY <1>4, NewPromiseStep, AnswerStep
  <1>5. ASSUME NEW p \in Promises, NEW c \in Objects, NEW fails \in BOOLEAN, NEW bare \in BOOLEAN,
         Prepare(p, c, fails, bare)
        PROVE  IInv'
    BY <1>5, PrepareStep
  <1>6. ASSUME NEW h, Return(h)
        PROVE  IInv'
    BY <1>6, ReturnStep
  <1>7. ASSUME NEW reached, Settle(reached)
        PROVE  IInv'
    BY <1>7, SettleStep
  <1>8. CASE BeginTick \/ StartDrain \/ Settled \/ EndTick
    BY <1>8, BeginTickStep, StartDrainStep, SettledStep, EndTickStep
  <1>9. CASE SetGlobal \/ DrainReleases
    BY <1>9, SetGlobalStep, DrainReleasesStep
  <1>10. ASSUME NEW c \in Cells, DeferChecks(c) \/ DeferEnqueues(c)
         PROVE  IInv'
    BY <1>10, DeferChecksStep, DeferEnqueuesStep
  <1>11. CASE BeginDrop \/ ReleaseOutstanding \/ ReleasePending \/ ReleaseTrampoline \/ StoreTearing
    BY <1>11, BeginDropStep, ReleaseOutstandingStep, ReleasePendingStep, ReleaseTrampolineStep, StoreTearingStep
  <1>12. CASE DrainEnqueued \/ MopUp \/ ClearSlots \/ DropContext \/ DropMock
    BY <1>12, DrainEnqueuedStep, MopUpStep, ClearSlotsStep, DropContextStep, DropMockStep
  <1>13. CASE UNCHANGED vars
    BY <1>13, Stutters
  <1>14. CASE \E w \in Wrappers : CallMethod(w) \/ \E a \in Plain : CallSetter(w, a)
    BY <1>1, <1>14
  <1>15. CASE \E c \in Objects : LookUp(c) \/ NewInstance(c) \/ MakeAttribute(c) \/ Forget(c) \/ Collect(c) \/ Eval(c)
    BY <1>2, <1>15
  <1>16. CASE \E p \in Promises : NewPromise(p) \/ Answer(p) \/ \E c \in Objects, fails, bare \in BOOLEAN : Prepare(p, c, fails, bare)
    BY <1>4, <1>5, <1>16
  <1>17. CASE \E h \in Range(Top.owned) \cup {Top.result, NoHandle} : Return(h)
    BY <1>6, <1>17
  <1>18. CASE \E reached \in SUBSET DOMAIN batch : Settle(reached)
    BY <1>7, <1>18
  <1>19. CASE \E c \in Cells : DeferChecks(c) \/ DeferEnqueues(c)
    BY <1>10, <1>19
  <1> QED
    BY <1>3, <1>8, <1>9, <1>11, <1>12, <1>13, <1>14, <1>15, <1>16, <1>17, <1>18, <1>19 DEF Next

(* The invariant that everything below follows from: in every engine each  *)
(* handle that is kept reads what it was issued for, and the engine counts *)
(* as many roots for it as it has holders, through every interleaving of   *)
(* callbacks, ticks, collections, finalizers and the drop.                 *)
THEOREM AllInv == Spec => []IInv
  <1>1. Init => IInv
    BY InitInvariant
  <1>2. IInv /\ [Next]_vars => IInv'
    BY NextInvariant
  <1> QED
    BY <1>1, <1>2, PTL DEF Spec

(* Every value core keeps is of the kind its place is for, and each        *)
(* engine's store has its shape: Boa's free list is the slots nobody holds,*)
(* JavaScriptCore's counts are never negative, the mock's aliases are in   *)
(* range.                                                                  *)
THEOREM TypeCorrect == Spec => []Typed
  <1>1. IInv => Typed
    BY DEF IInv, Balanced, Typed
  <1> QED
    BY <1>1, AllInv, PTL

(***************************************************************************)
(* Handles read what they were issued for.                                 *)
(***************************************************************************)
(* JavaScriptCore, Boa: a handle that is counted somewhere is alive.       *)
LEMMA HeldIsAlive ==
  ASSUME Shaped, Balanced, Roots, NEW h, Valid(engine, store, h),
         \/ \E i \in DOMAIN frames : \E j \in DOMAIN frames[i].owned : h = frames[i].owned[j]
         \/ h \in Range(payload) \cup Range(functions) \cup Range(host)
  PROVE  Reads(h) = h.of /\ Alive(h.of)
  <1> DEFINE k == Key(engine, h)
  <1>1. k \in Keys(engine) /\ engine # "mock" /\ Rooting /\ (engine = "jsc" => k = h.of)
    BY KeyOfHandle DEF Valid, Roots, Key
  <1>2. /\ frames \in Seq(FrameSet(engine)) /\ payload \in [Fields -> Maybe(engine)]
        /\ functions \in [Halves -> Maybe(engine)] /\ host \in Seq(Handles(engine))
    BY Widened DEF Shaped
  <1>3. Weight(engine, store, k) > 0
    <2>1. /\ Weight(engine, store, k) \in Nat
          /\ Number(engine, payload, k) <= Weight(engine, store, k)
          /\ Number(engine, functions, k) <= Weight(engine, store, k)
          /\ Number(engine, host, k) <= Weight(engine, store, k)
          /\ Owned(engine, frames, k) <= Weight(engine, store, k)
      BY <1>1, WeightCovers
    <2>2. /\ Number(engine, payload, k) \in Nat /\ Number(engine, functions, k) \in Nat
          /\ Number(engine, host, k) \in Nat /\ Owned(engine, frames, k) \in Nat
      BY ShapedPlaces, TotalsNat
    <2>3. IsFiniteSet(DOMAIN payload) /\ IsFiniteSet(DOMAIN functions) /\ IsFiniteSet(DOMAIN host)
      BY <1>2, FiniteMaps, SeqFinite
    <2>4. CASE h \in Range(payload)
      <3> PICK x \in DOMAIN payload : h = payload[x]
        BY <2>4 DEF Range
      <3>1. Number(engine, payload, k) > 0
        BY <2>3, UseCounts
      <3> QED
        BY <2>1, <2>2, <3>1
    <2>5. CASE h \in Range(functions)
      <3> PICK x \in DOMAIN functions : h = functions[x]
        BY <2>5 DEF Range
      <3>1. Number(engine, functions, k) > 0
        BY <2>3, UseCounts
      <3> QED
        BY <2>1, <2>2, <3>1
    <2>6. CASE h \in Range(host)
      <3> PICK x \in DOMAIN host : h = host[x]
        BY <2>6 DEF Range
      <3>1. Number(engine, host, k) > 0
        BY <2>3, UseCounts
      <3> QED
        BY <2>1, <2>2, <3>1
    <2>7. CASE \E i \in DOMAIN frames : \E j \in DOMAIN frames[i].owned : h = frames[i].owned[j]
      <3> PICK i \in DOMAIN frames : \E j \in DOMAIN frames[i].owned : h = frames[i].owned[j]
        BY <2>7
      <3> PICK j \in DOMAIN frames[i].owned : h = frames[i].owned[j]
        OBVIOUS
      <3>1. FiniteFrames(frames, Len(frames)) /\ i \in 1 .. Len(frames)
        BY <1>2, FramesShape
      <3>2. Owned(engine, frames, k) > 0
        BY <3>1, OwnedCounts
      <3> QED
        BY <2>1, <2>2, <3>2
    <2> QED
      BY <2>4, <2>5, <2>6, <2>7
  <1> QED
    BY <1>1, <1>3, CountedRooted DEF Alive

(* Where a value is that is in use.                                        *)
LEMMA InUseIs ==
  ASSUME IInv, NEW h \in InUse
  PROVE  /\ h # NoHandle
         /\ \/ \E i \in DOMAIN frames : \E j \in DOMAIN frames[i].owned : h = frames[i].owned[j]
            \/ h \in Range(payload) \cup Range(functions) \cup Range(host)
            \/ h \in Range(classes)
            \/ \E i \in DOMAIN frames : h.of \in frames[i].stack /\ engine = "jsc"
            \/ engine = "mock" /\ h.ref = 0
  <1>1. h # NoHandle
    BY DEF InUse
  <1>2. CASE h \in Range(payload) \cup Range(functions) \cup Range(host) \cup Range(classes)
    BY <1>1, <1>2
  <1>3. ASSUME NEW i \in DOMAIN frames, h \in Range(frames[i].owned) \cup {frames[i].this, frames[i].arg, frames[i].result}
        PROVE  \/ \E j \in DOMAIN frames[i].owned : h = frames[i].owned[j]
               \/ h \in Range(payload) \/ (h.of \in frames[i].stack /\ engine = "jsc") \/ (engine = "mock" /\ h.ref = 0)
    <2>1. CASE h \in Range(frames[i].owned)
      BY <2>1 DEF Range
    <2>2. CASE h \notin Range(frames[i].owned)
      <3>1. engine \in {"boa", "jsc", "mock"} /\ payload \in [Fields -> PlainHandles(engine) \cup {NoHandle}]
        BY DEF IInv, Shaped
      <3>2. /\ frames[i].kind \in {"call", "tick"} /\ (frames[i].kind = "tick" => TickFrame(frames[i]))
            /\ (frames[i].kind = "call" => CallFrame(frames[i]))
        BY FramesShape, FrameShape DEF IInv, Framed, Shaped
      <3>3. frames[i].kind = "call"
        BY <1>1, <1>3, <2>2, <3>2 DEF TickFrame
      <3>4. CallFrame(frames[i])
        BY <3>2, <3>3
      <3>5. CASE h = frames[i].this \/ h = frames[i].arg
        BY <1>1, <2>2, <3>1, <3>4, <3>5 DEF CallFrame
      <3>6. CASE h = frames[i].result
        <4>1. h = payload[<<frames[i].this.of, "attribute">>] \/ (engine = "mock" /\ h.ref = 0)
          BY <1>1, <2>2, <3>4, <3>6 DEF CallFrame
        <4>2. <<frames[i].this.of, "attribute">> \in Fields
          BY <3>4 DEF CallFrame, Fields
        <4>3. payload[<<frames[i].this.of, "attribute">>] \in Range(payload)
          BY <3>1, <4>2 DEF Range
        <4> QED
          BY <4>1, <4>3
      <3> QED
        BY <1>3, <2>2, <3>5, <3>6
    <2> QED
      BY <2>1, <2>2
  <1>4. CASE h \in BatchValues(FALSE)
    <2>1. frames # <<>> /\ frames[1].step = "prepare"
      BY <1>4 DEF BatchValues
    <2>2. PICK q \in DOMAIN batch : h = batch[q].value /\ ~batch[q].bare
      BY <1>4, <2>1 DEF BatchValues
    <2>4. 1 \in DOMAIN frames
      <3>1. frames \in Seq(FrameSet(engine)) /\ Len(frames) \in Nat /\ DOMAIN frames = 1 .. Len(frames) /\ Len(frames) > 0
        BY <2>1 DEF IInv, Shaped
      <3> QED
        BY <3>1
    <2>5. /\ engine = "boa" \/ (engine = "jsc" /\ ~batch[q].bare) => h \in Range(frames[1].owned)
          /\ engine = "mock" => h.ref = 0
      BY <2>1, <2>2 DEF IInv, Batched
    <2>6. engine \in {"boa", "jsc", "mock"}
      BY DEF IInv, Shaped
    <2>7. h \in Range(frames[1].owned) \/ (engine = "mock" /\ h.ref = 0)
      BY <2>2, <2>5, <2>6
    <2>8. h \in Range(frames[1].owned) => \E i \in DOMAIN frames : \E j \in DOMAIN frames[i].owned : h = frames[i].owned[j]
      BY <2>4 DEF Range
    <2> QED
      BY <1>1, <2>7, <2>8
  <1>5. \/ h \in Range(payload) \cup Range(functions) \cup Range(host) \cup Range(classes) \/ h \in BatchValues(FALSE)
        \/ \E i \in DOMAIN frames : h \in Range(frames[i].owned) \cup {frames[i].this, frames[i].arg, frames[i].result}
    <2> DEFINE row(i) == Range(frames[i].owned) \cup {frames[i].this, frames[i].arg, frames[i].result}
               others == Range(payload) \cup Range(functions) \cup Range(host) \cup Range(classes) \cup BatchValues(FALSE)
               rows == UNION {row(i) : i \in DOMAIN frames}
    <2>1. h \in rows \/ h \in others
      BY DEF InUse
    <2>2. h \in rows => \E i \in DOMAIN frames : h \in row(i)
      <3> HIDE DEF row
      <3> QED
        OBVIOUS
    <2> QED
      BY <2>1, <2>2
  <1>6. CASE \E i \in DOMAIN frames : h \in Range(frames[i].owned) \cup {frames[i].this, frames[i].arg, frames[i].result}
    BY <1>1, <1>3, <1>6
  <1> QED
    BY <1>2, <1>4, <1>5, <1>6

LEMMA HandlesRead ==
  ASSUME IInv, Rooting, NEW h \in InUse
  PROVE  Reads(h) = h.of /\ (engine # "mock" => Alive(h.of))
  <1>1. Shaped /\ Balanced /\ Framed /\ MockOnly /\ engine \in {"boa", "jsc", "mock"}
    BY DEF IInv, Shaped
  <1>2. CASE engine # "mock"
    <2>1. Roots /\ AllIn(engine, store, frames, payload, functions, host, classes) /\ h # NoHandle
      BY <1>1, <1>2, InUseIs DEF Roots, Balanced, AllValid
    <2>2. CASE \E i \in DOMAIN frames : \E j \in DOMAIN frames[i].owned : h = frames[i].owned[j]
      <3>1. Valid(engine, store, h)
        BY <2>1, <2>2 DEF AllIn, FramesIn
      <3> QED
        BY <1>1, <2>1, <2>2, <3>1, HeldIsAlive
    <2>3. CASE h \in Range(payload) \cup Range(functions) \cup Range(host)
      <3>1. Valid(engine, store, h)
        BY <2>1, <2>3 DEF AllIn, PlacesIn, Range
      <3> QED
        BY <1>1, <2>1, <2>3, <3>1, HeldIsAlive
    <2>4. CASE h \in Range(classes)
      <3>1. Valid(engine, store, h)
        BY <2>1, <2>4 DEF AllIn, PlacesIn, Range
      <3>2. CASE engine = "boa"
        BY <1>1, <2>1, <3>1, <3>2, CountedRooted DEF Alive
      <3>3. CASE engine = "jsc"
        <4>1. PICK i \in DOMAIN classes : h = classes[i]
          BY <2>4 DEF Range
        <4>2. h.of = Prototype /\ Prototype \in Cells /\ store.methods[Prototype] = Len(classes)
          BY <1>1, <3>3, <4>1 DEF Balanced, JscOnly, Cells
        <4>3. Len(classes) > 0 /\ Len(classes) \in Nat
          BY <1>1, <4>1 DEF Shaped
        <4>4. store.protected[Prototype] \in Nat
          BY <1>1, <3>3, <4>2 DEF Balanced, Store, JscStore
        <4>5. store.protected[Prototype] + store.methods[Prototype] > 0
          BY <4>2, <4>3, <4>4
        <4> QED
          BY <3>3, <4>2, <4>5 DEF Reads, Alive, Rooted, J!Rooted
      <3> QED
        BY <1>1, <1>2, <3>2, <3>3
    <2>5. CASE \E i \in DOMAIN frames : h.of \in frames[i].stack /\ engine = "jsc"
      <3>1. engine = "jsc" /\ h.of \in live
        BY <1>1, <2>5 DEF Framed
      <3> QED
        BY <3>1 DEF Reads, Alive
    <2> QED
      BY <1>2, <2>2, <2>3, <2>4, <2>5, InUseIs
  <1>3. CASE engine = "mock"
    <2>1. M!Reads(store, h)
      <3>1. CASE \E i \in DOMAIN frames : \E j \in DOMAIN frames[i].owned : h = frames[i].owned[j]
        BY <1>1, <1>3, <3>1 DEF MockOnly, MockScopes, M!Reads
      <3>2. CASE h \in Range(payload) \cup Range(functions)
        BY <1>1, <1>3, <3>2 DEF MockOnly, Shaped, Range, M!Reads
      <3>3. CASE h \in Range(host) \cup Range(classes)
        <4>1. DOMAIN <<>> = {}
          OBVIOUS
        <4> QED
          BY <1>1, <1>3, <3>3, <4>1 DEF MockOnly, Range
      <3>4. CASE h.ref = 0
        BY <3>4 DEF M!Reads
      <3> QED
        BY <1>3, <3>1, <3>2, <3>3, <3>4, InUseIs
    <2> QED
      BY <1>3, <2>1 DEF Reads
  <1> QED
    BY <1>2, <1>3

(* Whatever core, a payload, a pending request or the host holds reads the *)
(* object it was got for, and that object is alive: no scope's end, no     *)
(* collection, no index that is used again and no settled promise takes it *)
(* away, however many callbacks, promises and handles there are.           *)
THEOREM ReadsWhatItHolds == Spec => []HandlesTrue
  <1>1. IInv => HandlesTrue
    BY HandlesRead DEF HandlesTrue
  <1> QED
    BY <1>1, AllInv, PTL

(***************************************************************************)
(* The roots are the holders.                                              *)
(***************************************************************************)
(* Handles of a set S are those of a key k, so places with one of them are *)
(* the places with the key.                                                *)
LEMMA PlacesAreUses ==
  ASSUME NEW e, NEW hs, NEW S, NEW k, \A x \in DOMAIN hs : hs[x] \in S <=> Key(e, hs[x]) = k
  PROVE  PlacesOf(hs, S) = Number(e, hs, k)
  <1>1. {x \in DOMAIN hs : hs[x] \in S} = Uses(e, hs, k)
    BY DEF Uses
  <1> QED
    BY <1>1 DEF PlacesOf, Number

LEMMA OwnedAreUses ==
  ASSUME NEW e, NEW S, NEW k,
         \A i \in DOMAIN frames : \A j \in DOMAIN frames[i].owned : frames[i].owned[j] \in S <=> Key(e, frames[i].owned[j]) = k
  PROVE  Cardinality(OwnedPlaces(S)) = Owned(e, frames, k)
  <1>1. ASSUME NEW x \in UNION {{i} \X DOMAIN frames[i].owned : i \in DOMAIN frames}
        PROVE  frames[x[1]].owned[x[2]] \in S <=> Key(e, frames[x[1]].owned[x[2]]) = k
    <2> PICK i \in DOMAIN frames : x \in {i} \X DOMAIN frames[i].owned
      OBVIOUS
    <2>1. x[1] = i /\ x[2] \in DOMAIN frames[i].owned
      OBVIOUS
    <2> QED
      BY <2>1
  <1>2. OwnedPlaces(S) = OwnedUses(e, frames, k)
    BY <1>1 DEF OwnedPlaces, OwnedUses
  <1> QED
    BY <1>2 DEF Owned

LEMMA CountIsTotal ==
  ASSUME Shaped, NEW S, NEW k \in Keys(engine),
         \A h \in Handles(engine) : h \in S <=> Key(engine, h) = k, NoHandle \notin S
  PROVE  Count(S) = Total(k) /\ PlacesOf(classes, S) = Number(engine, classes, k)
  <1>1. /\ frames \in Seq(FrameSet(engine)) /\ payload \in [Fields -> Maybe(engine)]
        /\ functions \in [Halves -> Maybe(engine)] /\ host \in Seq(Handles(engine)) /\ classes \in Seq(Handles(engine))
    BY ShapedPlaces
  <1>2. \A h \in Maybe(engine) : h \in S <=> Key(engine, h) = k
    BY NoKey DEF Maybe
  <1>3. PlacesOf(payload, S) = Number(engine, payload, k)
    <2>1. \A x \in DOMAIN payload : payload[x] \in S <=> Key(engine, payload[x]) = k
      BY <1>1, <1>2
    <2> QED
      BY <2>1, PlacesAreUses
  <1>4. PlacesOf(functions, S) = Number(engine, functions, k)
    <2>1. \A x \in DOMAIN functions : functions[x] \in S <=> Key(engine, functions[x]) = k
      BY <1>1, <1>2
    <2> QED
      BY <2>1, PlacesAreUses
  <1>5. PlacesOf(host, S) = Number(engine, host, k)
    <2>1. \A x \in DOMAIN host : host[x] \in S <=> Key(engine, host[x]) = k
      BY <1>1
    <2> QED
      BY <2>1, PlacesAreUses
  <1>6. PlacesOf(classes, S) = Number(engine, classes, k)
    <2>1. \A x \in DOMAIN classes : classes[x] \in S <=> Key(engine, classes[x]) = k
      BY <1>1
    <2> QED
      BY <2>1, PlacesAreUses
  <1>7. Cardinality(OwnedPlaces(S)) = Owned(engine, frames, k)
    <2>1. \A i \in DOMAIN frames : \A j \in DOMAIN frames[i].owned : frames[i].owned[j] \in Handles(engine)
      BY <1>1, FramesShape, FrameShape
    <2>2. \A i \in DOMAIN frames : \A j \in DOMAIN frames[i].owned :
            frames[i].owned[j] \in S <=> Key(engine, frames[i].owned[j]) = k
      BY <2>1
    <2> QED
      BY <2>2, OwnedAreUses
  <1> QED
    BY <1>3, <1>4, <1>5, <1>6, <1>7 DEF Count, Total

LEMMA BoaBalanced ==
  ASSUME IInv, Rooting, engine = "boa", NEW i \in DOMAIN store.slots
  PROVE  /\ store.slots[i].cell = None <=> store.slots[i].refs = 0
         /\ store.slots[i].refs = Count(ToSlot(i)) + PlacesOf(classes, ToSlot(i)) + TrampolineHeld(store.slots[i].cell)
  <1>1. Shaped /\ Balanced /\ Framed /\ Roots /\ Store("boa", store)
    BY DEF IInv, Balanced, Roots
  <1>2. /\ store.slots[i].cell = None <=> store.slots[i].refs = 0
        /\ i \in Nat \ {0} /\ store.slots[i].refs \in Nat
    <2>1. Len(store.slots) \in Nat /\ DOMAIN store.slots = 1 .. Len(store.slots)
      BY <1>1, BoaShape
    <2> QED
      BY <1>1, <2>1, BoaShape
  <1>3. Weight("boa", store, i) = store.slots[i].refs /\ i \in Keys("boa")
    BY <1>2 DEF Weight, Keys
  <1>4. Count(ToSlot(i)) = Total(i) /\ PlacesOf(classes, ToSlot(i)) = Number("boa", classes, i)
    <2>1. \A h \in Handles("boa") : h \in ToSlot(i) <=> Key("boa", h) = i
      BY <1>2 DEF Handles, ToSlot, Key
    <2>2. NoHandle \notin ToSlot(i)
      BY <1>2 DEF NoHandle, ToSlot
    <2> QED
      BY <1>1, <1>3, <2>1, <2>2, CountIsTotal
  <1>5. TrampolineHeld(store.slots[i].cell) = IF i = 1 THEN 1 ELSE 0
    <2>1. store.slots[i].cell = Trampoline => i = 1
      BY <1>1 DEF Balanced, BoaOnly
    <2>2. Valid("boa", store, [of |-> Trampoline, ref |-> 1])
      BY <1>1 DEF Balanced, AllValid, AllIn, TrampolineIn
    <2>3. store.slots[1].cell = Trampoline
      BY <2>2 DEF Valid
    <2>4. phase \notin {"tearing", "enqueued", "mopping"}
      BY <1>1 DEF Framed, PhasesOf
    <2> QED
      BY <2>1, <2>3, <2>4 DEF TrampolineHeld
  <1>6. Weight("boa", store, i) = Total(i) + Extra(i)
    BY <1>1, <1>3 DEF Balanced, Weighed, Exact
  <1>7. Extra(i) = Number("boa", classes, i) + (IF i = 1 THEN 1 ELSE 0)
    BY DEF Extra
  <1>8. Total(i) \in Nat /\ Number("boa", classes, i) \in Nat
    BY <1>1, <1>3, WeightCovers, ShapedPlaces, TotalsNat
  <1> QED
    BY <1>2, <1>3, <1>4, <1>5, <1>6, <1>7, <1>8

LEMMA JscBalanced ==
  ASSUME IInv, Rooting, engine = "jsc", NEW c \in Cells
  PROVE  /\ ~store.tearing => store.protected[c] = Count({J!Pointer(c)}) + TrampolineHeld(c)
                                                     + store.deferred[c] + finalizing[c] + passed[c]
         /\ store.methods[c] = IF c = Prototype THEN Len(classes) ELSE 0
  <1>1. Shaped /\ Balanced /\ Roots
    BY DEF IInv, Roots
  <1>2. store.methods[c] = IF c = Prototype THEN Len(classes) ELSE 0
    BY <1>1 DEF Balanced, JscOnly
  <1>3. Count({J!Pointer(c)}) = Total(c)
    <2>1. ASSUME NEW h \in Handles("jsc")
          PROVE  h \in {J!Pointer(c)} <=> Key("jsc", h) = c
      <3>1. h = [of |-> h.of, ref |-> h.ref] /\ h.ref = 0
        BY DEF Handles
      <3> QED
        BY <3>1 DEF J!Pointer, Key
    <2>2. NoHandle \notin {J!Pointer(c)}
      BY EnginesAssumption DEF NoHandle, J!Pointer
    <2>3. c \in Keys("jsc")
      BY DEF Keys
    <2> QED
      BY <1>1, <2>1, <2>2, <2>3, CountIsTotal
  <1>4. ASSUME ~store.tearing
        PROVE  store.protected[c] = Total(c) + (TrampolineHeld(c) + store.deferred[c] + finalizing[c] + passed[c])
    BY <1>1, <1>4 DEF Balanced, Weighed, Exact, Extra, Weight, Keys
  <1>5. /\ Total(c) \in Nat /\ store.deferred[c] \in Nat /\ finalizing[c] \in Nat /\ passed[c] \in Nat
        /\ TrampolineHeld(c) \in Nat
    BY <1>1, DeferredCovered
  <1> QED
    BY <1>2, <1>3, <1>4, <1>5

LEMMA MockIsBalanced ==
  ASSUME IInv, engine = "mock"
  PROVE  /\ ~store.panicked
         /\ \A c \in Cells : store.dups[c] = PlacesOf(payload, {M!Canonical(c)})
         /\ Cardinality(store.aliases) = Cardinality(OwnedPlaces([of : Cells, ref : 1 .. MaxAliases]))
  <1>1. Shaped /\ MockOnly /\ MockScopes(store.aliases, frames) /\ MockStore(store)
    BY DEF IInv, MockOnly, Balanced, Store
  <1>2. ASSUME NEW c \in Cells
        PROVE  store.dups[c] = PlacesOf(payload, {M!Canonical(c)})
    <2>1. ASSUME NEW x \in DOMAIN payload
          PROVE  payload[x] \in {M!Canonical(c)} <=> Key("mock", payload[x]) = c
      <3>1. x \in Fields /\ payload[x] \in PlainHandles("mock") \cup {NoHandle} /\ payload[x].ref = 0
        BY <1>1 DEF Shaped, MockOnly
      <3>2. payload[x] = [of |-> payload[x].of, ref |-> payload[x].ref]
        BY <3>1 DEF PlainHandles, Handles, NoHandle
      <3> QED
        BY <3>1, <3>2 DEF M!Canonical, Key
    <2>2. PlacesOf(payload, {M!Canonical(c)}) = Number("mock", payload, c)
      BY <2>1, PlacesAreUses
    <2> QED
      BY <1>1, <2>2 DEF MockOnly
  <1>3. Cardinality(store.aliases) = Cardinality(OwnedPlaces([of : Cells, ref : 1 .. MaxAliases]))
    <2> DEFINE O == OwnedPlaces([of : Cells, ref : 1 .. MaxAliases])
               f == [x \in O |-> frames[x[1]].owned[x[2]].ref]
    <2>1. frames \in Seq(FrameSet("mock"))
      BY <1>1 DEF Shaped
    <2>2. \A i \in DOMAIN frames : \A j \in DOMAIN frames[i].owned : frames[i].owned[j] \in Handles("mock")
      BY <2>1, FramesShape, FrameShape
    <2>3. store.aliases \subseteq 1 .. MaxAliases
      BY <1>1 DEF MockStore
    <2>4. ASSUME NEW i \in DOMAIN frames, NEW j \in DOMAIN frames[i].owned
          PROVE  frames[i].owned[j].ref \in store.aliases /\ frames[i].owned[j] \in [of : Cells, ref : 1 .. MaxAliases]
      <3>1. frames[i].owned[j].ref \in store.aliases
        BY <1>1 DEF MockScopes
      <3>2. /\ frames[i].owned[j] = [of |-> frames[i].owned[j].of, ref |-> frames[i].owned[j].ref]
            /\ frames[i].owned[j].of \in Cells
        BY <2>2 DEF Handles
      <3> QED
        BY <2>3, <3>1, <3>2
    <2>5. \A x : x \in O <=> \E i \in DOMAIN frames : \E j \in DOMAIN frames[i].owned : x = <<i, j>>
      BY <2>4 DEF OwnedPlaces
    <2>6. \A x \in O : x = <<x[1], x[2]>> /\ x[1] \in DOMAIN frames /\ x[2] \in DOMAIN frames[x[1]].owned
      BY <2>5
    <2> HIDE DEF O
    <2>7. f \in [O -> store.aliases]
      BY <2>4, <2>6
    <2>8. \A x, y \in O : f[x] = f[y] => x = y
      <3> SUFFICES ASSUME NEW x \in O, NEW y \in O, f[x] = f[y]
                   PROVE  x = y
        OBVIOUS
      <3>1. frames[x[1]].owned[x[2]].ref = frames[y[1]].owned[y[2]].ref
        OBVIOUS
      <3>2. x[1] = y[1] /\ x[2] = y[2]
        BY <1>1, <2>6, <3>1 DEF MockScopes
      <3> QED
        BY <2>6, <3>2
    <2>9. \A n \in store.aliases : \E x \in O : f[x] = n
      <3> SUFFICES ASSUME NEW n \in store.aliases
                   PROVE  \E x \in O : f[x] = n
        OBVIOUS
      <3>1. PICK i \in DOMAIN frames : \E j \in DOMAIN frames[i].owned : frames[i].owned[j].ref = n
        BY <1>1 DEF MockScopes
      <3>2. PICK j \in DOMAIN frames[i].owned : frames[i].owned[j].ref = n
        BY <3>1
      <3>3. <<i, j>> \in O
        BY <2>5
      <3>4. f[<<i, j>>] = n
        BY <3>2, <3>3
      <3> QED
        BY <3>3, <3>4
    <2> HIDE DEF f
    <2>10. f \in Bijection(O, store.aliases)
      BY <2>7, <2>8, <2>9 DEF Bijection, Injection, Surjection, IsInjective
    <2>11. IsFiniteSet(store.aliases)
      <3>1. IsFiniteSet(1 .. MaxAliases)
        BY EnginesAssumption, FS_Interval
      <3> QED
        BY <2>3, <3>1, FS_Subset
    <2>12. ExistsBijection(O, store.aliases)
      BY <2>10 DEF ExistsBijection
    <2>13. ExistsBijection(store.aliases, O)
      BY <2>12, Fun_ExistsBijSymmetric
    <2> QED
      BY <2>11, <2>13, FS_Bijection DEF O
  <1> QED
    BY <1>1, <1>2, <1>3 DEF MockOnly

(* In each engine the roots that are counted are the holders there are:    *)
(* slot by slot in Boa's arena, cell by cell in JavaScriptCore's ledger    *)
(* until the flag is up, alias by alias in the mock.  Nothing leaks before *)
(* the drop and nothing is given back twice.                               *)
THEOREM RootsAreHolders == Spec => []RootsBalanced
  <1>1. IInv => RootsBalanced
    <2> SUFFICES ASSUME IInv, Rooting
                 PROVE  CASE engine = "boa" ->
                               \A i \in DOMAIN store.slots :
                                 /\ store.slots[i].cell = None <=> store.slots[i].refs = 0
                                 /\ store.slots[i].refs = Count(ToSlot(i)) + PlacesOf(classes, ToSlot(i))
                                                            + TrampolineHeld(store.slots[i].cell)
                          [] engine = "jsc" ->
                               \A c \in Cells :
                                 /\ ~store.tearing =>
                                      store.protected[c] = Count({J!Pointer(c)}) + TrampolineHeld(c)
                                                             + store.deferred[c] + finalizing[c] + passed[c]
                                 /\ store.methods[c] = IF c = Prototype THEN Len(classes) ELSE 0
                          [] engine = "mock" ->
                               /\ ~store.panicked
                               /\ \A c \in Cells : store.dups[c] = PlacesOf(payload, {M!Canonical(c)})
                               /\ Cardinality(store.aliases) = Cardinality(OwnedPlaces([of : Cells, ref : 1 .. MaxAliases]))
      BY DEF RootsBalanced
    <2>1. engine \in {"boa", "jsc", "mock"}
      BY DEF IInv, Shaped
    <2>2. CASE engine = "boa"
      BY <2>2, BoaBalanced
    <2>3. CASE engine = "jsc"
      BY <2>3, JscBalanced
    <2>4. CASE engine = "mock"
      BY <2>4, MockIsBalanced
    <2> QED
      BY <2>1, <2>2, <2>3, <2>4
  <1> QED
    BY <1>1, AllInv, PTL

(***************************************************************************)
(* The drop.                                                               *)
(***************************************************************************)
(* What JavaScriptCore still protects when it mops up are objects: the     *)
(* functions of promises, the trampoline and the prototypes are given back.*)
LEMMA OnlyObjectsLeft ==
  ASSUME IInv, phase = "mopping", NEW c \in Cells \ Objects
  PROVE  store.protected[c] = 0
  <1>1. Shaped /\ Balanced /\ engine = "jsc" /\ frames = <<>> /\ Roots
    BY DEF IInv, Shaped, Framed, PhasesOf, Roots, Rooting
  <1>2. Owned("jsc", frames, c) = 0
    BY <1>1, OwnedByNone
  <1>3. Number("jsc", payload, c) = 0
    <2>1. \A x \in DOMAIN payload : payload[x] \in PlainHandles("jsc") \cup {NoHandle}
      BY <1>1 DEF Shaped
    <2>2. \A x \in DOMAIN payload : payload[x].of # c
      BY <2>1, EnginesAssumption DEF PlainHandles, NoHandle, Objects
    <2>3. Uses("jsc", payload, c) = {}
      BY <2>2 DEF Uses, Key
    <2> QED
      BY <2>3, FS_EmptySet DEF Number
  <1>4. Number("jsc", host, c) = 0
    <2>1. \A x \in DOMAIN host : host[x] \in ObjectHandles("jsc")
      BY <1>1 DEF Shaped
    <2>2. \A x \in DOMAIN host : host[x].of # c
      BY <2>1 DEF ObjectHandles
    <2>3. Uses("jsc", host, c) = {}
      BY <2>2 DEF Uses, Key
    <2> QED
      BY <2>3, FS_EmptySet DEF Number
  <1>5. Number("jsc", functions, c) = 0
    <2>1. DOMAIN functions = Halves /\ deferred \in [Promises -> Places]
      BY <1>1 DEF Shaped
    <2>2. DOMAIN batch = {}
      BY <1>1 DEF IInv, Batched
    <2>3. \A p \in Promises : deferred[p] # "request" /\ deferred[p] # "queue" /\ deferred[p] # "batch"
      BY <1>1, <2>2 DEF IInv, Kept, Batched
    <2>4. \A p \in Promises : deferred[p] \in {"none", "settled", "released"}
      BY <2>1, <2>3 DEF Places
    <2>5. \A x \in Halves : functions[x] = NoHandle
      BY <2>4 DEF IInv, Kept, Halves
    <2>6. c \in Keys("jsc")
      BY DEF Keys
    <2> QED
      BY <2>1, <2>5, <2>6, NumberOfEmpty
  <1>6. TrampolineHeld(c) = 0 /\ store.deferred[c] = 0 /\ finalizing[c] = 0 /\ passed[c] = 0
    BY <1>1 DEF TrampolineHeld, Balanced, JscOnly
  <1>7. Weight("jsc", store, c) = Total(c) + Extra(c)
    BY <1>1 DEF Balanced, Weighed, Exact, Keys
  <1>8. Total(c) = 0 /\ Extra(c) = 0
    BY <1>1, <1>2, <1>3, <1>4, <1>5, <1>6 DEF Total, Extra
  <1> QED
    BY <1>1, <1>7, <1>8 DEF Weight

LEMMA NothingLeft ==
  ASSUME IInv, phase = "done"
  PROVE  /\ engine # "mock" => \A x \in Halves : functions[x] = NoHandle
         /\ engine = "boa" => B!Rooted(store) \subseteq {None}
         /\ engine = "jsc" => J!Rooted(store) = {}
         /\ engine = "mock" => ~store.panicked
  <1>1. ~Rooting
    BY DEF Rooting
  <1>2. ASSUME engine # "mock", NEW x \in Halves
        PROVE  functions[x] = NoHandle
    <2>1. engine \in {"boa", "jsc"} /\ frames = <<>> /\ deferred \in [Promises -> Places] /\ x[1] \in Promises
      BY <1>2 DEF IInv, Shaped, Framed, Halves
    <2>2. DOMAIN batch = {}
      BY <2>1 DEF IInv, Batched
    <2>3. deferred[x[1]] # "request" /\ deferred[x[1]] # "queue" /\ deferred[x[1]] # "batch"
      BY <2>1, <2>2 DEF IInv, Kept, Batched
    <2>4. deferred[x[1]] \in {"none", "settled", "released"}
      BY <2>1, <2>3 DEF Places
    <2> QED
      BY <2>4 DEF IInv, Kept
  <1>3. engine = "boa" => B!Rooted(store) \subseteq {None}
    BY <1>1 DEF IInv, Balanced, BoaOnly, B!Rooted
  <1>4. ASSUME engine = "jsc"
        PROVE  J!Rooted(store) = {}
    <2>1. \A c \in Cells : store.methods[c] = 0 /\ store.protected[c] = 0
      BY <1>1, <1>4 DEF IInv, Balanced, JscOnly
    <2>2. \A c \in Cells : ~(store.protected[c] + store.methods[c] > 0)
      BY <2>1
    <2> QED
      BY <2>2 DEF J!Rooted
  <1>5. engine = "mock" => ~store.panicked
    BY DEF IInv, MockOnly
  <1> QED
    BY <1>2, <1>3, <1>4, <1>5

\* Once the mock's runtime is gone its payloads are empty.
Emptiness == engine = "mock" /\ phase = "done" => \A x \in Fields : payload[x] = NoHandle

(* Only a drop ends in "done", and nothing writes to a payload after it.   *)
LEMMA EndsOnce ==
  ASSUME IInv, [Next]_vars
  PROVE  \/ UNCHANGED <<engine, phase, payload>>
         \/ phase' # "done" \/ DropMock \/ DropContext
  <1>1. ASSUME NEW w \in Wrappers, CallMethod(w) \/ \E a \in Plain : CallSetter(w, a)
        PROVE  phase' # "done"
    BY <1>1 DEF CallMethod, CallSetter, Call, ScriptRuns, heap
  <1>2. ASSUME NEW c \in Objects, LookUp(c) \/ NewInstance(c) \/ MakeAttribute(c)
        PROVE  phase' # "done"
    BY <1>2 DEF LookUp, NewInstance, MakeAttribute, InCall
  <1>3. ASSUME NEW c \in Objects, Forget(c) \/ Collect(c) \/ Eval(c)
        PROVE  phase' # "done"
    BY <1>3 DEF Forget, Collect, Eval, heap
  <1>4. CASE SetHandler \/ ClearHandler \/ ReadAttribute \/ RegisterClass
    BY <1>4 DEF SetHandler, ClearHandler, ReadAttribute, RegisterClass, InCall, heap
  <1>5. ASSUME NEW p \in Promises, NewPromise(p) \/ Answer(p)
        PROVE  phase' # "done"
    BY <1>5 DEF NewPromise, Answer, InCall, InTick, heap
  <1>6. ASSUME NEW p \in Promises, NEW c \in Objects, NEW fails \in BOOLEAN, NEW bare \in BOOLEAN,
         Prepare(p, c, fails, bare)
        PROVE  phase' # "done"
    BY <1>6 DEF Prepare, InTick
  <1>7. ASSUME NEW h, Return(h)
        PROVE  phase' # "done"
    BY <1>7 DEF Return, InCall
  <1>8. ASSUME NEW reached, Settle(reached)
        PROVE  phase' # "done"
    BY <1>8 DEF Settle, InTick
  <1>9. CASE BeginTick \/ StartDrain \/ Settled \/ EndTick
    BY <1>9 DEF BeginTick, StartDrain, Settled, EndTick, InTick, heap
  <1>10. CASE SetGlobal \/ DrainReleases
    BY <1>10 DEF SetGlobal, DrainReleases, heap
  <1>11. ASSUME NEW c \in Cells, DeferChecks(c) \/ DeferEnqueues(c)
         PROVE  UNCHANGED <<engine, phase, payload>>
    BY <1>11 DEF DeferChecks, DeferEnqueues, heap
  <1>12. CASE BeginDrop \/ ReleaseOutstanding \/ ReleasePending \/ ReleaseTrampoline \/ StoreTearing
    BY <1>12 DEF BeginDrop, ReleaseOutstanding, ReleasePending, ReleaseTrampoline, StoreTearing, To
  <1>13. CASE DrainEnqueued \/ MopUp \/ ClearSlots
    BY <1>13 DEF DrainEnqueued, MopUp, ClearSlots, To
  <1>14. CASE UNCHANGED vars
    BY <1>14 DEF vars
  <1>15. CASE \E w \in Wrappers : CallMethod(w) \/ \E a \in Plain : CallSetter(w, a)
    BY <1>1, <1>15
  <1>16. CASE \E c \in Objects : LookUp(c) \/ NewInstance(c) \/ MakeAttribute(c) \/ Forget(c) \/ Collect(c) \/ Eval(c)
    BY <1>2, <1>3, <1>16
  <1>17. CASE \E p \in Promises : NewPromise(p) \/ Answer(p) \/ \E c \in Objects, fails, bare \in BOOLEAN : Prepare(p, c, fails, bare)
    BY <1>5, <1>6, <1>17
  <1>18. CASE \E h \in Range(Top.owned) \cup {Top.result, NoHandle} : Return(h)
    BY <1>7, <1>18
  <1>19. CASE \E reached \in SUBSET DOMAIN batch : Settle(reached)
    BY <1>8, <1>19
  <1>20. CASE \E c \in Cells : DeferChecks(c) \/ DeferEnqueues(c)
    BY <1>11, <1>20
  <1> QED
    BY <1>4, <1>9, <1>10, <1>12, <1>13, <1>14, <1>15, <1>16, <1>17, <1>18, <1>19, <1>20 DEF Next

(* The drop touches no request that is gone and leaves no root behind:     *)
(* before JavaScriptCore undoes by force what is left, only objects are    *)
(* protected, and at the end no engine holds anything.                     *)
THEOREM DropIsClean == Spec => []TeardownClean
  <1>1. Init => Emptiness
    BY DEF Init, Emptiness
  <1>2. IInv /\ Emptiness /\ [Next]_vars => Emptiness'
    <2> SUFFICES ASSUME IInv, Emptiness, [Next]_vars, engine' = "mock", phase' = "done"
                 PROVE  \A x \in Fields : payload'[x] = NoHandle
      BY DEF Emptiness
    <2>1. CASE UNCHANGED <<engine, phase, payload>>
      BY <2>1 DEF Emptiness
    <2>2. CASE DropMock \/ DropContext
      <3>1. payload' = Emptied(Wrappers)
        BY <2>2 DEF DropMock, DropContext, Finalizes
      <3> QED
        BY <3>1 DEF Emptied, Fields
    <2> QED
      BY <2>1, <2>2, EndsOnce
  <1>3. IInv /\ Emptiness => TeardownClean
    <2> SUFFICES ASSUME IInv, Emptiness
                 PROVE  TeardownClean
      OBVIOUS
    <2>1. ~dangling
      BY DEF IInv, Kept
    <2>2. phase = "mopping" => \A c \in Cells : store.protected[c] > 0 => c \in Objects
      <3> SUFFICES ASSUME phase = "mopping", NEW c \in Cells, c \notin Objects
                   PROVE  ~(store.protected[c] > 0)
        OBVIOUS
      <3>1. store.protected[c] = 0
        BY OnlyObjectsLeft
      <3> QED
        BY <3>1
    <2>3. ASSUME phase = "done", engine = "mock", NEW c \in Cells
          PROVE  store.dups[c] = 0
      <3>1. \A x \in DOMAIN payload : payload[x] = NoHandle
        BY <2>3 DEF Emptiness, IInv, Shaped
      <3>2. c \in Keys("mock")
        BY DEF Keys
      <3>3. Number("mock", payload, c) = 0
        BY <3>1, <3>2, NumberOfEmpty
      <3> QED
        BY <2>3, <3>3 DEF IInv, MockOnly
    <2>4. ASSUME phase = "done"
          PROVE  /\ engine # "mock" => \A x \in Halves : functions[x] = NoHandle
                 /\ CASE engine = "boa" -> B!Rooted(store) \subseteq {None} [] engine = "jsc" -> J!Rooted(store) = {}
                      [] engine = "mock" -> ~store.panicked /\ \A c \in Cells : store.dups[c] = 0
      <3>1. engine \in {"boa", "jsc", "mock"}
        BY DEF IInv, Shaped
      <3> QED
        BY <2>3, <2>4, <3>1, NothingLeft
    <2> QED
      BY <2>1, <2>2, <2>4 DEF TeardownClean
  <1> QED
    BY <1>1, <1>2, <1>3, AllInv, PTL DEF Spec

(***************************************************************************)
(* A cached attribute is one object.                                       *)
(***************************************************************************)
LEMMA AttributeStays ==
  ASSUME IInv, [Next]_vars, NEW w \in Wrappers, payload[<<w, "attribute">>] # NoHandle, w \in live'
  PROVE  payload'[<<w, "attribute">>] = payload[<<w, "attribute">>]
  <1> DEFINE x == <<w, "attribute">>
  <1>1. x \in Fields /\ DOMAIN payload = Fields /\ x[1] = w /\ x[2] = "attribute"
    BY DEF Fields, IInv, Shaped
  <1>2. ASSUME NEW v \in Wrappers, CallMethod(v) \/ \E a \in Plain : CallSetter(v, a)
        PROVE  payload' = payload
    BY <1>2 DEF CallMethod, CallSetter, Call
  <1>3. ASSUME NEW c \in Objects, LookUp(c) \/ NewInstance(c) \/ Forget(c) \/ Eval(c)
        PROVE  payload' = payload
    BY <1>3 DEF LookUp, NewInstance, Forget, Eval
  <1>4. ASSUME NEW c \in Objects, MakeAttribute(c)
        PROVE  payload'[x] = payload[x]
    <2>1. CASE payload[Attribute] = NoHandle
      <3>1. payload' = [payload EXCEPT ![Attribute] = Duplicated(Made(store, c).handle)]
        BY <1>4, <2>1 DEF MakeAttribute
      <3>2. x # Attribute
        BY <2>1
      <3> QED
        BY <1>1, <3>1, <3>2
    <2>2. CASE payload[Attribute] # NoHandle
      BY <1>4, <2>2 DEF MakeAttribute
    <2> QED
      BY <2>1, <2>2
  <1>5. ASSUME NEW c \in Objects, Collect(c)
        PROVE  payload'[x] = payload[x]
    <2>1. w # c
      BY <1>5 DEF Collect
    <2> QED
      BY <1>1, <1>5, <2>1 DEF Collect, Finalizes, Emptied
  <1>6. CASE SetHandler \/ ClearHandler
    <2>1. x # Handler
      BY DEF Handler
    <2> QED
      BY <1>1, <1>6, <2>1 DEF SetHandler, ClearHandler
  <1>7. CASE ReadAttribute \/ RegisterClass \/ BeginTick \/ StartDrain \/ Settled \/ EndTick \/ SetGlobal \/ DrainReleases
    BY <1>7 DEF ReadAttribute, RegisterClass, BeginTick, StartDrain, Settled, EndTick, SetGlobal, DrainReleases
  <1>8. ASSUME NEW p \in Promises, NewPromise(p) \/ Answer(p)
        PROVE  payload' = payload
    BY <1>8 DEF NewPromise, Answer
  <1>9. ASSUME NEW p \in Promises, NEW c \in Objects, NEW fails \in BOOLEAN, NEW bare \in BOOLEAN,
         Prepare(p, c, fails, bare)
        PROVE  payload' = payload
    BY <1>9 DEF Prepare
  <1>10. ASSUME NEW h, Return(h)
         PROVE  payload' = payload
    BY <1>10 DEF Return
  <1>11. ASSUME NEW reached, Settle(reached)
         PROVE  payload' = payload
    BY <1>11 DEF Settle
  <1>12. ASSUME NEW c \in Cells, DeferChecks(c) \/ DeferEnqueues(c)
         PROVE  payload' = payload
    BY <1>12 DEF DeferChecks, DeferEnqueues
  <1>13. CASE ReleasePending
    BY <1>1, <1>13 DEF ReleasePending, Handlers
  <1>14. CASE BeginDrop \/ ReleaseOutstanding \/ ReleaseTrampoline \/ StoreTearing \/ DrainEnqueued \/ MopUp \/ ClearSlots
    BY <1>14 DEF BeginDrop, ReleaseOutstanding, ReleaseTrampoline, StoreTearing, DrainEnqueued, MopUp, ClearSlots
  <1>15. CASE DropContext \/ DropMock
    BY <1>15 DEF DropContext, DropMock
  <1>16. CASE UNCHANGED vars
    BY <1>16 DEF vars
  <1>17. CASE \E v \in Wrappers : CallMethod(v) \/ \E a \in Plain : CallSetter(v, a)
    BY <1>2, <1>17
  <1>18. CASE \E c \in Objects : LookUp(c) \/ NewInstance(c) \/ MakeAttribute(c) \/ Forget(c) \/ Collect(c) \/ Eval(c)
    BY <1>3, <1>4, <1>5, <1>18
  <1>19. CASE \E p \in Promises : NewPromise(p) \/ Answer(p) \/ \E c \in Objects, fails, bare \in BOOLEAN : Prepare(p, c, fails, bare)
    BY <1>8, <1>9, <1>19
  <1>20. CASE \E h \in Range(Top.owned) \cup {Top.result, NoHandle} : Return(h)
    BY <1>10, <1>20
  <1>21. CASE \E reached \in SUBSET DOMAIN batch : Settle(reached)
    BY <1>11, <1>21
  <1>22. CASE \E c \in Cells : DeferChecks(c) \/ DeferEnqueues(c)
    BY <1>12, <1>22
  <1> QED
    BY <1>6, <1>7, <1>13, <1>14, <1>15, <1>16, <1>17, <1>18, <1>19, <1>20, <1>21, <1>22 DEF Next

(* A cached attribute is the same object for as long as its wrapper lives, *)
(* however many getters of it are nested, in each engine.                  *)
THEOREM AttributeIsOne == Spec => SameObject
  <1>1. IInv /\ [Next]_vars =>
          \A w \in Wrappers : payload[<<w, "attribute">>] # NoHandle /\ w \in live'
                                => payload'[<<w, "attribute">>] = payload[<<w, "attribute">>]
    BY AttributeStays
  <1> QED
    BY <1>1, AllInv, PTL DEF Spec, SameObject

=============================================================================
