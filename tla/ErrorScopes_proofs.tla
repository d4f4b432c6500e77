------------------------- MODULE ErrorScopes_proofs -------------------------
(***************************************************************************)
(* Proofs about ErrorScopes, and about the EventTarget it extends, for any *)
(* callbacks, event types, errors, pops and bounds.                        *)
(***************************************************************************)
EXTENDS ErrorScopes, FiniteSetTheorems, WellFoundedInduction, TLAPS

(***************************************************************************)
(* The inductive invariant of the listeners.                               *)
(***************************************************************************)

(* Ids tell listeners apart; the handler's place is not a once-listener.   *)
ListShape ==
  /\ IsFiniteSet(listeners)
  /\ \A l, m \in listeners : l.id = m.id => l = m
  /\ \A l \in listeners :
       /\ l.id < nextId
       /\ l.once <=> l.id \in once
       /\ l.callback = None => ~l.once
  /\ \A i \in once : i < nextId

(* A dispatch makes one call at a time, which it has taken off its list.   *)
StackShape ==
  /\ IsFiniteSet(Unreturned)
  /\ \A i \in DOMAIN stack :
       /\ \A x, y \in stack[i].running : x = y
       /\ stack[i].running \cap stack[i].todo = {}
       /\ \A x \in stack[i].todo : x.id < nextId

(* A once-listener is on the list, or in one call of one dispatch, or has  *)
(* been called.                                                            *)
OnceServed ==
  /\ \A i \in DOMAIN called :
       /\ called[i] \in once
       /\ \A l \in listeners : l.id # called[i]
  /\ \A i \in DOMAIN stack : \A x \in stack[i].todo : x.id \in once =>
       /\ \A j \in DOMAIN called : called[j] # x.id
       /\ \A l \in listeners : l.id # x.id
       /\ \A j \in DOMAIN stack : \A y \in stack[j].todo : y.id = x.id => i = j /\ x = y

TargetShape == TargetTypeOK /\ ListShape /\ StackShape
TargetInv == TargetShape /\ OnceServed /\ ListenersServed

(***************************************************************************)
(* Counting the duplicates of a callback.                                  *)
(***************************************************************************)

LEMMA FrontOf ==
  ASSUME NEW S, NEW s \in Seq(S), s # <<>>
  PROVE  /\ Front(s) \in Seq(S) /\ Len(Front(s)) = Len(s) - 1 /\ Len(s) \in Nat \ {0}
         /\ DOMAIN s = DOMAIN Front(s) \cup {Len(s)} /\ Len(s) \notin DOMAIN Front(s)
         /\ \A i \in DOMAIN Front(s) : Front(s)[i] = s[i]
  <1>1. Len(s) \in Nat \ {0} /\ DOMAIN s = 1 .. Len(s) /\ \A i \in 1 .. Len(s) - 1 : s[i] \in S
    OBVIOUS
  <1>2. /\ Front(s) \in Seq(S) /\ Len(Front(s)) = Len(s) - 1
        /\ \A i \in 1 .. Len(s) - 1 : Front(s)[i] = s[i]
    BY <1>1 DEF Front
  <1> QED
    BY <1>1, <1>2

LEMMA DisjointCount ==
  ASSUME NEW S, IsFiniteSet(S), NEW T, IsFiniteSet(T), S \cap T = {}
  PROVE  Cardinality(S \cup T) = Cardinality(S) + Cardinality(T)
  <1>1. Cardinality(S \cup T) = Cardinality(S) + Cardinality(T) - Cardinality(S \cap T)
    BY FS_Union
  <1>2. Cardinality(S \cap T) = 0 /\ Cardinality(S) \in Nat /\ Cardinality(T) \in Nat
    BY FS_EmptySet, FS_CardinalityType
  <1> QED
    BY <1>1, <1>2

(* A part of a finite set of items is counted by a natural number.         *)
LEMMA HeldIsNat ==
  ASSUME NEW S, IsFiniteSet(S), NEW c
  PROVE  IsFiniteSet({x \in S : x.callback = c}) /\ HeldBy(S, c) \in Nat
  <1>1. IsFiniteSet({x \in S : x.callback = c})
    BY FS_Subset
  <1> QED
    BY <1>1, FS_CardinalityType DEF HeldBy

LEMMA HeldByNone ==
  ASSUME NEW S, NEW c, \A x \in S : x.callback # c
  PROVE  HeldBy(S, c) = 0
  <1>1. {x \in S : x.callback = c} = {}
    OBVIOUS
  <1> QED
    BY <1>1, FS_EmptySet DEF HeldBy

(* An item that joins adds one to the count of its callback.               *)
LEMMA HeldByAdd ==
  ASSUME NEW S, IsFiniteSet(S), NEW x, x \notin S, NEW c
  PROVE  HeldBy(S \cup {x}, c) = HeldBy(S, c) + (IF x.callback = c THEN 1 ELSE 0)
  <1> DEFINE T == {y \in S : y.callback = c}
  <1>1. IsFiniteSet(T) /\ HeldBy(S, c) = Cardinality(T) /\ x \notin T /\ HeldBy(S, c) \in Nat
    BY HeldIsNat DEF HeldBy
  <1>2. CASE x.callback = c
    <2>1. {y \in S \cup {x} : y.callback = c} = T \cup {x}
      BY <1>2
    <2>2. Cardinality(T \cup {x}) = Cardinality(T) + 1
      BY <1>1, FS_AddElement
    <2>3. HeldBy(S \cup {x}, c) = HeldBy(S, c) + 1
      BY <1>1, <2>1, <2>2 DEF HeldBy
    <2> QED
      BY <1>2, <2>3
  <1>3. CASE x.callback # c
    <2>1. {y \in S \cup {x} : y.callback = c} = T
      BY <1>3
    <2>2. HeldBy(S \cup {x}, c) = HeldBy(S, c)
      BY <1>1, <2>1 DEF HeldBy
    <2> QED
      BY <1>1, <1>3, <2>2
  <1> QED
    BY <1>2, <1>3

(* Items that leave take their duplicates with them.                       *)
LEMMA HeldByWithout ==
  ASSUME NEW S, IsFiniteSet(S), NEW T, T \subseteq S, NEW c
  PROVE  HeldBy(S \ T, c) = HeldBy(S, c) - HeldBy(T, c)
  <1> DEFINE A == {y \in S \ T : y.callback = c}
             B == {y \in T : y.callback = c}
  <1>1. IsFiniteSet(T) /\ IsFiniteSet(S \ T)
    BY FS_Subset
  <1>2. IsFiniteSet(A) /\ IsFiniteSet(B) /\ Cardinality(A) \in Nat /\ Cardinality(B) \in Nat
    BY <1>1, HeldIsNat DEF HeldBy
  <1>3. A \cup B = {y \in S : y.callback = c} /\ A \cap B = {}
    OBVIOUS
  <1>4. Cardinality(A \cup B) = Cardinality(A) + Cardinality(B) - Cardinality(A \cap B)
    BY <1>2, FS_Union
  <1>5. Cardinality(A \cap B) = 0
    BY <1>3, FS_EmptySet
  <1>6. HeldBy(S, c) = Cardinality(A \cup B)
    BY <1>3 DEF HeldBy
  <1>7. HeldBy(S \ T, c) = Cardinality(A) /\ HeldBy(T, c) = Cardinality(B)
    BY DEF HeldBy
  <1> QED
    BY <1>2, <1>4, <1>5, <1>6, <1>7

LEMMA HeldByOne ==
  ASSUME NEW x, NEW c
  PROVE  HeldBy({x}, c) = IF x.callback = c THEN 1 ELSE 0
  <1>1. IsFiniteSet({}) /\ HeldBy({}, c) = 0 /\ {} \cup {x} = {x} /\ x \notin {}
    BY FS_EmptySet, HeldByNone
  <1> QED
    BY <1>1, HeldByAdd

(***************************************************************************)
(* Calls under way.                                                        *)
(***************************************************************************)
LEMMA WaitingIsNat ==
  ASSUME NEW U, IsFiniteSet(U), NEW c
  PROVE  /\ IsFiniteSet({w \in U : w[2].callback = c})
         /\ Cardinality({w \in U : w[2].callback = c}) \in Nat
  <1>1. IsFiniteSet({w \in U : w[2].callback = c})
    BY FS_Subset
  <1> QED
    BY <1>1, FS_CardinalityType

(* Counts that agree with what needs a callback are natural numbers.       *)
LEMMA RefsTyped ==
  ASSUME IsFiniteSet(listeners'), IsFiniteSet(Unreturned'), CallbacksHeld',
         refs' = [c \in Callbacks |-> refs'[c]]
  PROVE  refs' \in [Callbacks -> Nat]
  <1>1. ASSUME NEW c \in Callbacks
        PROVE  refs'[c] \in Nat
    <2>1. HeldBy(listeners', c) \in Nat
      BY HeldIsNat
    <2>2. Waiting(c)' \in Nat
      BY WaitingIsNat DEF Waiting
    <2>3. refs'[c] = HeldBy(listeners', c) + (IF handler' = c THEN 1 ELSE 0) + Waiting(c)'
      BY DEF CallbacksHeld
    <2> QED
      BY <2>1, <2>2, <2>3
  <1> QED
    BY <1>1

(* A dispatch that begins has all of its calls to make.                    *)
LEMMA WaitingBegin ==
  ASSUME stack \in Seq(Frame), IsFiniteSet(Unreturned), NEW made, IsFiniteSet(made),
         stack' = Append(stack, [todo |-> made, running |-> {}])
  PROVE  /\ IsFiniteSet(Unreturned')
         /\ \A c \in Callbacks : Waiting(c)' = Waiting(c) + HeldBy(made, c)
  <1> DEFINE n == Len(stack) + 1
  <1>1. /\ n \in Nat /\ DOMAIN stack = 1 .. Len(stack) /\ DOMAIN stack' = 1 .. n
        /\ \A i \in DOMAIN stack : stack'[i] = stack[i]
        /\ stack'[n] = [todo |-> made, running |-> {}]
        /\ n \in DOMAIN stack'
    OBVIOUS
  <1>2. Unreturned' = Unreturned \cup ({n} \X made)
    <2>1. ASSUME NEW w \in Unreturned'
          PROVE  w \in Unreturned \cup ({n} \X made)
      <3>1. PICK i \in DOMAIN stack' : w \in {i} \X (stack'[i].todo \cup stack'[i].running)
        BY <2>1 DEF Unreturned
      <3>2. CASE i = n
        BY <3>1, <3>2, <1>1
      <3>3. CASE i # n
        <4>1. i \in DOMAIN stack /\ stack'[i] = stack[i]
          BY <3>3, <1>1
        <4> QED
          BY <3>1, <4>1 DEF Unreturned
      <3> QED
        BY <3>2, <3>3
    <2>2. ASSUME NEW w \in Unreturned
          PROVE  w \in Unreturned'
      <3>1. PICK i \in DOMAIN stack : w \in {i} \X (stack[i].todo \cup stack[i].running)
        BY <2>2 DEF Unreturned
      <3>2. i \in DOMAIN stack' /\ stack'[i] = stack[i]
        BY <1>1
      <3> QED
        BY <3>1, <3>2 DEF Unreturned
    <2>3. ASSUME NEW w \in {n} \X made
          PROVE  w \in Unreturned'
      <3>1. w \in {n} \X (stack'[n].todo \cup stack'[n].running)
        BY <2>3, <1>1
      <3> QED
        BY <3>1, <1>1 DEF Unreturned
    <2> QED
      BY <2>1, <2>2, <2>3
  <1>3. IsFiniteSet({n}) /\ Cardinality({n}) = 1
    BY FS_Singleton
  <1>4. IsFiniteSet({n} \X made)
    BY <1>3, FS_Product
  <1>5. IsFiniteSet(Unreturned')
    BY <1>2, <1>4, FS_Union
  <1>6. ASSUME NEW c \in Callbacks
        PROVE  Waiting(c)' = Waiting(c) + HeldBy(made, c)
    <2> DEFINE A == {w \in Unreturned : w[2].callback = c}
               C == {x \in made : x.callback = c}
    <2>1. {w \in Unreturned' : w[2].callback = c} = A \cup ({n} \X C)
      BY <1>2
    <2>2. IsFiniteSet(A) /\ Cardinality(A) \in Nat /\ IsFiniteSet(C) /\ Cardinality(C) \in Nat
      BY WaitingIsNat, HeldIsNat DEF Waiting, HeldBy
    <2>3. IsFiniteSet({n} \X C) /\ Cardinality({n} \X C) = 1 * Cardinality(C)
      BY <1>3, <2>2, FS_Product
    <2>4. A \cap ({n} \X C) = {}
      <3>1. \A w \in Unreturned : w[1] \in DOMAIN stack
        BY DEF Unreturned
      <3>2. \A w \in {n} \X C : w[1] = n
        OBVIOUS
      <3>3. n \notin DOMAIN stack
        BY <1>1
      <3> QED
        BY <3>1, <3>2, <3>3
    <2>5. Cardinality(A \cup ({n} \X C)) = Cardinality(A) + Cardinality({n} \X C)
      <3> HIDE DEF A, C
      <3> QED
        BY <2>2, <2>3, <2>4, DisjointCount
    <2>6. Waiting(c)' = Cardinality(A \cup ({n} \X C))
      BY <2>1 DEF Waiting
    <2>7. Waiting(c) = Cardinality(A) /\ HeldBy(made, c) = Cardinality(C)
      BY DEF Waiting, HeldBy
    <2> QED
      BY <2>2, <2>3, <2>5, <2>6, <2>7
  <1> QED
    BY <1>5, <1>6

(* What a step of the innermost dispatch does to the made under way.      *)
LEMMA UnreturnedTop ==
  ASSUME stack \in Seq(Frame), stack # <<>>, NEW f, SetTop(f)
  PROVE  LET n == Len(stack)
         IN Unreturned' = {w \in Unreturned : w[1] # n} \cup ({n} \X (f.todo \cup f.running))
  <1> DEFINE n == Len(stack)
  <1>1. /\ n \in DOMAIN stack /\ DOMAIN stack' = DOMAIN stack /\ stack'[n] = f
        /\ \A i \in DOMAIN stack \ {n} : stack'[i] = stack[i]
    BY DEF SetTop
  <1> HIDE DEF n
  <1>2. ASSUME NEW w \in Unreturned'
        PROVE  w \in {v \in Unreturned : v[1] # n} \cup ({n} \X (f.todo \cup f.running))
    <2>1. PICK i \in DOMAIN stack : w \in {i} \X (stack'[i].todo \cup stack'[i].running)
      BY <1>1, <1>2 DEF Unreturned
    <2>2. CASE i = n
      BY <1>1, <2>1, <2>2
    <2>3. CASE i # n
      <3>1. w \in {i} \X (stack[i].todo \cup stack[i].running)
        BY <1>1, <2>1, <2>3
      <3>2. w \in Unreturned
        BY <3>1 DEF Unreturned
      <3>3. w[1] = i
        BY <3>1
      <3> QED
        BY <3>2, <3>3, <2>3
    <2> QED
      BY <2>2, <2>3
  <1>3. ASSUME NEW w \in {v \in Unreturned : v[1] # n}
        PROVE  w \in Unreturned'
    <2>1. PICK i \in DOMAIN stack : w \in {i} \X (stack[i].todo \cup stack[i].running)
      BY <1>3 DEF Unreturned
    <2>2. i # n
      BY <1>3, <2>1
    <2>3. w \in {i} \X (stack'[i].todo \cup stack'[i].running)
      BY <1>1, <2>1, <2>2
    <2> QED
      BY <1>1, <2>3 DEF Unreturned
  <1>4. ASSUME NEW w \in {n} \X (f.todo \cup f.running)
        PROVE  w \in Unreturned'
    <2>1. w \in {n} \X (stack'[n].todo \cup stack'[n].running)
      BY <1>1, <1>4
    <2> QED
      BY <1>1, <2>1 DEF Unreturned
  <1> QED
    BY <1>2, <1>3, <1>4 DEF n

(* The calls under way in the innermost dispatch.                          *)
LEMMA UnreturnedOfTop ==
  ASSUME stack \in Seq(Frame), stack # <<>>
  PROVE  LET n == Len(stack)
         IN {w \in Unreturned : w[1] = n} = {n} \X (Top.todo \cup Top.running)
  <1> DEFINE n == Len(stack)
  <1>1. n \in DOMAIN stack /\ Top = stack[n]
    BY DEF Top
  <1> HIDE DEF n
  <1>2. ASSUME NEW w \in Unreturned, w[1] = n
        PROVE  w \in {n} \X (Top.todo \cup Top.running)
    <2>1. PICK i \in DOMAIN stack : w \in {i} \X (stack[i].todo \cup stack[i].running)
      BY <1>2 DEF Unreturned
    <2> QED
      BY <1>1, <1>2, <2>1
  <1>3. ASSUME NEW w \in {n} \X (Top.todo \cup Top.running)
        PROVE  w \in Unreturned /\ w[1] = n
    <2>1. w \in {n} \X (stack[n].todo \cup stack[n].running)
      BY <1>1, <1>3
    <2> QED
      BY <1>1, <2>1 DEF Unreturned
  <1> QED
    BY <1>2, <1>3 DEF n

LEMMA WaitingSame ==
  ASSUME Unreturned' = Unreturned
  PROVE  \A c : Waiting(c)' = Waiting(c)
  BY DEF Waiting

(* A call that returns was one of those under way.                         *)
LEMMA WaitingReturns ==
  ASSUME stack \in Seq(Frame), stack # <<>>, StackShape, NEW call \in Top.running,
         SetTop([todo |-> Top.todo, running |-> {}])
  PROVE  /\ IsFiniteSet(Unreturned')
         /\ \A c \in Callbacks : Waiting(c) = Waiting(c)' + (IF call.callback = c THEN 1 ELSE 0)
  <1> DEFINE n == Len(stack)
             w == <<n, call>>
  <1>1. n \in DOMAIN stack /\ Top = stack[n]
    BY DEF Top
  <1>2. Top.running = {call} /\ call \notin Top.todo
    BY <1>1 DEF StackShape
  <1>3. Unreturned' = {v \in Unreturned : v[1] # n} \cup ({n} \X Top.todo)
    BY UnreturnedTop
  <1>4. {v \in Unreturned : v[1] = n} = {n} \X (Top.todo \cup {call})
    BY UnreturnedOfTop, <1>2
  <1>5. Unreturned = Unreturned' \cup {w} /\ w \notin Unreturned'
    <2> HIDE DEF n
    <2> QED
      BY <1>2, <1>3, <1>4
  <1>6. IsFiniteSet(Unreturned')
    BY <1>5, FS_Subset DEF StackShape
  <1>7. ASSUME NEW c \in Callbacks
        PROVE  Waiting(c) = Waiting(c)' + (IF call.callback = c THEN 1 ELSE 0)
    <2> DEFINE A == {v \in Unreturned' : v[2].callback = c}
    <2>1. IsFiniteSet(A) /\ w \notin A /\ Cardinality(A) \in Nat
      BY <1>5, <1>6, FS_Subset, FS_CardinalityType
    <2>2. Waiting(c)' = Cardinality(A)
      BY DEF Waiting
    <2>3. CASE call.callback = c
      <3>1. {v \in Unreturned : v[2].callback = c} = A \cup {w}
        BY <1>5, <2>3
      <3>2. Waiting(c) = Cardinality(A \cup {w})
        BY <3>1 DEF Waiting
      <3>3. Cardinality(A \cup {w}) = Cardinality(A) + 1
        BY <2>1, FS_AddElement
      <3> HIDE DEF A, w
      <3> QED
        BY <2>1, <2>2, <2>3, <3>2, <3>3
    <2>4. CASE call.callback # c
      <3>1. {v \in Unreturned : v[2].callback = c} = A
        BY <1>5, <2>4
      <3>2. Waiting(c) = Cardinality(A)
        BY <3>1 DEF Waiting
      <3> HIDE DEF A
      <3> QED
        BY <2>1, <2>2, <2>4, <3>2
    <2> QED
      BY <2>3, <2>4
  <1> QED
    BY <1>6, <1>7

(***************************************************************************)
(* The steps of the listeners.                                             *)
(***************************************************************************)
LEMMA TargetStarts == TargetInit => TargetInv
  <1> SUFFICES ASSUME TargetInit
               PROVE  TargetInv
    OBVIOUS
  <1> USE EventTargetAssumption DEF TargetInit
  <1>1. TargetTypeOK
    <2>1. nextId \in 0 .. MaxListeners /\ refs \in [Callbacks -> Nat]
      OBVIOUS
    <2>2. stack \in Seq(Frame) /\ called \in Seq(0 .. MaxListeners - 1)
      OBVIOUS
    <2> QED
      BY <2>1, <2>2 DEF TargetTypeOK
  <1>2. Unreturned = {}
    BY DEF Unreturned
  <1>3. ListShape /\ StackShape /\ OnceServed /\ CalledOnce
    BY <1>2, FS_EmptySet DEF ListShape, StackShape, OnceServed, CalledOnce
  <1>4. \A c : HeldBy({}, c) = 0
    BY HeldByNone
  <1>5. \A c : Waiting(c) = 0
    <2>1. \A c : {w \in Unreturned : w[2].callback = c} = {}
      BY <1>2
    <2> QED
      BY <2>1, FS_EmptySet DEF Waiting
  <1>6. CallbacksHeld
    BY <1>4, <1>5 DEF CallbacksHeld
  <1>7. HandlerHasOnePlace
    BY <1>4 DEF HandlerHasOnePlace
  <1> QED
    BY <1>1, <1>3, <1>6, <1>7 DEF TargetInv, TargetShape, ListenersServed

(* The calls of a dispatch: one for a listener, told apart by its id.      *)
LEMMA CallsOfSnapshot ==
  ASSUME TargetInv, NEW type \in Types
  PROVE  /\ Snapshot(type) \subseteq Call /\ IsFiniteSet(Snapshot(type))
         /\ \A x \in Snapshot(type) : \E l \in Entries(type) : l.id = x.id
         /\ \A x, y \in Snapshot(type) : x.id = y.id => x = y
  <1> DEFINE made == Snapshot(type)
             Of(l) == [id |-> l.id, callback |-> IF l.callback = None THEN handler ELSE l.callback]
  <1> USE DEF TargetInv, TargetShape
  <1>1. ASSUME NEW x \in made
        PROVE  \E l \in Entries(type) : l.id = x.id /\ x = Of(l) /\ (l.callback # None \/ handler # None)
    BY <1>1 DEF Snapshot
  <1>2. Entries(type) \subseteq listeners /\ listeners \subseteq Listener
    BY DEF Entries, TargetTypeOK
  <1>3. made \subseteq Call
    <2> SUFFICES ASSUME NEW x \in made
                 PROVE  x \in Call
      OBVIOUS
    <2>1. PICK l \in Entries(type) : x = Of(l) /\ (l.callback # None \/ handler # None)
      BY <1>1
    <2>2. l \in Listener
      BY <1>2
    <2> QED
      BY <2>1, <2>2 DEF Call, Listener, TargetTypeOK
  <1>4. \A x, y \in made : x.id = y.id => x = y
    <2> SUFFICES ASSUME NEW x \in made, NEW y \in made, x.id = y.id
                 PROVE  x = y
      OBVIOUS
    <2>1. PICK l \in Entries(type) : l.id = x.id /\ x = Of(l)
      BY <1>1
    <2>2. PICK m \in Entries(type) : m.id = y.id /\ y = Of(m)
      BY <1>1
    <2>3. l = m
      BY <2>1, <2>2, <1>2 DEF ListShape
    <2> QED
      BY <2>1, <2>2, <2>3
  <1>5. IsFiniteSet(made)
    <2> DEFINE f == [x \in made |-> x.id]
    <2>1. f \in Injection(made, 0 .. MaxListeners - 1)
      BY <1>3, <1>4 DEF Call, Injection, IsInjective
    <2>2. IsFiniteSet(0 .. MaxListeners - 1)
      BY EventTargetAssumption, FS_Interval
    <2> QED
      BY <2>1, <2>2, FS_Injection
  <1> QED
    BY <1>1, <1>3, <1>4, <1>5

(* The innermost dispatch.                                                 *)
LEMMA TopOfStack ==
  ASSUME stack \in Seq(Frame), stack # <<>>
  PROVE  /\ Len(stack) \in DOMAIN stack /\ Top = stack[Len(stack)]
         /\ Top \in Frame
         /\ \A f \in Frame : SetTop(f) =>
              /\ stack' \in Seq(Frame) /\ DOMAIN stack' = DOMAIN stack
              /\ stack'[Len(stack)] = f
              /\ \A i \in DOMAIN stack \ {Len(stack)} : stack'[i] = stack[i]
  BY DEF Top, SetTop

LEMMA BeginStep ==
  ASSUME TargetInv, NEW type \in Types, Begin(type)
  PROVE  TargetInv'
  <1> DEFINE made == Snapshot(type)
             gone  == {l \in Entries(type) : l.once}
             n     == Len(stack) + 1
  <1> USE DEF TargetInv, TargetShape, ListenersServed
  <1>1. /\ made \subseteq Call /\ IsFiniteSet(made)
        /\ \A x \in made : \E l \in Entries(type) : l.id = x.id
        /\ \A x, y \in made : x.id = y.id => x = y
    BY CallsOfSnapshot
  <1>2. /\ stack' = Append(stack, [todo |-> made, running |-> {}])
        /\ refs' = [c \in Callbacks |-> (refs[c] + HeldBy(made, c)) - HeldBy(gone, c)]
        /\ listeners' = listeners \ gone
        /\ UNCHANGED <<nextId, handler, once, called, finalized>>
    BY DEF Begin
  <1>3. /\ Entries(type) \subseteq listeners /\ gone \subseteq listeners
        /\ \A l \in gone : l \in Entries(type) /\ l.once
        /\ listeners \subseteq Listener
    BY DEF Entries, TargetTypeOK
  <1>3a. \A l \in Entries(type) : l.once => l \in gone
    OBVIOUS
  <1> HIDE DEF made, gone
  <1>4. /\ stack' \in Seq(Frame) /\ DOMAIN stack' = DOMAIN stack \cup {n}
        /\ n \notin DOMAIN stack
        /\ stack'[n] = [todo |-> made, running |-> {}]
        /\ \A i \in DOMAIN stack : stack'[i] = stack[i]
    <2>1. stack \in Seq(Frame) /\ [todo |-> made, running |-> {}] \in Frame
      BY <1>1 DEF TargetTypeOK, Frame
    <2> QED
      BY <1>2, <2>1
  <1> HIDE DEF n
  <1>5. /\ IsFiniteSet(Unreturned')
        /\ \A c \in Callbacks : Waiting(c)' = Waiting(c) + HeldBy(made, c)
    BY <1>1, <1>2, WaitingBegin DEF TargetTypeOK, StackShape
  <1>6. ListShape'
    <2>1. IsFiniteSet(listeners')
      BY <1>2, FS_Subset DEF ListShape
    <2> QED
      BY <2>1, <1>2 DEF ListShape
  <1>7. StackShape'
    <2>1. ASSUME NEW x \in made
          PROVE  x.id < nextId
      <3>1. PICK l \in listeners : l.id = x.id
        BY <1>1, <1>3
      <3> QED
        BY <3>1 DEF ListShape
    <2> QED
      BY <2>1, <1>2, <1>4, <1>5 DEF StackShape
  <1>8. OnceServed'
    <2>1. ASSUME NEW x \in made, x.id \in once
          PROVE  /\ \A j \in DOMAIN called : called[j] # x.id
                 /\ \A l \in listeners' : l.id # x.id
                 /\ \A j \in DOMAIN stack : \A y \in stack[j].todo : y.id # x.id
      <3>1. PICK m \in Entries(type) : m.id = x.id
        BY <1>1
      <3>2. m \in listeners /\ m.once
        BY <2>1, <3>1, <1>3 DEF ListShape
      <3>3. m \in gone
        BY <3>1, <3>2, <1>3a
      <3>4. \A l \in listeners' : l.id # x.id
        BY <3>1, <3>2, <3>3, <1>2 DEF ListShape
      <3> QED
        BY <2>1, <3>1, <3>2, <3>4 DEF OnceServed
    <2>2. \A i \in DOMAIN called' : called'[i] \in once' /\ \A l \in listeners' : l.id # called'[i]
      BY <1>2 DEF OnceServed
    <2>3. ASSUME NEW i \in DOMAIN stack', NEW x \in stack'[i].todo, x.id \in once'
          PROVE  /\ \A j \in DOMAIN called' : called'[j] # x.id
                 /\ \A l \in listeners' : l.id # x.id
                 /\ \A j \in DOMAIN stack' : \A y \in stack'[j].todo : y.id = x.id => i = j /\ x = y
      <3>1. CASE i = n
        BY <3>1, <2>1, <2>3, <1>1, <1>2, <1>4
      <3>2. CASE i # n
        <4>1. i \in DOMAIN stack /\ x \in stack[i].todo
          BY <3>2, <2>3, <1>4
        <4>2. /\ \A j \in DOMAIN called : called[j] # x.id
              /\ \A l \in listeners : l.id # x.id
              /\ \A j \in DOMAIN stack : \A y \in stack[j].todo : y.id = x.id => i = j /\ x = y
          BY <4>1, <2>3, <1>2 DEF OnceServed
        <4>3. \A y \in made : y.id # x.id
          BY <4>1, <2>1, <2>3, <1>2
        <4> QED
          BY <4>2, <4>3, <1>2, <1>4
      <3> QED
        BY <3>1, <3>2
    <2> QED
      BY <2>2, <2>3 DEF OnceServed
  <1>9. CallbacksHeld'
    <2> SUFFICES ASSUME NEW c \in Callbacks
                 PROVE  refs'[c] = HeldBy(listeners', c) + (IF handler' = c THEN 1 ELSE 0) + Waiting(c)'
      BY DEF CallbacksHeld
    <2>1. /\ HeldBy(listeners', c) = HeldBy(listeners, c) - HeldBy(gone, c)
          /\ HeldBy(listeners, c) \in Nat /\ HeldBy(gone, c) \in Nat /\ HeldBy(made, c) \in Nat
      <3>1. IsFiniteSet(gone) /\ IsFiniteSet(listeners)
        BY <1>3, FS_Subset DEF ListShape
      <3>2. HeldBy(listeners \ gone, c) = HeldBy(listeners, c) - HeldBy(gone, c)
        BY <3>1, <1>3, HeldByWithout
      <3>3. HeldBy(listeners, c) \in Nat /\ HeldBy(gone, c) \in Nat /\ HeldBy(made, c) \in Nat
        BY <3>1, <1>1, HeldIsNat
      <3> QED
        BY <3>2, <3>3, <1>2
    <2>2. Waiting(c) \in Nat
      BY WaitingIsNat DEF Waiting, StackShape
    <2>3. refs[c] = HeldBy(listeners, c) + (IF handler = c THEN 1 ELSE 0) + Waiting(c)
      BY DEF CallbacksHeld
    <2>4. refs'[c] = (refs[c] + HeldBy(made, c)) - HeldBy(gone, c)
      BY <1>2
    <2>5. Waiting(c)' = Waiting(c) + HeldBy(made, c) /\ handler' = handler
      BY <1>2, <1>5
    <2> QED
      BY <2>1, <2>2, <2>3, <2>4, <2>5
  <1>10. TargetTypeOK'
    <2>1. refs' \in [Callbacks -> Nat]
      <3>1. refs' = [c \in Callbacks |-> refs'[c]]
        BY <1>2
      <3> QED
        BY <3>1, <1>5, <1>6, <1>9, RefsTyped DEF ListShape
    <2> QED
      BY <2>1, <1>2, <1>4 DEF TargetTypeOK
  <1>11. CalledOnce' /\ HandlerHasOnePlace'
    <2>1. HeldBy(gone, None) = 0
      BY <1>3, HeldByNone DEF ListShape
    <2>2. HeldBy(listeners', None) = HeldBy(listeners, None) - HeldBy(gone, None)
      BY <1>2, <1>3, HeldByWithout DEF ListShape
    <2>3. HeldBy(listeners, None) \in Nat
      BY HeldIsNat DEF ListShape
    <2>4. HeldBy(listeners', None) = HeldBy(listeners, None)
      BY <2>1, <2>2, <2>3
    <2> QED
      BY <2>4, <1>2 DEF CalledOnce, HandlerHasOnePlace
  <1> QED
    BY <1>6, <1>7, <1>8, <1>9, <1>10, <1>11

(* A step that changes the list or the handler and touches no dispatch.    *)
LEMMA ListChange ==
  ASSUME TargetInv, UNCHANGED <<stack, called>>,
         ListShape', listeners' \subseteq Listener,
         nextId' \in 0 .. MaxListeners, nextId <= nextId',
         \A l \in listeners' : l \in listeners \/ l.id = nextId,
         once \subseteq once', \A i \in once' : i \in once \/ i = nextId,
         handler' \in Callbacks \cup {None}, finalized' \in BOOLEAN,
         refs' = [c \in Callbacks |-> refs'[c]],
         CallbacksHeld', HandlerHasOnePlace'
  PROVE  TargetInv'
  <1> USE DEF TargetInv, TargetShape, ListenersServed
  <1>1. Unreturned' = Unreturned
    BY DEF Unreturned
  <1>2. nextId \in Nat /\ nextId' \in Nat
    BY EventTargetAssumption DEF TargetTypeOK
  <1>3. \A i \in once : i \in Nat /\ i < nextId
    BY EventTargetAssumption DEF TargetTypeOK, ListShape
  <1>4. \A i \in DOMAIN stack : \A x \in stack[i].todo : x.id \in Nat /\ x.id < nextId
    <2>1. ASSUME NEW i \in DOMAIN stack, NEW x \in stack[i].todo
          PROVE  x.id \in Nat
      <3>1. stack[i] \in Frame
        BY DEF TargetTypeOK
      <3> QED
        BY <3>1, EventTargetAssumption DEF Frame, Call
    <2> QED
      BY <2>1 DEF StackShape
  <1>5. TargetTypeOK'
    <2>1. IsFiniteSet(listeners') /\ IsFiniteSet(Unreturned')
      BY <1>1 DEF ListShape, StackShape
    <2>2. refs' \in [Callbacks -> Nat]
      BY <2>1, RefsTyped
    <2>3. once' \subseteq 0 .. MaxListeners - 1
      <3>1. \A i \in once' : i \in Nat /\ i < nextId' /\ nextId' <= MaxListeners
        BY <1>2, <1>3, EventTargetAssumption DEF ListShape
      <3> QED
        BY <3>1, <1>2, EventTargetAssumption
    <2> QED
      BY <2>2, <2>3 DEF TargetTypeOK
  <1>6. StackShape'
    BY <1>1, <1>2, <1>4 DEF StackShape
  <1>7. OnceServed'
    <2>1. \A i \in DOMAIN called : called[i] \in once' /\ \A l \in listeners' : l.id # called[i]
      BY <1>2, <1>3 DEF OnceServed
    <2>2. ASSUME NEW i \in DOMAIN stack, NEW x \in stack[i].todo, x.id \in once'
          PROVE  /\ \A j \in DOMAIN called : called[j] # x.id
                 /\ \A l \in listeners' : l.id # x.id
                 /\ \A j \in DOMAIN stack : \A y \in stack[j].todo : y.id = x.id => i = j /\ x = y
      <3>1. x.id \in once /\ x.id # nextId
        BY <2>2, <1>2, <1>4
      <3> QED
        BY <3>1 DEF OnceServed
    <2> QED
      BY <2>1, <2>2 DEF OnceServed
  <1> QED
    BY <1>5, <1>6, <1>7 DEF CalledOnce

LEMMA AddListenerStep ==
  ASSUME TargetInv, NEW type \in Types, NEW c \in Callbacks, NEW isOnce \in BOOLEAN,
         AddListener(type, c, isOnce)
  PROVE  TargetInv'
  <1> DEFINE new == [id |-> nextId, type |-> type, callback |-> c, once |-> isOnce]
  <1> USE DEF TargetInv, TargetShape, ListenersServed
  <1>1. /\ listeners' = listeners \cup {new} /\ nextId' = nextId + 1 /\ nextId < MaxListeners
        /\ refs' = Duplicate(refs, c)
        /\ once' = IF isOnce THEN once \cup {nextId} ELSE once
        /\ UNCHANGED <<handler, stack, called, finalized>>
    BY DEF AddListener
  <1>2. /\ nextId \in Nat /\ nextId' \in Nat /\ c # None
        /\ \A l \in listeners : l \in Listener /\ l.id \in Nat /\ l.id < nextId
        /\ \A i \in once : i \in Nat /\ i < nextId
    BY <1>1, EventTargetAssumption DEF TargetTypeOK, ListShape, Listener
  <1>3. /\ new \in Listener /\ new \notin listeners
        /\ new.id = nextId /\ new.callback = c /\ new.once = isOnce
    BY <1>1, <1>2, EventTargetAssumption DEF Listener
  <1> HIDE DEF new
  <1>4. IsFiniteSet(listeners')
    BY <1>1, FS_AddElement DEF ListShape
  <1>5. ListShape'
    BY <1>1, <1>2, <1>3, <1>4 DEF ListShape
  <1>6. \A d : HeldBy(listeners', d) = HeldBy(listeners, d) + (IF c = d THEN 1 ELSE 0)
    BY <1>1, <1>3, HeldByAdd DEF ListShape
  <1>7. \A d : HeldBy(listeners, d) \in Nat
    BY HeldIsNat DEF ListShape
  <1>8. CallbacksHeld'
    <2> SUFFICES ASSUME NEW d \in Callbacks
                 PROVE  refs'[d] = HeldBy(listeners', d) + (IF handler' = d THEN 1 ELSE 0) + Waiting(d)'
      BY DEF CallbacksHeld
    <2>1. Waiting(d)' = Waiting(d) /\ Waiting(d) \in Nat
      BY <1>1, WaitingIsNat DEF Waiting, Unreturned, StackShape
    <2>2. refs[d] = HeldBy(listeners, d) + (IF handler = d THEN 1 ELSE 0) + Waiting(d)
      BY DEF CallbacksHeld
    <2>3. refs'[d] = refs[d] + (IF c = d THEN 1 ELSE 0)
      BY <1>1 DEF TargetTypeOK, Duplicate
    <2> QED
      BY <1>1, <1>6, <1>7, <2>1, <2>2, <2>3
  <1>9. HandlerHasOnePlace'
    <2>1. HeldBy(listeners', None) = HeldBy(listeners, None) + 0 /\ HeldBy(listeners, None) \in Nat
      BY <1>2, <1>6, <1>7
    <2> QED
      BY <1>1, <2>1 DEF HandlerHasOnePlace
  <1>10. refs' = [d \in Callbacks |-> refs'[d]]
    BY <1>1 DEF TargetTypeOK, Duplicate
  <1>11. nextId' \in 0 .. MaxListeners /\ nextId <= nextId'
    BY <1>1, <1>2, EventTargetAssumption
  <1>12. listeners' \subseteq Listener /\ \A l \in listeners' : l \in listeners \/ l.id = nextId
    BY <1>1, <1>2, <1>3
  <1>13. once \subseteq once' /\ \A i \in once' : i \in once \/ i = nextId
    BY <1>1
  <1>14. handler' \in Callbacks \cup {None} /\ finalized' \in BOOLEAN
    BY <1>1 DEF TargetTypeOK
  <1> QED
    BY <1>1, <1>5, <1>8, <1>9, <1>10, <1>11, <1>12, <1>13, <1>14, ListChange

LEMMA RemoveListenerStep ==
  ASSUME TargetInv, NEW type \in Types, NEW c \in Callbacks, RemoveListener(type, c)
  PROVE  TargetInv'
  <1> USE DEF TargetInv, TargetShape, ListenersServed
  <1>1. PICK l \in listeners : l.callback = c /\ listeners' = listeners \ {l}
    BY DEF RemoveListener
  <1>2. refs' = Release(refs, c) /\ UNCHANGED <<nextId, handler, stack, once, called, finalized>>
    BY DEF RemoveListener
  <1>3. c # None
    BY EventTargetAssumption
  <1>4. IsFiniteSet(listeners')
    BY <1>1, FS_Subset DEF ListShape
  <1>5. ListShape'
    BY <1>1, <1>2, <1>4 DEF ListShape
  <1>6. ASSUME NEW d
        PROVE  /\ HeldBy(listeners', d) = HeldBy(listeners, d) - (IF c = d THEN 1 ELSE 0)
               /\ HeldBy(listeners, d) \in Nat /\ HeldBy(listeners', d) \in Nat
    <2>1. HeldBy(listeners \ {l}, d) = HeldBy(listeners, d) - HeldBy({l}, d)
      BY HeldByWithout DEF ListShape
    <2>2. HeldBy({l}, d) = IF c = d THEN 1 ELSE 0
      BY <1>1, HeldByOne
    <2> QED
      BY <1>1, <1>4, <2>1, <2>2, HeldIsNat DEF ListShape
  <1>7. CallbacksHeld'
    <2> SUFFICES ASSUME NEW d \in Callbacks
                 PROVE  refs'[d] = HeldBy(listeners', d) + (IF handler' = d THEN 1 ELSE 0) + Waiting(d)'
      BY DEF CallbacksHeld
    <2>1. Waiting(d)' = Waiting(d) /\ Waiting(d) \in Nat
      BY <1>2, WaitingIsNat DEF Waiting, Unreturned, StackShape
    <2>2. refs[d] = HeldBy(listeners, d) + (IF handler = d THEN 1 ELSE 0) + Waiting(d)
      BY DEF CallbacksHeld
    <2>3. refs'[d] = refs[d] - (IF c = d THEN 1 ELSE 0)
      BY <1>2, <1>3 DEF TargetTypeOK, Release
    <2> QED
      BY <1>2, <1>6, <2>1, <2>2, <2>3
  <1>8. HandlerHasOnePlace'
    BY <1>2, <1>3, <1>6 DEF HandlerHasOnePlace
  <1>9. refs' = [d \in Callbacks |-> refs'[d]]
    BY <1>2, <1>3 DEF TargetTypeOK, Release
  <1>10. /\ nextId' \in 0 .. MaxListeners /\ nextId <= nextId' /\ listeners' \subseteq Listener
         /\ handler' \in Callbacks \cup {None} /\ finalized' \in BOOLEAN
    BY <1>1, <1>2, EventTargetAssumption DEF TargetTypeOK
  <1> QED
    BY <1>1, <1>2, <1>5, <1>7, <1>8, <1>9, <1>10, ListChange

LEMMA SetHandlerStep ==
  ASSUME TargetInv, NEW new \in Callbacks \cup {None}, SetHandler(new)
  PROVE  TargetInv'
  <1> DEFINE place == [id |-> nextId, type |-> Uncaptured, callback |-> None, once |-> FALSE]
             kept  == {l \in listeners : l.callback # None}
  <1> USE DEF TargetInv, TargetShape, ListenersServed
  <1>1. /\ handler' = new
        /\ refs' = Release(IF new = None THEN refs ELSE Duplicate(refs, new), handler)
        /\ UNCHANGED <<stack, once, called, finalized>>
    BY DEF SetHandler
  <1>2. /\ nextId \in Nat /\ handler \in Callbacks \cup {None} /\ None \notin Callbacks
        /\ \A l \in listeners : l \in Listener /\ l.id \in Nat /\ l.id < nextId
        /\ \A i \in once : i \in Nat /\ i < nextId
    BY EventTargetAssumption DEF TargetTypeOK, ListShape, Listener
  <1>3. \/ /\ new # None /\ handler = None /\ nextId < MaxListeners
           /\ listeners' = listeners \cup {place} /\ nextId' = nextId + 1
        \/ new = None /\ handler # None /\ listeners' = kept /\ nextId' = nextId
        \/ (new = None <=> handler = None) /\ listeners' = listeners /\ nextId' = nextId
    BY DEF SetHandler
  <1>4. \A d : HeldBy(listeners, d) \in Nat
    BY HeldIsNat DEF ListShape
  <1>5. place.id = nextId /\ place.callback = None /\ place.once = FALSE /\ place \notin listeners
    BY <1>2
  <1>6. place \in Listener \/ ~nextId < MaxListeners
    BY <1>2, EventTargetAssumption DEF Listener
  <1>7. kept \subseteq listeners /\ \A l \in kept : l.callback # None
    OBVIOUS
  <1> HIDE DEF place, kept
  <1>8. ASSUME NEW d \in Callbacks
        PROVE  HeldBy(listeners', d) = HeldBy(listeners, d)
    <2>1. HeldBy(listeners \cup {place}, d) = HeldBy(listeners, d) + (IF place.callback = d THEN 1 ELSE 0)
      BY <1>5, HeldByAdd DEF ListShape
    <2>2. HeldBy(listeners \cup {place}, d) = HeldBy(listeners, d)
      BY <2>1, <1>2, <1>4, <1>5
    <2>3. HeldBy(kept, d) = HeldBy(listeners, d)
      <3>1. {x \in kept : x.callback = d} = {x \in listeners : x.callback = d}
        BY <1>2 DEF kept
      <3> QED
        BY <3>1 DEF HeldBy
    <2> QED
      BY <2>2, <2>3, <1>3
  <1>9. HandlerHasOnePlace'
    <2>1. HeldBy(listeners \cup {place}, None) = HeldBy(listeners, None) + 1
      <3>1. HeldBy(listeners \cup {place}, None) = HeldBy(listeners, None) + (IF place.callback = None THEN 1 ELSE 0)
        BY <1>5, HeldByAdd DEF ListShape
      <3> QED
        BY <3>1, <1>5
    <2>2. HeldBy(kept, None) = 0
      BY <1>7, HeldByNone
    <2>3. HeldBy(listeners, None) = IF handler = None THEN 0 ELSE 1
      BY DEF HandlerHasOnePlace
    <2>4. HeldBy(listeners', None) = IF new = None THEN 0 ELSE 1
      <3> QED
        BY <2>1, <2>2, <2>3, <1>3
    <2> QED
      BY <2>4, <1>1 DEF HandlerHasOnePlace
  <1>10. CallbacksHeld'
    <2> SUFFICES ASSUME NEW d \in Callbacks
                 PROVE  refs'[d] = HeldBy(listeners', d) + (IF handler' = d THEN 1 ELSE 0) + Waiting(d)'
      BY DEF CallbacksHeld
    <2>1. Waiting(d)' = Waiting(d) /\ Waiting(d) \in Nat
      BY <1>1, WaitingIsNat DEF Waiting, Unreturned, StackShape
    <2>2. refs[d] = HeldBy(listeners, d) + (IF handler = d THEN 1 ELSE 0) + Waiting(d)
      BY DEF CallbacksHeld
    <2>3. refs'[d] = refs[d] + (IF new = d THEN 1 ELSE 0) - (IF handler = d THEN 1 ELSE 0)
      <3>1. refs \in [Callbacks -> Nat] /\ d # None
        BY <1>2 DEF TargetTypeOK
      <3>2. CASE new = None
        BY <3>1, <3>2, <1>1, <1>2 DEF Release
      <3>3. CASE new # None
        <4>1. Duplicate(refs, new) \in [Callbacks -> Nat]
              /\ Duplicate(refs, new)[d] = refs[d] + (IF new = d THEN 1 ELSE 0)
          BY <3>1, <3>3 DEF Duplicate
        <4>2. refs' = Release(Duplicate(refs, new), handler)
          BY <3>3, <1>1
        <4> QED
          BY <3>1, <4>1, <4>2, <1>2 DEF Release
      <3> QED
        BY <3>2, <3>3
    <2>4. HeldBy(listeners, d) \in Nat /\ HeldBy(listeners', d) = HeldBy(listeners, d)
      BY <1>4, <1>8
    <2> QED
      BY <1>1, <2>1, <2>2, <2>3, <2>4
  <1>11. refs' = [d \in Callbacks |-> refs'[d]]
    BY <1>1 DEF TargetTypeOK, Release, Duplicate
  <1>12. IsFiniteSet(listeners')
    <2>1. IsFiniteSet(listeners \cup {place}) /\ IsFiniteSet(kept)
      BY <1>7, FS_AddElement, FS_Subset DEF ListShape
    <2> QED
      BY <2>1, <1>3 DEF ListShape
  <1>13. ListShape'
    BY <1>1, <1>2, <1>3, <1>5, <1>7, <1>12 DEF ListShape
  <1>14. /\ nextId' \in 0 .. MaxListeners /\ nextId <= nextId' /\ listeners' \subseteq Listener
         /\ handler' \in Callbacks \cup {None} /\ finalized' \in BOOLEAN
    BY <1>1, <1>2, <1>3, <1>6, <1>7, EventTargetAssumption DEF TargetTypeOK
  <1>15. \A l \in listeners' : l \in listeners \/ l.id = nextId
    BY <1>3, <1>5, <1>7
  <1> QED
    BY <1>1, <1>9, <1>10, <1>11, <1>13, <1>14, <1>15, ListChange

LEMMA ReleaseEngineValuesStep ==
  ASSUME TargetInv, ReleaseEngineValues
  PROVE  TargetInv'
  <1> USE DEF TargetInv, TargetShape, ListenersServed
  <1>1. /\ finalized' = TRUE /\ listeners' = {} /\ handler' = None
        /\ refs' = Release([c \in Callbacks |-> refs[c] - HeldBy(listeners, c)], handler)
        /\ UNCHANGED <<nextId, stack, once, called>>
    BY DEF ReleaseEngineValues
  <1>2. \A d : HeldBy(listeners', d) = 0
    BY <1>1, HeldByNone
  <1>3. ListShape'
    BY <1>1, FS_EmptySet DEF ListShape
  <1>4. CallbacksHeld'
    <2> SUFFICES ASSUME NEW d \in Callbacks
                 PROVE  refs'[d] = HeldBy(listeners', d) + (IF handler' = d THEN 1 ELSE 0) + Waiting(d)'
      BY DEF CallbacksHeld
    <2>1. Waiting(d)' = Waiting(d) /\ Waiting(d) \in Nat
      BY <1>1, WaitingIsNat DEF Waiting, Unreturned, StackShape
    <2>2. refs[d] = HeldBy(listeners, d) + (IF handler = d THEN 1 ELSE 0) + Waiting(d)
      BY DEF CallbacksHeld
    <2>3. refs'[d] = refs[d] - HeldBy(listeners, d) - (IF handler = d THEN 1 ELSE 0)
      <3> DEFINE r == [c \in Callbacks |-> refs[c] - HeldBy(listeners, c)]
      <3>1. r[d] = refs[d] - HeldBy(listeners, d) /\ DOMAIN r = Callbacks
        OBVIOUS
      <3>2. r[d] \in Int
        <4>1. refs[d] \in Nat /\ HeldBy(listeners, d) \in Nat
          BY HeldIsNat DEF TargetTypeOK, ListShape
        <4> QED
          BY <3>1, <4>1
      <3>3. refs' = Release(r, handler)
        BY <1>1
      <3> HIDE DEF r
      <3> QED
        BY <3>1, <3>2, <3>3, EventTargetAssumption DEF Release
    <2>4. HeldBy(listeners, d) \in Nat
      BY HeldIsNat DEF ListShape
    <2>5. d # None
      BY EventTargetAssumption
    <2> QED
      BY <1>1, <1>2, <2>1, <2>2, <2>3, <2>4, <2>5
  <1>5. HandlerHasOnePlace'
    BY <1>1, <1>2 DEF HandlerHasOnePlace
  <1>6. refs' = [d \in Callbacks |-> refs'[d]]
    BY <1>1 DEF Release
  <1>7. nextId' \in 0 .. MaxListeners /\ nextId <= nextId'
    BY <1>1, EventTargetAssumption DEF TargetTypeOK
  <1> QED
    BY <1>1, <1>3, <1>4, <1>5, <1>6, <1>7, ListChange

(* A step of the innermost dispatch that takes nothing on.                 *)
LEMMA TopChange ==
  ASSUME TargetInv, stack # <<>>, NEW f \in Frame, SetTop(f), f.todo \subseteq Top.todo,
         \A x, y \in f.running : x = y, f.running \cap f.todo = {}, IsFiniteSet(Unreturned')
  PROVE  /\ stack' \in Seq(Frame)
         /\ \A i \in DOMAIN stack' : i \in DOMAIN stack /\ stack'[i].todo \subseteq stack[i].todo
         /\ UNCHANGED nextId => StackShape'
  <1> USE DEF TargetInv, TargetShape
  <1>1. /\ stack' \in Seq(Frame) /\ DOMAIN stack' = DOMAIN stack
        /\ Top = stack[Len(stack)] /\ stack'[Len(stack)] = f
        /\ \A i \in DOMAIN stack \ {Len(stack)} : stack'[i] = stack[i]
    BY TopOfStack DEF TargetTypeOK
  <1>2. \A i \in DOMAIN stack' : i \in DOMAIN stack /\ stack'[i].todo \subseteq stack[i].todo
    BY <1>1
  <1>3. \A i \in DOMAIN stack' : \/ stack'[i].running = f.running /\ stack'[i].todo = f.todo
                                 \/ stack'[i] = stack[i]
    BY <1>1
  <1>4. UNCHANGED nextId => StackShape'
    <2> SUFFICES ASSUME UNCHANGED nextId
                 PROVE  StackShape'
      OBVIOUS
    <2>1. ASSUME NEW i \in DOMAIN stack'
          PROVE  /\ \A x, y \in stack'[i].running : x = y
                 /\ stack'[i].running \cap stack'[i].todo = {}
                 /\ \A x \in stack'[i].todo : x.id < nextId
      BY <1>2, <1>3 DEF StackShape
    <2> QED
      BY <2>1 DEF StackShape
  <1> QED
    BY <1>1, <1>2, <1>4

LEMMA CallNextStep ==
  ASSUME TargetInv, CallNext
  PROVE  TargetInv'
  <1> USE DEF TargetInv, TargetShape, ListenersServed
  <1>1. stack # <<>> /\ Top.running = {} /\ UNCHANGED <<listeners, nextId, handler, refs, once, finalized>>
    BY DEF CallNext
  <1>2. PICK call \in Top.todo :
          /\ SetTop([todo |-> Top.todo \ {call}, running |-> {call}])
          /\ called' = IF call.id \in once THEN Append(called, call.id) ELSE called
    BY DEF CallNext
  <1> DEFINE f == [todo |-> Top.todo \ {call}, running |-> {call}]
             n == Len(stack)
  <1>3. /\ n \in DOMAIN stack /\ Top = stack[n] /\ Top \in Frame
    BY <1>1, TopOfStack DEF TargetTypeOK
  <1>4. f \in Frame /\ call \in Call
    BY <1>3 DEF Frame
  <1>5. SetTop(f)
    BY <1>2
  <1>6. /\ DOMAIN stack' = DOMAIN stack /\ stack'[n] = f
        /\ \A i \in DOMAIN stack \ {n} : stack'[i] = stack[i]
    BY <1>1, <1>4, <1>5, TopOfStack DEF TargetTypeOK
  <1>7. Unreturned' = Unreturned
    <2>1. Unreturned' = {w \in Unreturned : w[1] # n} \cup ({n} \X (f.todo \cup f.running))
      BY <1>1, <1>5, UnreturnedTop DEF TargetTypeOK
    <2>2. f.todo \cup f.running = Top.todo \cup Top.running
      BY <1>1
    <2>3. {w \in Unreturned : w[1] = n} = {n} \X (Top.todo \cup Top.running)
      BY <1>1, UnreturnedOfTop DEF TargetTypeOK
    <2> QED
      BY <2>1, <2>2, <2>3
  <1>8. f.todo = Top.todo \ {call} /\ f.running = {call}
    OBVIOUS
  <1> HIDE DEF f, n
  <1>9. /\ stack' \in Seq(Frame)
        /\ \A i \in DOMAIN stack' : i \in DOMAIN stack /\ stack'[i].todo \subseteq stack[i].todo
        /\ StackShape'
    <2>1. IsFiniteSet(Unreturned')
      BY <1>7 DEF StackShape
    <2> QED
      BY <1>1, <1>4, <1>5, <1>8, <2>1, TopChange
  <1>10. call.id \in once =>
           /\ \A j \in DOMAIN called : called[j] # call.id
           /\ \A l \in listeners : l.id # call.id
           /\ \A j \in DOMAIN stack : \A y \in stack[j].todo : y.id = call.id => n = j /\ call = y
    BY <1>3 DEF OnceServed
  <1>11. \A i \in DOMAIN called' :
           \/ i \in DOMAIN called /\ called'[i] = called[i]
           \/ i = Len(called) + 1 /\ called'[i] = call.id /\ call.id \in once
    BY <1>2, <1>4 DEF TargetTypeOK, Call
  <1>12. called' \in Seq(0 .. MaxListeners - 1)
    <2>1. called \in Seq(0 .. MaxListeners - 1) /\ call.id \in 0 .. MaxListeners - 1
      BY <1>4 DEF TargetTypeOK, Call
    <2>2. Append(called, call.id) \in Seq(0 .. MaxListeners - 1)
      BY <2>1
    <2> QED
      BY <1>2, <2>1, <2>2
  <1>13. CalledOnce'
    <2>1. called \in Seq(0 .. MaxListeners - 1)
      BY DEF TargetTypeOK
    <2>2. Len(called) + 1 \notin DOMAIN called
      BY <2>1
    <2> QED
      BY <1>10, <1>11, <2>2 DEF CalledOnce
  <1>14. OnceServed'
    <2>1. \A i \in DOMAIN called' : called'[i] \in once' /\ \A l \in listeners' : l.id # called'[i]
      BY <1>1, <1>10, <1>11 DEF OnceServed
    <2>2. ASSUME NEW i \in DOMAIN stack', NEW x \in stack'[i].todo, x.id \in once
          PROVE  /\ \A j \in DOMAIN called' : called'[j] # x.id
                 /\ \A l \in listeners' : l.id # x.id
                 /\ \A j \in DOMAIN stack' : \A y \in stack'[j].todo : y.id = x.id => i = j /\ x = y
      <3>1. i \in DOMAIN stack /\ x \in stack[i].todo
        BY <1>9
      <3>2. x.id # call.id
        <4>1. CASE i = n
          BY <4>1, <2>2, <1>6, <1>8, <1>10, <3>1
        <4>2. CASE i # n
          BY <4>2, <2>2, <1>10, <3>1
        <4> QED
          BY <4>1, <4>2
      <3>3. /\ \A j \in DOMAIN called : called[j] # x.id
            /\ \A l \in listeners : l.id # x.id
            /\ \A j \in DOMAIN stack : \A y \in stack[j].todo : y.id = x.id => i = j /\ x = y
        BY <3>1, <2>2 DEF OnceServed
      <3> QED
        BY <3>2, <3>3, <1>1, <1>9, <1>11
    <2> QED
      BY <1>1, <2>1, <2>2 DEF OnceServed
  <1>15. TargetTypeOK'
    BY <1>1, <1>9, <1>12 DEF TargetTypeOK
  <1>16. ListShape' /\ HandlerHasOnePlace'
    BY <1>1 DEF ListShape, HandlerHasOnePlace
  <1>17. CallbacksHeld'
    BY <1>1, <1>7 DEF CallbacksHeld, Waiting
  <1> QED
    BY <1>9, <1>13, <1>14, <1>15, <1>16, <1>17

LEMMA CallbackReturnsStep ==
  ASSUME TargetInv, CallbackReturns
  PROVE  TargetInv'
  <1> USE DEF TargetInv, TargetShape, ListenersServed
  <1> DEFINE f == [todo |-> Top.todo, running |-> {}]
  <1>1. stack # <<>> /\ UNCHANGED <<listeners, nextId, handler, once, called, finalized>>
    BY DEF CallbackReturns
  <1>2. PICK call \in Top.running : SetTop(f) /\ refs' = Release(refs, call.callback)
    BY DEF CallbackReturns
  <1>3. Top \in Frame
    BY <1>1, TopOfStack DEF TargetTypeOK
  <1>4. f \in Frame /\ call.callback \in Callbacks
    BY <1>3 DEF Frame, Call
  <1>5. /\ IsFiniteSet(Unreturned')
        /\ \A c \in Callbacks : Waiting(c) = Waiting(c)' + (IF call.callback = c THEN 1 ELSE 0)
    BY <1>1, <1>2, WaitingReturns DEF TargetTypeOK
  <1>6. f.todo = Top.todo /\ f.running = {}
    OBVIOUS
  <1>7. SetTop(f)
    BY <1>2
  <1> HIDE DEF f
  <1>8. /\ stack' \in Seq(Frame)
        /\ \A i \in DOMAIN stack' : i \in DOMAIN stack /\ stack'[i].todo \subseteq stack[i].todo
        /\ StackShape'
    BY <1>1, <1>4, <1>5, <1>6, <1>7, TopChange
  <1>9. OnceServed'
    <2>1. ASSUME NEW i \in DOMAIN stack', NEW x \in stack'[i].todo, x.id \in once
          PROVE  /\ \A j \in DOMAIN called : called[j] # x.id
                 /\ \A l \in listeners : l.id # x.id
                 /\ \A j \in DOMAIN stack' : \A y \in stack'[j].todo : y.id = x.id => i = j /\ x = y
      BY <2>1, <1>8 DEF OnceServed
    <2> QED
      BY <2>1, <1>1 DEF OnceServed
  <1>10. CallbacksHeld'
    <2> SUFFICES ASSUME NEW d \in Callbacks
                 PROVE  refs'[d] = HeldBy(listeners', d) + (IF handler' = d THEN 1 ELSE 0) + Waiting(d)'
      BY DEF CallbacksHeld
    <2>1. Waiting(d)' \in Nat
      BY <1>5, WaitingIsNat DEF Waiting
    <2>2. refs[d] = HeldBy(listeners, d) + (IF handler = d THEN 1 ELSE 0) + Waiting(d)
      BY DEF CallbacksHeld
    <2>3. refs'[d] = refs[d] - (IF call.callback = d THEN 1 ELSE 0)
      BY <1>2, <1>4, EventTargetAssumption DEF TargetTypeOK, Release
    <2>4. HeldBy(listeners, d) \in Nat
      BY HeldIsNat DEF ListShape
    <2> QED
      BY <1>1, <1>5, <2>1, <2>2, <2>3, <2>4
  <1>11. refs' = [d \in Callbacks |-> refs'[d]]
    BY <1>2, <1>4, EventTargetAssumption DEF TargetTypeOK, Release
  <1>12. ListShape' /\ HandlerHasOnePlace' /\ CalledOnce'
    BY <1>1 DEF ListShape, HandlerHasOnePlace, CalledOnce
  <1>13. refs' \in [Callbacks -> Nat]
    BY <1>5, <1>10, <1>11, <1>12, RefsTyped DEF ListShape
  <1>14. TargetTypeOK'
    BY <1>1, <1>8, <1>13 DEF TargetTypeOK
  <1> QED
    BY <1>8, <1>9, <1>10, <1>12, <1>14

LEMMA EndDispatchStep ==
  ASSUME TargetInv, EndDispatch
  PROVE  TargetInv'
  <1> USE DEF TargetInv, TargetShape, ListenersServed
  <1> DEFINE n == Len(stack)
  <1>1. /\ stack # <<>> /\ Top.running = {} /\ Top.todo = {} /\ stack' = Front(stack)
        /\ UNCHANGED <<listeners, nextId, handler, refs, once, called, finalized>>
    BY DEF EndDispatch
  <1>2. /\ stack' \in Seq(Frame) /\ DOMAIN stack = DOMAIN stack' \cup {n}
        /\ \A i \in DOMAIN stack' : stack'[i] = stack[i]
    <2>1. stack \in Seq(Frame)
      BY DEF TargetTypeOK
    <2>2. /\ Front(stack) \in Seq(Frame) /\ DOMAIN stack = DOMAIN Front(stack) \cup {n}
          /\ \A i \in DOMAIN Front(stack) : Front(stack)[i] = stack[i]
      BY <1>1, <2>1, FrontOf
    <2> QED
      BY <1>1, <2>2
  <1>3. stack[n].todo = {} /\ stack[n].running = {}
    BY <1>1 DEF Top
  <1> HIDE DEF n
  <1>4. Unreturned' = Unreturned
    <2>1. ASSUME NEW w \in Unreturned
          PROVE  w \in Unreturned'
      <3>1. PICK i \in DOMAIN stack : w \in {i} \X (stack[i].todo \cup stack[i].running)
        BY <2>1 DEF Unreturned
      <3>2. i # n
        BY <3>1, <1>3
      <3>3. i \in DOMAIN stack' /\ w \in {i} \X (stack'[i].todo \cup stack'[i].running)
        BY <3>1, <3>2, <1>2
      <3> QED
        BY <3>3 DEF Unreturned
    <2>2. ASSUME NEW w \in Unreturned'
          PROVE  w \in Unreturned
      <3>1. PICK i \in DOMAIN stack' : w \in {i} \X (stack'[i].todo \cup stack'[i].running)
        BY <2>2 DEF Unreturned
      <3>2. i \in DOMAIN stack /\ w \in {i} \X (stack[i].todo \cup stack[i].running)
        BY <3>1, <1>2
      <3> QED
        BY <3>2 DEF Unreturned
    <2> QED
      BY <2>1, <2>2
  <1>5. TargetTypeOK'
    BY <1>1, <1>2 DEF TargetTypeOK
  <1>6. ListShape' /\ HandlerHasOnePlace' /\ CalledOnce'
    BY <1>1 DEF ListShape, HandlerHasOnePlace, CalledOnce
  <1>7. StackShape'
    BY <1>1, <1>2, <1>4 DEF StackShape
  <1>8. OnceServed'
    BY <1>1, <1>2 DEF OnceServed
  <1>9. CallbacksHeld'
    BY <1>1, <1>4 DEF CallbacksHeld, Waiting
  <1> QED
    BY <1>5, <1>6, <1>7, <1>8, <1>9

(* Every step of the listeners keeps their invariant.                      *)
LEMMA TargetStep ==
  ASSUME TargetInv,
         \/ TargetScript \/ TargetSteps
         \/ \E type \in Types : Begin(type)
         \/ UNCHANGED targetVars
  PROVE  TargetInv'
  <1>1. CASE TargetScript
    BY <1>1, AddListenerStep, RemoveListenerStep, SetHandlerStep, BeginStep DEF TargetScript, DispatchEvent
  <1>2. CASE TargetSteps
    BY <1>2, CallNextStep, CallbackReturnsStep, EndDispatchStep, ReleaseEngineValuesStep DEF TargetSteps
  <1>3. CASE \E type \in Types : Begin(type)
    BY <1>3, BeginStep
  <1>4. CASE UNCHANGED targetVars
    BY <1>4 DEF targetVars, TargetInv, TargetShape, TargetTypeOK, ListShape, StackShape, OnceServed,
                ListenersServed, CallbacksHeld, CalledOnce, HandlerHasOnePlace, Waiting, Unreturned
  <1> QED
    BY <1>1, <1>2, <1>3, <1>4

(* A set of naturals that is not empty has a least element.                *)
LEMMA LeastNatural ==
  ASSUME NEW T, T \subseteq Nat, T # {}
  PROVE  \E x \in T : \A y \in T : x <= y
  <1>1. PICK x \in T : \A y \in T : ~(<<y, x>> \in OpToRel(<, Nat))
    BY NatLessThanWellFounded, WFMin
  <1>2. \A y \in T : ~(y < x)
    BY <1>1 DEF OpToRel
  <1> QED
    BY <1>2

(***************************************************************************)
(* The inductive invariant of the scopes.                                  *)
(***************************************************************************)
ErrorTypeOK ==
  /\ scopes \in Seq(Scope) /\ native \in Seq(Scope) /\ nextScope \in 0 .. MaxScopes
  /\ pops \in [Pops -> Pop] /\ queue \in Seq(Record) /\ collected \subseteq [at : Nat, of : Errors]
  /\ lost \in BOOLEAN /\ errors \in [Errors -> Error] /\ raised \in Seq(Errors)

(* The halves of the scopes move together, and an inner scope is younger.  *)
ScopesPaired ==
  /\ DOMAIN scopes = DOMAIN native
  /\ \A i \in DOMAIN native :
       /\ scopes[i].id = native[i].id /\ scopes[i].filter = native[i].filter
       /\ native[i].id <= nextScope
  /\ \A i, j \in DOMAIN native : i < j => native[i].id < native[j].id

(* What is raised is raised once, while its scope is open.                 *)
RaisedOnce ==
  /\ \A e \in Errors : errors[e].at # "nowhere" <=> \E i \in DOMAIN raised : raised[i] = e
  /\ \A i, j \in DOMAIN raised : raised[i] = raised[j] => i = j
  /\ \A e \in Errors : errors[e].home <= nextScope

(* A request has closed its scope, and no other has.                       *)
PopsClose ==
  /\ \A p \in Pops :
       /\ pops[p].scope <= nextScope
       /\ \A i \in DOMAIN native : native[i].id # pops[p].scope
       /\ pops[p].state = "unused" => pops[p].scope = 0
       /\ pops[p].scope = 0 => pops[p].synthetic = None /\ pops[p].native = None
       /\ pops[p].scope = 0 /\ pops[p].state # "unused" => ~pops[p].ok
       /\ pops[p].state = "resolved" =>
            /\ pops[p].ok
            /\ \/ pops[p].value = pops[p].native /\ pops[p].value # None
               \/ pops[p].value = pops[p].synthetic /\ pops[p].value # None
               \/ /\ pops[p].value = None
                  /\ lost \/ (pops[p].native = None /\ pops[p].synthetic = None)
  /\ \A p, q \in Pops : pops[p].scope = pops[q].scope /\ pops[p].scope # 0 => p = q

(* e is the first error a half of the scope s has caught, None if there    *)
(* is none.                                                                *)
FirstCaught(e, half, s) ==
  IF e = None THEN \A f \in RaisedIn(s) : errors[f].half # half
  ELSE /\ e \in RaisedIn(s) /\ errors[e].half = half
       /\ ~\E f \in RaisedIn(s) : errors[f].half = half /\ Before(f, e)

(* A half holds the first error it caught, on the stack and in a request.  *)
FirstKept ==
  /\ \A i \in DOMAIN scopes :
       IF lost THEN scopes[i].error = None ELSE FirstCaught(scopes[i].error, "binding", scopes[i].id)
  /\ \A i \in DOMAIN native : FirstCaught(native[i].error, "backend", native[i].id)
  /\ \A p \in Pops : pops[p].scope # 0 =>
       /\ FirstCaught(pops[p].native, "backend", pops[p].scope)
       /\ \/ FirstCaught(pops[p].synthetic, "binding", pops[p].scope)
          \/ lost /\ pops[p].synthetic = None

Open(p) == pops[p].state \in {"pending", "queued"}

(* An error a scope has kept is where its half and its home say.           *)
KeptInPlace ==
  /\ \A i \in DOMAIN scopes : scopes[i].error # None => errors[scopes[i].error].at = "scope"
  /\ \A i \in DOMAIN native : native[i].error # None => errors[native[i].error].at = "scope"
  /\ \A p \in Pops : Open(p) => \A e \in Errors : Holds(pops[p], e) => errors[e].at = "scope"
  /\ \A e \in Errors : errors[e].at = "scope" =>
       \/ \E i \in DOMAIN scopes : scopes[i].error = e
       \/ \E i \in DOMAIN native : native[i].error = e
       \/ \E p \in Pops : Open(p) /\ Holds(pops[p], e)

ErrorRecord(e) == [kind |-> "error", of |-> e]

(* The queue and the drain hold an error once.                             *)
QueuedOnce ==
  /\ \A i \in DOMAIN queue : queue[i].kind = "pop" => pops[queue[i].of].state = "queued"
  /\ \A i \in DOMAIN queue : queue[i].kind = "error" => errors[queue[i].of].at = "queue"
  /\ \A i, j \in DOMAIN queue : queue[i].kind = "error" /\ queue[i] = queue[j] => i = j
  /\ \A e \in Errors : errors[e].at = "queue" => \E i \in DOMAIN queue : queue[i] = ErrorRecord(e)
  /\ \A r \in collected : errors[r.of].at = "drain"
  /\ \A r, s \in collected : r.of = s.of => r = s
  /\ \A e \in Errors : errors[e].at = "drain" => \E r \in collected : r.of = e

(* A promise that reports an error is the one of its scope.                *)
ReportedOnce ==
  /\ \A p \in Pops : pops[p].state = "resolved" /\ pops[p].value # None =>
       errors[pops[p].value].at = "reported"
  /\ \A e \in Errors : errors[e].at = "reported" =>
       \E p \in Pops : pops[p].state = "resolved" /\ pops[p].value = e

(* Why nobody hears of an error, and which errors become events.           *)
Excused ==
  \A e \in Errors :
    /\ errors[e].at \in {"shadowed", "eclipsed"} => \E f \in RaisedIn(errors[e].home) : f # e
    /\ errors[e].at = "silenced" => lost
    /\ errors[e].at \in {"dispatched", "drain", "queue", "backend"} => errors[e].home = 0

ScopesInv == /\ ErrorTypeOK /\ ScopesPaired /\ RaisedOnce /\ PopsClose /\ FirstKept
             /\ KeptInPlace /\ QueuedOnce /\ ReportedOnce /\ Excused

(***************************************************************************)
(* The errors a scope has to tell.                                         *)
(***************************************************************************)
NothingRaised ==
  /\ raised' = raised
  /\ \A e \in Errors :
       /\ errors'[e].half = errors[e].half /\ errors'[e].home = errors[e].home
       /\ errors'[e].at = "nowhere" <=> errors[e].at = "nowhere"

(* While nothing is raised the scopes have to tell what they had.          *)
LEMMA QuietCaught ==
  ASSUME NothingRaised
  PROVE  /\ \A s : RaisedIn(s)' = RaisedIn(s)
         /\ \A x, half, s : FirstCaught(x, half, s) => FirstCaught(x, half, s)'
  <1>1. \A s : RaisedIn(s)' = RaisedIn(s)
    BY DEF RaisedIn, NothingRaised
  <1>2. \A s : RaisedIn(s) \subseteq Errors
    BY DEF RaisedIn
  <1>3. ASSUME NEW x, NEW half, NEW s, FirstCaught(x, half, s)
        PROVE  FirstCaught(x, half, s)'
    <2>1. \A f \in RaisedIn(s) : errors'[f].half = errors[f].half
      BY <1>2 DEF NothingRaised
    <2>2. \A f : Before(f, x)' <=> Before(f, x)
      BY DEF Before, NothingRaised
    <2> QED
      BY <1>1, <1>3, <2>1, <2>2 DEF FirstCaught
  <1> QED
    BY <1>1, <1>3

(* What raising e in the scope home does.                                  *)
LEMMA Raising ==
  ASSUME ErrorTypeOK, RaisedOnce, UNCHANGED nextScope,
         NEW e \in Errors, errors[e].at = "nowhere",
         NEW half \in {"binding", "backend"}, NEW type \in ErrorTypes,
         NEW home \in 0 .. MaxScopes, home <= nextScope,
         NEW where \in {"scope", "shadowed", "backend", "queue", "silenced"},
         \A f \in Errors \ {e} : errors'[f] = errors[f],
         errors'[e] = [at |-> where, half |-> half, type |-> type, home |-> home],
         raised' = Append(raised, e)
  PROVE  /\ RaisedOnce'
         /\ \A s : RaisedIn(s) \subseteq RaisedIn(s)' /\ e \notin RaisedIn(s)
         /\ \A x, h, s : FirstCaught(x, h, s) /\ (x # None \/ h # half \/ s # home)
                           => FirstCaught(x, h, s)'
         /\ FirstCaught(None, half, home) => FirstCaught(e, half, home)'
  <1>2. /\ \A f \in Errors \ {e} : errors'[f] = errors[f]
        /\ errors'[e].at = where /\ errors'[e].half = half /\ errors'[e].home = home
        /\ where # "nowhere"
    BY DEF ErrorTypeOK
  <1>3. /\ Len(raised) + 1 \notin DOMAIN raised
        /\ DOMAIN raised' = DOMAIN raised \cup {Len(raised) + 1}
        /\ raised'[Len(raised) + 1] = e
        /\ \A i \in DOMAIN raised : raised'[i] = raised[i] /\ i < Len(raised) + 1 /\ i \in Nat
    BY DEF ErrorTypeOK
  <1>4. \A i \in DOMAIN raised : raised[i] # e
    BY DEF RaisedOnce
  <1>5. RaisedOnce'
    <2>1. ASSUME NEW f \in Errors
          PROVE  errors'[f].at # "nowhere" <=> \E i \in DOMAIN raised' : raised'[i] = f
      <3>1. CASE f = e
        BY <3>1, <1>2, <1>3
      <3>2. CASE f # e
        BY <3>2, <1>2, <1>3 DEF RaisedOnce
      <3> QED
        BY <3>1, <3>2
    <2>2. \A i, j \in DOMAIN raised' : raised'[i] = raised'[j] => i = j
      BY <1>3, <1>4 DEF RaisedOnce
    <2>3. \A f \in Errors : errors'[f].home <= nextScope'
      BY <1>2 DEF RaisedOnce
    <2> QED
      BY <2>1, <2>2, <2>3 DEF RaisedOnce
  <1>6. \A s : RaisedIn(s) \subseteq Errors \ {e}
    BY DEF RaisedIn
  <1>7. \A s : RaisedIn(s) \subseteq RaisedIn(s)' /\ \A f \in RaisedIn(s)' : f \in RaisedIn(s) \/ (f = e /\ s = home)
    BY <1>2, <1>6 DEF RaisedIn
  <1>8. \A f, x : x # e => (Before(f, x)' <=> Before(f, x))
    <2> SUFFICES ASSUME NEW f, NEW x, x # e
                 PROVE  Before(f, x)' <=> Before(f, x)
      OBVIOUS
    <2>1. Before(f, x) => Before(f, x)'
      BY <1>3 DEF Before
    <2>2. Before(f, x)' => Before(f, x)
      <3> SUFFICES ASSUME NEW i \in DOMAIN raised', NEW j \in DOMAIN raised',
                          i < j, raised'[i] = f, raised'[j] = x
                   PROVE  Before(f, x)
        BY DEF Before
      <3>1. j \in DOMAIN raised
        BY <1>3
      <3>2. i \in DOMAIN raised
        BY <3>1, <1>3
      <3> QED
        BY <3>1, <3>2, <1>3 DEF Before
    <2> QED
      BY <2>1, <2>2
  <1>9. ASSUME NEW x, NEW h, NEW s, FirstCaught(x, h, s), x # None \/ h # half \/ s # home
        PROVE  FirstCaught(x, h, s)'
    <2>1. CASE x = None
      <3>1. ASSUME NEW f \in RaisedIn(s)'
            PROVE  errors'[f].half # h
        <4>1. CASE f \in RaisedIn(s)
          BY <4>1, <2>1, <1>2, <1>6, <1>9 DEF FirstCaught
        <4>2. CASE f = e /\ s = home
          BY <4>2, <2>1, <1>2, <1>9
        <4> QED
          BY <4>1, <4>2, <1>7
      <3> QED
        BY <3>1, <2>1 DEF FirstCaught
    <2>2. CASE x # None
      <3>1. x \in RaisedIn(s) /\ errors[x].half = h /\ x # e /\ x \in Errors
        BY <2>2, <1>6, <1>9 DEF FirstCaught
      <3>2. ASSUME NEW f \in RaisedIn(s)', errors'[f].half = h, Before(f, x)'
            PROVE  FALSE
        <4>1. Before(f, x)
          BY <3>1, <3>2, <1>8
        <4>2. f # e
          BY <4>1, <1>4 DEF Before
        <4>3. f \in RaisedIn(s) /\ errors[f].half = h
          BY <4>2, <3>2, <1>2, <1>6, <1>7
        <4> QED
          BY <4>1, <4>3, <2>2, <1>9 DEF FirstCaught
      <3>3. x \in RaisedIn(s)' /\ errors'[x].half = h
        BY <3>1, <1>2, <1>7
      <3> QED
        BY <3>2, <3>3, <2>2 DEF FirstCaught
    <2> QED
      BY <2>1, <2>2
  <1>10. ASSUME FirstCaught(None, half, home)
         PROVE  FirstCaught(e, half, home)'
    <2>1. e \in RaisedIn(home)' /\ errors'[e].half = half /\ e # None
      BY <1>2, ErrorScopesAssumption DEF RaisedIn
    <2>2. ASSUME NEW f \in RaisedIn(home)', errors'[f].half = half, Before(f, e)'
          PROVE  FALSE
      <3>1. PICK i \in DOMAIN raised', j \in DOMAIN raised' : i < j /\ raised'[i] = f /\ raised'[j] = e
        BY <2>2 DEF Before
      <3>2. j = Len(raised) + 1
        BY <3>1, <1>3, <1>4
      <3>3. f # e
        BY <3>1, <3>2, <1>3, <1>4
      <3>4. f \in RaisedIn(home) /\ errors[f].half = half
        BY <3>3, <2>2, <1>2, <1>6, <1>7
      <3> QED
        BY <3>4, <1>10 DEF FirstCaught
    <2> QED
      BY <2>1, <2>2 DEF FirstCaught
  <1> QED
    BY <1>5, <1>6, <1>7, <1>9, <1>10

(***************************************************************************)
(* The scope an error is raised in.                                        *)
(***************************************************************************)
LEMMA InnermostExists ==
  ASSUME ErrorTypeOK, NEW type, Matching(native, type) # {}
  PROVE  \E i \in DOMAIN native : Catches(i, native, type)
  <1> DEFINE n == Len(native)
             T == {n - i : i \in Matching(native, type)}
  <1>1. n \in Nat /\ \A i \in Matching(native, type) : i \in DOMAIN native /\ i \in 1 .. n
    BY DEF ErrorTypeOK, Matching
  <1>2. T \subseteq Nat /\ T # {}
    <2> HIDE DEF n
    <2> QED
      BY <1>1
  <1>3. PICK x \in T : \A y \in T : x <= y
    BY <1>2, LeastNatural
  <1>4. PICK i \in Matching(native, type) : x = n - i
    BY <1>3
  <1>5. ASSUME NEW j \in Matching(native, type)
        PROVE  j <= i
    <2>1. n - i <= n - j
      BY <1>3, <1>4
    <2> HIDE DEF n
    <2> QED
      BY <2>1, <1>1, <1>4
  <1> QED
    BY <1>1, <1>4, <1>5 DEF Catches

(* It is the innermost open scope with the filter of the error.            *)
LEMMA HomeIsInnermost ==
  ASSUME ErrorTypeOK, ScopesPaired, NEW type, NEW i \in DOMAIN native, Catches(i, native, type)
  PROVE  HomeOf(type) = native[i].id
  <1> DEFINE S == {0} \cup {native[j].id : j \in Matching(native, type)}
             top == native[i].id
  <1>1. \A j \in DOMAIN native : j \in Nat /\ native[j].id \in Nat
    <2>1. \A j \in DOMAIN native : j \in Nat /\ native[j] \in Scope
      BY DEF ErrorTypeOK
    <2>2. \A x \in Scope : x.id \in Nat
      BY ErrorScopesAssumption DEF Scope
    <2> QED
      BY <2>1, <2>2
  <1>2. i \in Matching(native, type) /\ \A j \in Matching(native, type) : j \in DOMAIN native /\ j <= i
    BY DEF Catches, Matching
  <1>3. ASSUME NEW j \in Matching(native, type)
        PROVE  native[j].id <= top /\ native[j].id \in Nat
    <2>1. j < i \/ j = i
      BY <1>1, <1>2
    <2> QED
      BY <2>1, <1>1, <1>2 DEF ScopesPaired
  <1>4. top \in S /\ top \in Nat /\ \A y \in S : y \in Nat /\ top >= y
    BY <1>1, <1>2, <1>3
  <1> HIDE DEF S, top
  <1>5. \A x \in S : (\A y \in S : x >= y) => x = top
    BY <1>4
  <1>6. Max(S) = top
    BY <1>4, <1>5 DEF Max
  <1> QED
    BY <1>6 DEF HomeOf, S, top

LEMMA HomeIsNone ==
  ASSUME NEW type, Matching(native, type) = {}
  PROVE  HomeOf(type) = 0
  <1>1. {0} \cup {native[i].id : i \in Matching(native, type)} = {0}
    OBVIOUS
  <1>2. Max({0}) = 0
    BY DEF Max
  <1> QED
    BY <1>1, <1>2 DEF HomeOf

LEMMA HomeIsOpen ==
  ASSUME ErrorTypeOK, ScopesPaired, NEW type
  PROVE  /\ HomeOf(type) \in 0 .. MaxScopes /\ HomeOf(type) <= nextScope
         /\ HomeOf(type) = 0 \/ \E i \in DOMAIN native : HomeOf(type) = native[i].id
  <1>1. nextScope \in Nat /\ MaxScopes \in Nat
    BY ErrorScopesAssumption DEF ErrorTypeOK
  <1>2. CASE Matching(native, type) = {}
    BY <1>1, <1>2, HomeIsNone
  <1>3. CASE Matching(native, type) # {}
    <2>1. PICK i \in DOMAIN native : HomeOf(type) = native[i].id
      BY <1>3, InnermostExists, HomeIsInnermost
    <2>2. native[i] \in Scope /\ native[i].id <= nextScope
      BY DEF ErrorTypeOK, ScopesPaired
    <2> QED
      BY <1>1, <2>1, <2>2 DEF Scope
  <1> QED
    BY <1>2, <1>3

(* The halves agree on the innermost scope.                                *)
LEMMA HalvesMatch ==
  ASSUME ScopesPaired, NEW type
  PROVE  /\ Matching(scopes, type) = Matching(native, type)
         /\ \A i : Catches(i, scopes, type) <=> Catches(i, native, type)
  BY DEF ScopesPaired, Matching, Catches

(***************************************************************************)
(* The steps of the scopes.                                                *)
(***************************************************************************)
LEMMA ScopesStart == Init => ScopesInv
  <1> SUFFICES ASSUME Init
               PROVE  ScopesInv
    OBVIOUS
  <1> USE ErrorScopesAssumption DEF Init
  <1>1. ErrorTypeOK
    <2>1. scopes \in Seq(Scope) /\ native \in Seq(Scope) /\ queue \in Seq(Record) /\ raised \in Seq(Errors)
      OBVIOUS
    <2>2. pops \in [Pops -> Pop]
      BY DEF Pop
    <2>3. errors \in [Errors -> Error]
      BY DEF Error, ErrorTypes, Filters
    <2>4. nextScope = 0 /\ lost = FALSE /\ collected = {} /\ MaxScopes \in Nat
      OBVIOUS
    <2> HIDE DEF Init
    <2>5. nextScope \in 0 .. MaxScopes
      BY <2>4
    <2>6. lost \in BOOLEAN /\ collected \subseteq [at : Nat, of : Errors]
      BY <2>4
    <2> QED
      BY <2>1, <2>2, <2>3, <2>5, <2>6 DEF ErrorTypeOK
  <1>2. \A p \in Pops : pops[p].scope = 0 /\ pops[p].state = "unused" /\ pops[p].synthetic = None /\ pops[p].native = None
    OBVIOUS
  <1>3. \A e \in Errors : errors[e].at = "nowhere" /\ errors[e].home = 0
    OBVIOUS
  <1>4. ScopesPaired /\ RaisedOnce
    BY <1>3 DEF ScopesPaired, RaisedOnce
  <1>5. PopsClose
    BY <1>2 DEF PopsClose
  <1>6. FirstKept
    BY <1>2 DEF FirstKept
  <1>7. KeptInPlace /\ QueuedOnce /\ ReportedOnce /\ Excused
    BY <1>2, <1>3 DEF KeptInPlace, QueuedOnce, ReportedOnce, Excused, Open
  <1> QED
    BY <1>1, <1>4, <1>5, <1>6, <1>7 DEF ScopesInv

LEMMA AppendTo ==
  ASSUME NEW S, NEW s \in Seq(S), NEW x \in S
  PROVE  /\ Append(s, x) \in Seq(S)
         /\ DOMAIN Append(s, x) = DOMAIN s \cup {Len(s) + 1} /\ Len(s) + 1 \notin DOMAIN s
         /\ Append(s, x)[Len(s) + 1] = x /\ Len(s) \in Nat
         /\ \A i \in DOMAIN s : i \in Nat /\ i < Len(s) + 1 /\ Append(s, x)[i] = s[i]
  OBVIOUS

(* What the entries of the stacks and the requests are.                    *)
LEMMA ScopeTypes ==
  ASSUME ErrorTypeOK
  PROVE  /\ nextScope \in Nat /\ MaxScopes \in Nat /\ None \notin Errors
         /\ \A i \in DOMAIN scopes : i \in Nat /\ scopes[i] \in Scope /\ scopes[i].id \in Nat \ {0}
                                     /\ scopes[i].error \in Errors \cup {None}
         /\ \A i \in DOMAIN native : i \in Nat /\ native[i] \in Scope /\ native[i].id \in Nat \ {0}
                                     /\ native[i].error \in Errors \cup {None}
         /\ \A p \in Pops : pops[p] \in Pop /\ pops[p].scope \in Nat
         /\ \A e \in Errors : errors[e] \in Error /\ errors[e].home \in Nat
  <1> USE ErrorScopesAssumption
  <1>1. \A x \in Scope : x.id \in Nat \ {0} /\ x.error \in Errors \cup {None}
    BY DEF Scope
  <1>2. \A x \in Pop : x.scope \in Nat
    BY DEF Pop
  <1>3. \A x \in Error : x.home \in Nat
    BY DEF Error
  <1>4. \A i \in DOMAIN scopes : i \in Nat /\ scopes[i] \in Scope
    BY DEF ErrorTypeOK
  <1>5. \A i \in DOMAIN native : i \in Nat /\ native[i] \in Scope
    BY DEF ErrorTypeOK
  <1>6. nextScope \in Nat
    BY DEF ErrorTypeOK
  <1>7. (\A p \in Pops : pops[p] \in Pop) /\ \A e \in Errors : errors[e] \in Error
    BY DEF ErrorTypeOK
  <1> QED
    BY <1>1, <1>2, <1>3, <1>4, <1>5, <1>6, <1>7

(* What a step has to leave the halves and the requests with.              *)
LEMMA FirstKeptNext ==
  ASSUME \A i \in DOMAIN scopes' : \A x, s : x = scopes'[i].error /\ s = scopes'[i].id =>
           IF lost' THEN x = None ELSE FirstCaught(x, "binding", s)',
         \A i \in DOMAIN native' : \A x, s : x = native'[i].error /\ s = native'[i].id =>
           FirstCaught(x, "backend", s)',
         \A p \in Pops : \A x, y, s :
           x = pops'[p].native /\ y = pops'[p].synthetic /\ s = pops'[p].scope /\ s # 0 =>
             /\ FirstCaught(x, "backend", s)'
             /\ FirstCaught(y, "binding", s)' \/ (lost' /\ y = None)
  PROVE  FirstKept'
  <1>1. \A i \in DOMAIN scopes' :
          IF lost' THEN scopes'[i].error = None ELSE FirstCaught(scopes[i].error, "binding", scopes[i].id)'
    BY DEF FirstCaught
  <1>2. \A i \in DOMAIN native' : FirstCaught(native[i].error, "backend", native[i].id)'
    BY DEF FirstCaught
  <1>3. \A p \in Pops : pops'[p].scope # 0 =>
          /\ FirstCaught(pops[p].native, "backend", pops[p].scope)'
          /\ FirstCaught(pops[p].synthetic, "binding", pops[p].scope)' \/ (lost' /\ pops'[p].synthetic = None)
    BY DEF FirstCaught
  <1> QED
    BY <1>1, <1>2, <1>3 DEF FirstKept

LEMMA PushStep ==
  ASSUME ScopesInv, NEW filter \in Filters, PushErrorScope(filter)
  PROVE  ScopesInv'
  <1> DEFINE new == [id |-> nextScope + 1, filter |-> filter, error |-> None]
             n == Len(native) + 1
  <1> USE DEF ScopesInv
  <1>1. /\ nextScope' = nextScope + 1 /\ nextScope < MaxScopes
        /\ scopes' = Append(scopes, new) /\ native' = Append(native, new)
        /\ UNCHANGED <<pops, queue, collected, lost, errors, raised>>
    BY DEF PushErrorScope
  <1>2. /\ nextScope \in Nat /\ MaxScopes \in Nat
        /\ \A i \in DOMAIN native : native[i].id \in Nat \ {0}
        /\ \A p \in Pops : pops[p].scope \in Nat
        /\ \A e \in Errors : errors[e].home \in Nat
    BY ScopeTypes
  <1>3. /\ new \in Scope /\ new.id = nextScope + 1 /\ new.filter = filter /\ new.error = None
    BY <1>1, <1>2 DEF Scope
  <1> HIDE DEF new
  <1>4. n = Len(scopes) + 1
    BY DEF ErrorTypeOK, ScopesPaired
  <1>5. /\ scopes' \in Seq(Scope) /\ DOMAIN scopes' = DOMAIN scopes \cup {n}
        /\ scopes'[n] = new /\ \A i \in DOMAIN scopes : scopes'[i] = scopes[i]
    BY <1>1, <1>3, <1>4, AppendTo DEF ErrorTypeOK
  <1>6. /\ native' \in Seq(Scope) /\ DOMAIN native' = DOMAIN native \cup {n} /\ n \notin DOMAIN native
        /\ native'[n] = new /\ \A i \in DOMAIN native : native'[i] = native[i] /\ i \in Nat /\ i < n /\ n \in Nat
    BY <1>1, <1>3, AppendTo DEF ErrorTypeOK
  <1> HIDE DEF n
  <1>7. ErrorTypeOK'
    <2>1. nextScope' \in 0 .. MaxScopes
      BY <1>1, <1>2
    <2> QED
      BY <2>1, <1>1, <1>5, <1>6 DEF ErrorTypeOK
  <1>8. ScopesPaired'
    <2>1. \A i \in DOMAIN native : native[i].id < nextScope + 1
      BY <1>2 DEF ScopesPaired
    <2>2. DOMAIN scopes' = DOMAIN native'
      BY <1>5, <1>6 DEF ScopesPaired
    <2>3. ASSUME NEW i \in DOMAIN native'
          PROVE  scopes'[i].id = native'[i].id /\ scopes'[i].filter = native'[i].filter /\ native'[i].id <= nextScope'
      <3>1. CASE i = n
        BY <3>1, <1>1, <1>2, <1>3, <1>5, <1>6
      <3>2. CASE i \in DOMAIN native
        BY <3>2, <2>1, <1>1, <1>2, <1>5, <1>6 DEF ScopesPaired
      <3> QED
        BY <3>1, <3>2, <1>6
    <2>4. ASSUME NEW i \in DOMAIN native', NEW j \in DOMAIN native', i < j
          PROVE  native'[i].id < native'[j].id
      <3>1. i \in DOMAIN native
        BY <2>4, <1>6
      <3>2. CASE j = n
        BY <3>1, <3>2, <2>1, <1>3, <1>6
      <3>3. CASE j \in DOMAIN native
        BY <3>1, <3>3, <2>4, <1>6 DEF ScopesPaired
      <3> QED
        BY <3>2, <3>3, <1>6
    <2> QED
      BY <2>2, <2>3, <2>4 DEF ScopesPaired
  <1>9. RaisedOnce'
    BY <1>1, <1>2 DEF RaisedOnce
  <1>10. PopsClose'
    <2>1. \A p \in Pops : pops[p].scope <= nextScope' /\ pops[p].scope # nextScope + 1
      BY <1>1, <1>2 DEF PopsClose
    <2>2. \A p \in Pops : \A i \in DOMAIN native' : native'[i].id # pops[p].scope
      BY <2>1, <1>3, <1>6 DEF PopsClose
    <2> QED
      BY <2>1, <2>2, <1>1 DEF PopsClose
  <1>11. \A x, half, s : FirstCaught(x, half, s) => FirstCaught(x, half, s)'
    <2>1. NothingRaised
      BY <1>1 DEF NothingRaised
    <2> QED
      BY <2>1, QuietCaught
  <1>12. \A half : FirstCaught(None, half, nextScope + 1)
    <2>1. RaisedIn(nextScope + 1) = {}
      BY <1>2 DEF RaisedOnce, RaisedIn
    <2> QED
      BY <2>1 DEF FirstCaught
  <1>13. FirstKept'
    <2>1. ASSUME NEW i \in DOMAIN scopes', NEW x, NEW s, x = scopes'[i].error, s = scopes'[i].id
          PROVE  IF lost' THEN x = None ELSE FirstCaught(x, "binding", s)'
      <3>1. CASE i = n
        BY <2>1, <3>1, <1>3, <1>5, <1>11, <1>12
      <3>2. CASE i \in DOMAIN scopes
        <4>1. IF lost THEN x = None ELSE FirstCaught(x, "binding", s)
          BY <2>1, <3>2, <1>5 DEF FirstKept
        <4> QED
          BY <4>1, <1>1, <1>11
      <3> QED
        BY <3>1, <3>2, <1>5
    <2>2. ASSUME NEW i \in DOMAIN native', NEW x, NEW s, x = native'[i].error, s = native'[i].id
          PROVE  FirstCaught(x, "backend", s)'
      <3>1. CASE i = n
        BY <2>2, <3>1, <1>3, <1>6, <1>11, <1>12
      <3>2. CASE i \in DOMAIN native
        <4>1. FirstCaught(x, "backend", s)
          BY <2>2, <3>2, <1>6 DEF FirstKept
        <4> QED
          BY <4>1, <1>11
      <3> QED
        BY <3>1, <3>2, <1>6
    <2>3. ASSUME NEW p \in Pops, NEW x, NEW y, NEW s,
                 x = pops'[p].native, y = pops'[p].synthetic, s = pops'[p].scope, s # 0
          PROVE  /\ FirstCaught(x, "backend", s)'
                 /\ FirstCaught(y, "binding", s)' \/ (lost' /\ y = None)
      <3>1. FirstCaught(x, "backend", s) /\ (FirstCaught(y, "binding", s) \/ (lost /\ y = None))
        BY <2>3, <1>1 DEF FirstKept
      <3> QED
        BY <3>1, <1>1, <1>11
    <2> QED
      BY <2>1, <2>2, <2>3, FirstKeptNext
  <1>14. KeptInPlace'
    <2>1. /\ \A i \in DOMAIN scopes' : scopes'[i].error # None => i \in DOMAIN scopes /\ scopes'[i] = scopes[i]
          /\ \A i \in DOMAIN native' : native'[i].error # None => i \in DOMAIN native /\ native'[i] = native[i]
      BY <1>3, <1>5, <1>6
    <2>2. \A e \in Errors :
            /\ (\E i \in DOMAIN scopes : scopes[i].error = e) => \E i \in DOMAIN scopes' : scopes'[i].error = e
            /\ (\E i \in DOMAIN native : native[i].error = e) => \E i \in DOMAIN native' : native'[i].error = e
      BY <1>5, <1>6
    <2> QED
      BY <2>1, <2>2, <1>1 DEF KeptInPlace, Open, Holds
  <1>15. QueuedOnce' /\ ReportedOnce' /\ Excused'
    BY <1>1 DEF QueuedOnce, ReportedOnce, Excused, RaisedIn, ErrorRecord
  <1> QED
    BY <1>7, <1>8, <1>9, <1>10, <1>13, <1>14, <1>15

LEMMA PopStep ==
  ASSUME ScopesInv, NEW p \in Pops, PopErrorScope(p)
  PROVE  ScopesInv'
  <1> DEFINE n == Len(native)
             taken == [pops[p] EXCEPT !.state = "pending",
                                      !.scope = IF native = <<>> THEN 0 ELSE native[n].id,
                                      !.ok = native # <<>>,
                                      !.synthetic = Caught(scopes),
                                      !.native = Caught(native)]
  <1> USE DEF ScopesInv
  <1>1. /\ pops[p].state = "unused" /\ pops' = [pops EXCEPT ![p] = taken]
        /\ scopes' = Popped(scopes) /\ native' = Popped(native)
        /\ UNCHANGED <<nextScope, queue, collected, lost, errors, raised>>
    BY DEF PopErrorScope
  <1>2. /\ nextScope \in Nat /\ None \notin Errors
        /\ \A i \in DOMAIN scopes : i \in Nat /\ scopes[i].error \in Errors \cup {None}
        /\ \A i \in DOMAIN native : i \in Nat /\ native[i] \in Scope /\ native[i].id \in Nat \ {0}
                                    /\ native[i].error \in Errors \cup {None}
        /\ \A q \in Pops : pops[q] \in Pop /\ pops[q].scope \in Nat
    BY ScopeTypes
  <1>3. \/ native = <<>> /\ scopes = <<>>
        \/ /\ native # <<>> /\ scopes # <<>> /\ Len(scopes) = n
           /\ n \in DOMAIN native /\ n \in DOMAIN scopes
    BY DEF ScopesPaired, ErrorTypeOK
  <1>4. /\ taken.state = "pending" /\ taken.scope = (IF native = <<>> THEN 0 ELSE native[n].id)
        /\ taken.ok = (native # <<>>) /\ taken.synthetic = Caught(scopes) /\ taken.native = Caught(native)
        /\ taken.value = pops[p].value
    BY <1>2 DEF Pop
  <1>5. taken \in Pop
    <2>1. Caught(scopes) \in Errors \cup {None} /\ Caught(native) \in Errors \cup {None}
      BY <1>2, <1>3 DEF Caught
    <2>2. (IF native = <<>> THEN 0 ELSE native[n].id) \in 0 .. MaxScopes
      BY <1>2, <1>3, ErrorScopesAssumption DEF Scope
    <2> QED
      BY <1>2, <2>1, <2>2 DEF Pop
  <1>6. \A q \in Pops : pops'[q] = IF q = p THEN taken ELSE pops[q]
    BY <1>1 DEF ErrorTypeOK
  <1>7. native = <<>> => taken.scope = 0 /\ taken.synthetic = None /\ taken.native = None /\ ~taken.ok
    BY <1>3, <1>4 DEF Caught
  <1>8. native # <<>> => /\ n \in DOMAIN native /\ n \in DOMAIN scopes
                         /\ taken.scope = native[n].id /\ taken.scope = scopes[n].id /\ taken.scope # 0
                         /\ taken.synthetic = scopes[n].error /\ taken.native = native[n].error
    BY <1>2, <1>3, <1>4 DEF Caught, ScopesPaired
  <1>9. native' \in Seq(Scope) /\ scopes' \in Seq(Scope)
    BY <1>1, <1>3, FrontOf DEF Popped, ErrorTypeOK
  <1>10. /\ \A i \in DOMAIN native' : i \in DOMAIN native /\ i # n /\ native'[i] = native[i]
         /\ \A i \in DOMAIN native : i # n => i \in DOMAIN native'
         /\ \A i \in DOMAIN scopes' : i \in DOMAIN scopes /\ i # n /\ scopes'[i] = scopes[i]
         /\ \A i \in DOMAIN scopes : i # n => i \in DOMAIN scopes'
    <2>1. CASE native = <<>> /\ scopes = <<>>
      BY <2>1, <1>1 DEF Popped
    <2>2. CASE native # <<>> /\ scopes # <<>> /\ Len(scopes) = n
      <3>0. native \in Seq(Scope) /\ scopes \in Seq(Scope)
        BY DEF ErrorTypeOK
      <3>1. /\ \A i \in DOMAIN Front(native) : i \in DOMAIN native /\ i # n /\ Front(native)[i] = native[i]
            /\ \A i \in DOMAIN native : i # n => i \in DOMAIN Front(native)
        <4>1. /\ DOMAIN native = DOMAIN Front(native) \cup {n} /\ n \notin DOMAIN Front(native)
              /\ \A i \in DOMAIN Front(native) : Front(native)[i] = native[i]
          BY <2>2, <3>0, FrontOf
        <4> HIDE DEF n
        <4> QED
          BY <4>1
      <3>2. /\ \A i \in DOMAIN Front(scopes) : i \in DOMAIN scopes /\ i # n /\ Front(scopes)[i] = scopes[i]
            /\ \A i \in DOMAIN scopes : i # n => i \in DOMAIN Front(scopes)
        <4>1. /\ DOMAIN scopes = DOMAIN Front(scopes) \cup {Len(scopes)}
              /\ Len(scopes) \notin DOMAIN Front(scopes)
              /\ \A i \in DOMAIN Front(scopes) : Front(scopes)[i] = scopes[i]
          <5>1. scopes # <<>> /\ scopes \in Seq(Scope)
            BY <2>2, <3>0
          <5> HIDE <2>2
          <5> QED
            BY <5>1, FrontOf
        <4>2. Len(scopes) = n
          BY <2>2
        <4> HIDE DEF n
        <4> QED
          BY <4>1, <4>2
      <3>3. native' = Front(native) /\ scopes' = Front(scopes)
        BY <2>2, <1>1 DEF Popped
      <3> QED
        BY <3>1, <3>2, <3>3
    <2> QED
      BY <2>1, <2>2, <1>3
  <1> HIDE DEF n, taken
  <1>11. \A i \in DOMAIN native' : native[i].id # taken.scope
    <2>1. ASSUME NEW i \in DOMAIN native'
          PROVE  native[i].id # taken.scope
      <3>1. CASE native = <<>>
        BY <3>1, <1>2, <1>7, <1>10
      <3>2. CASE native # <<>>
        <4>1. i \in DOMAIN native /\ n \in DOMAIN native /\ i # n /\ taken.scope = native[n].id
          BY <3>2, <1>8, <1>10
        <4>2. i < n \/ n < i
          BY <4>1, <1>2
        <4> QED
          BY <4>1, <4>2, <1>2 DEF ScopesPaired
      <3> QED
        BY <3>1, <3>2
    <2> QED
      BY <2>1
  <1>12. ErrorTypeOK'
    BY <1>1, <1>5, <1>9 DEF ErrorTypeOK
  <1>13. ScopesPaired' /\ RaisedOnce'
    <2>1. DOMAIN scopes' = DOMAIN native'
      BY <1>10 DEF ScopesPaired
    <2> QED
      BY <2>1, <1>1, <1>10 DEF ScopesPaired, RaisedOnce
  <1>14. PopsClose'
    <2>1. ASSUME NEW q \in Pops, q # p
          PROVE  taken.scope # 0 => pops[q].scope # taken.scope
      BY <1>7, <1>8 DEF PopsClose
    <2>2. taken.scope <= nextScope
      BY <1>2, <1>7, <1>8 DEF ScopesPaired
    <2>3. ASSUME NEW q \in Pops
          PROVE  /\ pops'[q].scope <= nextScope
                 /\ \A i \in DOMAIN native' : native'[i].id # pops'[q].scope
      BY <2>2, <1>6, <1>10, <1>11 DEF PopsClose
    <2>4. ASSUME NEW q \in Pops
          PROVE  /\ pops'[q].state = "unused" => pops'[q].scope = 0
                 /\ pops'[q].scope = 0 => pops'[q].synthetic = None /\ pops'[q].native = None
                 /\ pops'[q].scope = 0 /\ pops'[q].state # "unused" => ~pops'[q].ok
                 /\ pops'[q].state = "resolved" =>
                      /\ pops'[q].ok
                      /\ \/ pops'[q].value = pops'[q].native /\ pops'[q].value # None
                         \/ pops'[q].value = pops'[q].synthetic /\ pops'[q].value # None
                         \/ /\ pops'[q].value = None
                            /\ lost \/ (pops'[q].native = None /\ pops'[q].synthetic = None)
      <3>1. CASE q = p
        BY <3>1, <1>4, <1>6, <1>7, <1>8
      <3>2. CASE q # p
        BY <3>2, <1>6 DEF PopsClose
      <3> QED
        BY <3>1, <3>2
    <2>5. \A q, r \in Pops : pops'[q].scope = pops'[r].scope /\ pops'[q].scope # 0 => q = r
      BY <2>1, <1>6 DEF PopsClose
    <2> QED
      BY <2>3, <2>4, <2>5, <1>1 DEF PopsClose
  <1>15. \A x, half, s : FirstCaught(x, half, s) => FirstCaught(x, half, s)'
    <2>1. NothingRaised
      BY <1>1 DEF NothingRaised
    <2> QED
      BY <2>1, QuietCaught
  <1>16. FirstKept'
    <2>1. ASSUME NEW i \in DOMAIN scopes', NEW x, NEW s, x = scopes'[i].error, s = scopes'[i].id
          PROVE  IF lost' THEN x = None ELSE FirstCaught(x, "binding", s)'
      <3>1. IF lost THEN x = None ELSE FirstCaught(x, "binding", s)
        BY <2>1, <1>10 DEF FirstKept
      <3> QED
        BY <3>1, <1>1, <1>15
    <2>2. ASSUME NEW i \in DOMAIN native', NEW x, NEW s, x = native'[i].error, s = native'[i].id
          PROVE  FirstCaught(x, "backend", s)'
      <3>1. FirstCaught(x, "backend", s)
        BY <2>2, <1>10 DEF FirstKept
      <3> QED
        BY <3>1, <1>15
    <2>3. ASSUME NEW q \in Pops, NEW x, NEW y, NEW s,
                 x = pops'[q].native, y = pops'[q].synthetic, s = pops'[q].scope, s # 0
          PROVE  /\ FirstCaught(x, "backend", s)'
                 /\ FirstCaught(y, "binding", s)' \/ (lost' /\ y = None)
      <3>1. FirstCaught(x, "backend", s) /\ (FirstCaught(y, "binding", s) \/ (lost /\ y = None))
        <4>1. CASE q = p
          <5>1. /\ n \in DOMAIN native /\ n \in DOMAIN scopes /\ s = native[n].id /\ s = scopes[n].id
                /\ x = native[n].error /\ y = scopes[n].error
            BY <4>1, <2>3, <1>6, <1>7, <1>8
          <5> QED
            BY <5>1 DEF FirstKept
        <4>2. CASE q # p
          BY <4>2, <2>3, <1>6 DEF FirstKept
        <4> QED
          BY <4>1, <4>2
      <3> QED
        BY <3>1, <1>1, <1>15
    <2> QED
      BY <2>1, <2>2, <2>3, FirstKeptNext
  <1>17. KeptInPlace'
    <2>1. ASSUME NEW q \in Pops, Open(q)', NEW e \in Errors, Holds(pops'[q], e)
          PROVE  errors'[e].at = "scope"
      <3>1. CASE q = p
        <4>1. e # None /\ (e = taken.synthetic \/ e = taken.native)
          BY <2>1, <3>1, <1>6 DEF Holds
        <4>2. native # <<>>
          BY <4>1, <1>7
        <4> QED
          BY <4>1, <4>2, <1>1, <1>8 DEF KeptInPlace
      <3>2. CASE q # p
        BY <3>2, <2>1, <1>1, <1>6 DEF KeptInPlace, Open
      <3> QED
        BY <3>1, <3>2
    <2>2. ASSUME NEW e \in Errors, errors'[e].at = "scope"
          PROVE  \/ \E i \in DOMAIN scopes' : scopes'[i].error = e
                 \/ \E i \in DOMAIN native' : native'[i].error = e
                 \/ \E q \in Pops : Open(q)' /\ Holds(pops'[q], e)
      <3>0. e # None
        BY <1>2
      <3>1. \/ \E i \in DOMAIN scopes : scopes[i].error = e
            \/ \E i \in DOMAIN native : native[i].error = e
            \/ \E q \in Pops : Open(q) /\ Holds(pops[q], e)
        BY <2>2, <1>1 DEF KeptInPlace
      <3>2. native # <<>> /\ (scopes[n].error = e \/ native[n].error = e) => Open(p)' /\ Holds(pops'[p], e)
        BY <3>0, <1>4, <1>6, <1>8 DEF Open, Holds
      <3>3. CASE \E i \in DOMAIN scopes : scopes[i].error = e
        <4>1. PICK i \in DOMAIN scopes : scopes[i].error = e
          BY <3>3
        <4>2. CASE i = n
          BY <4>1, <4>2, <3>2, <1>3
        <4>3. CASE i # n
          BY <4>1, <4>3, <1>10
        <4> QED
          BY <4>2, <4>3
      <3>4. CASE \E i \in DOMAIN native : native[i].error = e
        <4>1. PICK i \in DOMAIN native : native[i].error = e
          BY <3>4
        <4>2. CASE i = n
          BY <4>1, <4>2, <3>2, <1>3
        <4>3. CASE i # n
          BY <4>1, <4>3, <1>10
        <4> QED
          BY <4>2, <4>3
      <3>5. CASE \E q \in Pops : Open(q) /\ Holds(pops[q], e)
        <4>1. PICK q \in Pops : Open(q) /\ Holds(pops[q], e)
          BY <3>5
        <4>2. q # p
          BY <4>1, <1>1 DEF Open
        <4> QED
          BY <4>1, <4>2, <1>6 DEF Open
      <3> QED
        BY <3>1, <3>3, <3>4, <3>5
    <2>3. /\ \A i \in DOMAIN scopes' : scopes'[i].error # None => errors'[scopes'[i].error].at = "scope"
          /\ \A i \in DOMAIN native' : native'[i].error # None => errors'[native'[i].error].at = "scope"
      BY <1>1, <1>10 DEF KeptInPlace
    <2> QED
      BY <2>1, <2>2, <2>3 DEF KeptInPlace
  <1>18. QueuedOnce'
    BY <1>1, <1>6 DEF QueuedOnce, ErrorRecord, ErrorTypeOK, Record
  <1>19. ReportedOnce' /\ Excused'
    <2>1. \A q \in Pops : pops'[q].state = "resolved" => q # p
      BY <1>4, <1>6
    <2> QED
      BY <2>1, <1>1, <1>6 DEF ReportedOnce, Excused, RaisedIn
  <1> QED
    BY <1>12, <1>13, <1>14, <1>16, <1>17, <1>18, <1>19

(* The scope that catches an error keeps it if it is its first.            *)
LEMMA Keeping ==
  ASSUME NEW stackOf \in Seq(Scope), NEW i \in DOMAIN stackOf, NEW e \in Errors
  PROVE  /\ Keep(stackOf, e, i) \in Seq(Scope) /\ DOMAIN Keep(stackOf, e, i) = DOMAIN stackOf
         /\ \A j \in DOMAIN stackOf : /\ Keep(stackOf, e, i)[j].id = stackOf[j].id
                                      /\ Keep(stackOf, e, i)[j].filter = stackOf[j].filter
         /\ \A j \in DOMAIN stackOf \ {i} : Keep(stackOf, e, i)[j] = stackOf[j]
         /\ Keep(stackOf, e, i)[i].error = IF stackOf[i].error = None THEN e ELSE stackOf[i].error
  <1>1. CASE stackOf[i].error = None
    <2> DEFINE kept == [stackOf[i] EXCEPT !.error = e]
    <2>1. stackOf[i] \in Scope
      OBVIOUS
    <2>2. kept \in Scope /\ kept.id = stackOf[i].id /\ kept.filter = stackOf[i].filter /\ kept.error = e
      BY <2>1 DEF Scope
    <2>3. Keep(stackOf, e, i) = [stackOf EXCEPT ![i] = kept]
      BY <1>1 DEF Keep
    <2> HIDE DEF kept
    <2> QED
      BY <1>1, <2>2, <2>3
  <1>2. CASE stackOf[i].error # None
    BY <1>2 DEF Keep
  <1> QED
    BY <1>1, <1>2

(* What raising e does to the stack of a half: nothing, or its scope keeps *)
(* e as its first.                                                         *)
HalfTakes(of, before, after, e, half, type, where) ==
  /\ after \in Seq(Scope) /\ DOMAIN after = DOMAIN before
  /\ \A i \in DOMAIN before :
       /\ after[i].id = before[i].id /\ after[i].filter = before[i].filter
       /\ \/ /\ after[i].error = before[i].error
             /\ half = of /\ before[i].id = HomeOf(type) =>
                  before[i].error # None \/ (of = "binding" /\ lost)
          \/ /\ after[i].error = e /\ before[i].error = None
             /\ half = of /\ before[i].id = HomeOf(type) /\ where = "scope"
             /\ of = "binding" => ~lost

(* What the other variables are left with.                                 *)
RaiseLeaves(e, type, where) ==
  /\ where = "scope" => \/ \E i \in DOMAIN scopes' : scopes'[i].error = e
                        \/ \E i \in DOMAIN native' : native'[i].error = e
  /\ queue' = IF where = "queue" THEN Append(queue, ErrorRecord(e)) ELSE queue
  /\ where \in {"queue", "backend"} => HomeOf(type) = 0
  /\ where = "shadowed" => RaisedIn(HomeOf(type)) # {}
  /\ where = "silenced" => lost

(* An error is raised: the half that has it, the queue or nobody changes   *)
(* with it.                                                                *)
LEMMA RaiseStep ==
  ASSUME ScopesInv, NEW e \in Errors, NEW half \in {"binding", "backend"}, NEW type \in ErrorTypes,
         NEW where \in {"scope", "shadowed", "backend", "queue", "silenced"},
         Raise(e, half, type, where),
         HalfTakes("binding", scopes, scopes', e, half, type, where),
         HalfTakes("backend", native, native', e, half, type, where),
         RaiseLeaves(e, type, where)
  PROVE  ScopesInv'
  <1>0. PICK home : home = HomeOf(type)
    OBVIOUS
  <1> USE DEF ScopesInv
  <1>1. /\ errors[e].at = "nowhere" /\ raised' = Append(raised, e)
        /\ errors' = [errors EXCEPT ![e] = [at |-> where, half |-> half, type |-> type, home |-> home]]
        /\ UNCHANGED <<nextScope, pops, collected, lost>>
    BY <1>0 DEF Raise
  <1>2. /\ home \in 0 .. MaxScopes /\ home <= nextScope
        /\ home = 0 \/ \E i \in DOMAIN native : home = native[i].id
    BY <1>0, HomeIsOpen
  <1>2a. /\ errors' \in [Errors -> Error] /\ raised' \in Seq(Errors)
         /\ \A f \in Errors \ {e} : errors'[f] = errors[f]
         /\ errors'[e] = [at |-> where, half |-> half, type |-> type, home |-> home]
    <2>1. [at |-> where, half |-> half, type |-> type, home |-> home] \in Error
      BY <1>2 DEF Error
    <2> QED
      BY <2>1, <1>1 DEF ErrorTypeOK
  <1>2b. /\ RaisedOnce'
         /\ \A s : RaisedIn(s) \subseteq RaisedIn(s)' /\ e \notin RaisedIn(s)
         /\ \A x, h, s : FirstCaught(x, h, s) /\ (x # None \/ h # half \/ s # home)
                           => FirstCaught(x, h, s)'
         /\ FirstCaught(None, half, home) => FirstCaught(e, half, home)'
    <2>1. ErrorTypeOK /\ RaisedOnce /\ UNCHANGED nextScope /\ errors[e].at = "nowhere" /\ raised' = Append(raised, e)
      BY <1>1
    <2> HIDE DEF ScopesInv
    <2> QED
      BY <2>1, <1>2, <1>2a, Raising
  <1>3. /\ errors' \in [Errors -> Error] /\ raised' \in Seq(Errors)
        /\ \A f \in Errors \ {e} : errors'[f] = errors[f]
        /\ errors'[e] = [at |-> where, half |-> half, type |-> type, home |-> home]
        /\ RaisedOnce'
        /\ \A s : RaisedIn(s) \subseteq RaisedIn(s)' /\ e \notin RaisedIn(s)
        /\ \A x, h, s : FirstCaught(x, h, s) /\ (x # None \/ h # half \/ s # home)
                          => FirstCaught(x, h, s)'
        /\ FirstCaught(None, half, home) => FirstCaught(e, half, home)'
    BY <1>2a, <1>2b
  <1>4. /\ errors'[e].at = where /\ errors'[e].home = home
        /\ e # None /\ None \notin Errors
    BY <1>3, ErrorScopesAssumption
  <1>5. /\ \A i \in DOMAIN scopes : scopes[i].error \in Errors \cup {None}
        /\ \A i \in DOMAIN native : native[i].error \in Errors \cup {None}
        /\ \A p \in Pops : pops[p] \in Pop
    BY ScopeTypes
  <1>5a. /\ scopes' \in Seq(Scope) /\ DOMAIN scopes' = DOMAIN scopes
         /\ native' \in Seq(Scope) /\ DOMAIN native' = DOMAIN native
         /\ \A i \in DOMAIN scopes : scopes'[i].id = scopes[i].id /\ scopes'[i].filter = scopes[i].filter
         /\ \A i \in DOMAIN native : native'[i].id = native[i].id /\ native'[i].filter = native[i].filter
    BY DEF HalfTakes
  <1>5b. \A i \in DOMAIN scopes :
            \/ /\ scopes'[i].error = scopes[i].error
               /\ half = "binding" /\ scopes[i].id = home => scopes[i].error # None \/ lost
            \/ /\ scopes'[i].error = e /\ scopes[i].error = None /\ ~lost
               /\ half = "binding" /\ scopes[i].id = home /\ where = "scope"
    BY <1>0 DEF HalfTakes
  <1>5c. \A i \in DOMAIN native :
            \/ /\ native'[i].error = native[i].error
               /\ half = "backend" /\ native[i].id = home => native[i].error # None
            \/ /\ native'[i].error = e /\ native[i].error = None
               /\ half = "backend" /\ native[i].id = home /\ where = "scope"
    BY <1>0 DEF HalfTakes
  <1>6. ErrorTypeOK'
    <2>1. queue' \in Seq(Record)
      <3>1. ErrorRecord(e) \in Record /\ queue \in Seq(Record)
        BY DEF ErrorRecord, Record, ErrorTypeOK
      <3> QED
        BY <3>1 DEF RaiseLeaves
    <2> QED
      BY <2>1, <1>1, <1>3, <1>5a DEF ErrorTypeOK
  <1>7. ScopesPaired'
    BY <1>1, <1>5a DEF ScopesPaired
  <1>8. PopsClose'
    BY <1>1, <1>5a DEF PopsClose
  <1>9. FirstKept'
    <2>1. ASSUME NEW i \in DOMAIN scopes', NEW x, NEW s, x = scopes'[i].error, s = scopes'[i].id
          PROVE  IF lost' THEN x = None ELSE FirstCaught(x, "binding", s)'
      <3>1. s = scopes[i].id /\ (IF lost THEN scopes[i].error = None ELSE FirstCaught(scopes[i].error, "binding", s))
        BY <2>1, <1>5a DEF FirstKept
      <3>2. CASE lost
        BY <3>1, <3>2, <2>1, <1>1, <1>5a, <1>5b
      <3>3. CASE ~lost
        <4>1. CASE x = scopes[i].error /\ (half = "binding" /\ s = home => x # None)
          BY <4>1, <3>1, <3>3, <1>1, <1>3
        <4>2. CASE x = e /\ scopes[i].error = None /\ half = "binding" /\ s = home
          BY <4>2, <3>1, <3>3, <1>1, <1>3
        <4> QED
          BY <4>1, <4>2, <3>1, <3>3, <2>1, <1>5a, <1>5b
      <3> QED
        BY <3>2, <3>3
    <2>2. ASSUME NEW i \in DOMAIN native', NEW x, NEW s, x = native'[i].error, s = native'[i].id
          PROVE  FirstCaught(x, "backend", s)'
      <3>1. s = native[i].id /\ FirstCaught(native[i].error, "backend", s)
        BY <2>2, <1>5a DEF FirstKept
      <3>2. CASE x = native[i].error /\ (half = "backend" /\ s = home => x # None)
        BY <3>1, <3>2, <1>3
      <3>3. CASE x = e /\ native[i].error = None /\ half = "backend" /\ s = home
        BY <3>1, <3>3, <1>3
      <3> QED
        BY <3>1, <3>2, <3>3, <2>2, <1>5a, <1>5c
    <2>3. ASSUME NEW p \in Pops, NEW x, NEW y, NEW s,
                 x = pops'[p].native, y = pops'[p].synthetic, s = pops'[p].scope, s # 0
          PROVE  /\ FirstCaught(x, "backend", s)'
                 /\ FirstCaught(y, "binding", s)' \/ (lost' /\ y = None)
      <3>1. FirstCaught(x, "backend", s) /\ (FirstCaught(y, "binding", s) \/ (lost /\ y = None))
        BY <2>3, <1>1 DEF FirstKept
      <3>2. s # home
        BY <2>3, <1>1, <1>2 DEF PopsClose
      <3> QED
        BY <3>1, <3>2, <1>1, <1>3
    <2> QED
      BY <2>1, <2>2, <2>3, FirstKeptNext
  <1>10. KeptInPlace'
    <2>1. ASSUME NEW x \in Errors, errors[x].at = "scope"
          PROVE  errors'[x].at = "scope"
      BY <2>1, <1>1, <1>3
    <2>2. ASSUME NEW i \in DOMAIN scopes', scopes'[i].error # None
          PROVE  errors'[scopes'[i].error].at = "scope"
      <3>1. CASE scopes'[i].error = e /\ where = "scope"
        BY <3>1, <1>4
      <3>2. CASE scopes'[i].error = scopes[i].error
        BY <3>2, <2>1, <2>2, <1>5, <1>5a DEF KeptInPlace
      <3> QED
        BY <3>1, <3>2, <1>5a, <1>5b
    <2>3. ASSUME NEW i \in DOMAIN native', native'[i].error # None
          PROVE  errors'[native'[i].error].at = "scope"
      <3>1. CASE native'[i].error = e /\ where = "scope"
        BY <3>1, <1>4
      <3>2. CASE native'[i].error = native[i].error
        BY <3>2, <2>1, <2>3, <1>5, <1>5a DEF KeptInPlace
      <3> QED
        BY <3>1, <3>2, <1>5a, <1>5c
    <2>4. \A p \in Pops : Open(p)' => \A x \in Errors : Holds(pops'[p], x) => errors'[x].at = "scope"
      BY <2>1, <1>1 DEF KeptInPlace, Open
    <2>5. ASSUME NEW x \in Errors, errors'[x].at = "scope"
          PROVE  \/ \E i \in DOMAIN scopes' : scopes'[i].error = x
                 \/ \E i \in DOMAIN native' : native'[i].error = x
                 \/ \E p \in Pops : Open(p)' /\ Holds(pops'[p], x)
      <3>1. CASE x = e
        BY <3>1, <2>5, <1>4 DEF RaiseLeaves
      <3>2. CASE x # e
        <4>1. \/ \E i \in DOMAIN scopes : scopes[i].error = x
              \/ \E i \in DOMAIN native : native[i].error = x
              \/ \E p \in Pops : Open(p) /\ Holds(pops[p], x)
          BY <3>2, <2>5, <1>3 DEF KeptInPlace
        <4>2. x # None
          BY <1>4
        <4>3. \A i \in DOMAIN scopes : scopes[i].error = x => scopes'[i].error = x
          BY <4>2, <1>5b
        <4>4. \A i \in DOMAIN native : native[i].error = x => native'[i].error = x
          BY <4>2, <1>5c
        <4>5. \A p \in Pops : Open(p)' <=> Open(p)
          BY <1>1 DEF Open
        <4> QED
          BY <4>1, <4>3, <4>4, <4>5, <1>1, <1>5a
      <3> QED
        BY <3>1, <3>2
    <2> QED
      BY <2>2, <2>3, <2>4, <2>5 DEF KeptInPlace
  <1>11. QueuedOnce'
    <2>1. /\ \A i \in DOMAIN queue : queue[i].kind = "error" => queue[i].of # e
          /\ \A r \in collected : r.of # e
      BY <1>1 DEF QueuedOnce
    <2>2. /\ \A i \in DOMAIN queue : queue[i].kind = "error" => queue[i].of \in Errors
          /\ \A r \in collected : r.of \in Errors
      BY DEF ErrorTypeOK, Record
    <2>3. CASE where # "queue"
      BY <2>1, <2>2, <2>3, <1>1, <1>3, <1>4 DEF QueuedOnce, ErrorRecord, RaiseLeaves
    <2>4. CASE where = "queue"
      <3> DEFINE m == Len(queue) + 1
      <3>1. /\ DOMAIN queue' = DOMAIN queue \cup {m} /\ m \notin DOMAIN queue
            /\ queue'[m] = ErrorRecord(e) /\ \A i \in DOMAIN queue : queue'[i] = queue[i]
        <4>1. ErrorRecord(e) \in Record /\ queue \in Seq(Record)
          BY DEF ErrorRecord, Record, ErrorTypeOK
        <4> QED
          BY <4>1, <2>4, AppendTo DEF RaiseLeaves
      <3> HIDE DEF m
      <3>2. ErrorRecord(e).kind = "error" /\ ErrorRecord(e).of = e
        BY DEF ErrorRecord
      <3>3. ASSUME NEW i \in DOMAIN queue'
            PROVE  /\ queue'[i].kind = "pop" => pops'[queue'[i].of].state = "queued"
                   /\ queue'[i].kind = "error" => errors'[queue'[i].of].at = "queue"
        <4>1. CASE i = m
          BY <4>1, <2>4, <3>1, <3>2, <1>4
        <4>2. CASE i \in DOMAIN queue
          BY <4>2, <3>1, <2>1, <2>2, <1>1, <1>3 DEF QueuedOnce
        <4> QED
          BY <4>1, <4>2, <3>1
      <3>4. ASSUME NEW i \in DOMAIN queue', NEW j \in DOMAIN queue', queue'[i].kind = "error", queue'[i] = queue'[j]
            PROVE  i = j
        <4>1. CASE i \in DOMAIN queue /\ j \in DOMAIN queue
          BY <4>1, <3>1, <3>4 DEF QueuedOnce
        <4>2. CASE i = m \/ j = m
          BY <4>2, <3>1, <3>2, <3>4, <2>1
        <4> QED
          BY <4>1, <4>2, <3>1
      <3>5. ASSUME NEW x \in Errors, errors'[x].at = "queue"
            PROVE  \E i \in DOMAIN queue' : queue'[i] = ErrorRecord(x)
        <4>1. CASE x = e
          BY <4>1, <3>1
        <4>2. CASE x # e
          <5>1. \E i \in DOMAIN queue : queue[i] = ErrorRecord(x)
            BY <4>2, <3>5, <1>3 DEF QueuedOnce
          <5> QED
            BY <5>1, <3>1
        <4> QED
          BY <4>1, <4>2
      <3>6. /\ \A r \in collected' : errors'[r.of].at = "drain"
            /\ \A r, s \in collected' : r.of = s.of => r = s
            /\ \A x \in Errors : errors'[x].at = "drain" => \E r \in collected' : r.of = x
        BY <2>1, <2>2, <2>4, <1>1, <1>3, <1>4 DEF QueuedOnce
      <3> QED
        BY <3>3, <3>4, <3>5, <3>6 DEF QueuedOnce, ErrorRecord
    <2> QED
      BY <2>3, <2>4
  <1>12. ReportedOnce'
    <2>1. \A p \in Pops : pops[p].value \in Errors \cup {None}
      BY <1>5 DEF Pop
    <2> QED
      BY <2>1, <1>1, <1>3, <1>4 DEF ReportedOnce
  <1>13. Excused'
    <2> SUFFICES ASSUME NEW x \in Errors
                 PROVE  /\ errors'[x].at \in {"shadowed", "eclipsed"} =>
                             \E f \in RaisedIn(errors[x].home)' : f # x
                        /\ errors'[x].at = "silenced" => lost'
                        /\ errors'[x].at \in {"dispatched", "drain", "queue", "backend"} => errors'[x].home = 0
      BY DEF Excused
    <2>1. CASE x # e
      <3>1. errors'[x] = errors[x]
        BY <2>1, <1>3
      <3>2. errors[x].at \in {"shadowed", "eclipsed"} => \E f \in RaisedIn(errors[x].home) : f # x
        BY DEF Excused
      <3>3. \A s : s = errors[x].home => s = errors'[x].home
        BY <3>1
      <3> QED
        BY <3>1, <3>2, <1>1, <1>3 DEF Excused, RaisedIn
    <2>2. CASE x = e
      <3>1. where = "shadowed" => \E f \in RaisedIn(errors[x].home)' : f # x
        <4>1. where = "shadowed" => \E f \in RaisedIn(home) : f # e
          BY <1>0, <1>3 DEF RaiseLeaves
        <4>2. \A f \in RaisedIn(home) : f \in Errors /\ errors'[f] = errors[f] /\ errors[f].at # "nowhere" /\ errors[f].home = home
          BY <1>3 DEF RaisedIn
        <4> QED
          BY <4>1, <4>2, <2>2, <1>4 DEF RaisedIn
      <3> QED
        BY <2>2, <3>1, <1>0, <1>1, <1>4 DEF RaiseLeaves
    <2> QED
      BY <2>1, <2>2
  <1> QED
    BY <1>3, <1>6, <1>7, <1>8, <1>9, <1>10, <1>11, <1>12, <1>13

LEMMA RaiseInBindingStep ==
  ASSUME ScopesInv, NEW e \in Errors, RaiseInBinding(e)
  PROVE  ScopesInv'
  <1> DEFINE type == "validation"
  <1> USE DEF ScopesInv
  <1>1. native' = native /\ type \in ErrorTypes
    BY DEF RaiseInBinding, ErrorTypes, Filters
  <1>2. scopes \in Seq(Scope) /\ native \in Seq(Scope)
    BY DEF ErrorTypeOK
  <1>3. \A where : HalfTakes("backend", native, native', e, "binding", type, where)
    BY <1>1, <1>2 DEF HalfTakes
  <1>4. \/ lost /\ Raise(e, "binding", type, "silenced") /\ UNCHANGED <<scopes, queue>>
        \/ /\ ~lost /\ UNCHANGED queue
           /\ \E i \in DOMAIN scopes : /\ Catches(i, scopes, type) /\ scopes' = Keep(scopes, e, i)
                                       /\ Raise(e, "binding", type, KeptAs(scopes, i))
        \/ /\ ~lost /\ Matching(scopes, type) = {} /\ UNCHANGED scopes
           /\ queue' = Append(queue, ErrorRecord(e)) /\ Raise(e, "binding", type, "queue")
    BY DEF RaiseInBinding, ErrorRecord
  <1> HIDE DEF type
  <1>5. CASE lost /\ Raise(e, "binding", type, "silenced") /\ UNCHANGED <<scopes, queue>>
    <2>1. HalfTakes("binding", scopes, scopes', e, "binding", type, "silenced")
      BY <1>2, <1>5 DEF HalfTakes
    <2>2. RaiseLeaves(e, type, "silenced")
      BY <1>5 DEF RaiseLeaves
    <2> QED
      BY <1>1, <1>3, <1>5, <2>1, <2>2, RaiseStep
  <1>6. CASE /\ ~lost /\ UNCHANGED queue
             /\ \E i \in DOMAIN scopes : /\ Catches(i, scopes, type) /\ scopes' = Keep(scopes, e, i)
                                         /\ Raise(e, "binding", type, KeptAs(scopes, i))
    <2>1. PICK i \in DOMAIN scopes : /\ Catches(i, scopes, type) /\ scopes' = Keep(scopes, e, i)
                                     /\ Raise(e, "binding", type, KeptAs(scopes, i))
      BY <1>6
    <2>2. i \in DOMAIN native /\ HomeOf(type) = scopes[i].id
      <3>1. i \in DOMAIN native /\ Catches(i, native, type)
        BY <2>1, HalvesMatch DEF ScopesPaired
      <3> QED
        BY <3>1, HomeIsInnermost DEF ScopesPaired
    <2>3. /\ scopes' \in Seq(Scope) /\ DOMAIN scopes' = DOMAIN scopes
          /\ \A j \in DOMAIN scopes : scopes'[j].id = scopes[j].id /\ scopes'[j].filter = scopes[j].filter
          /\ \A j \in DOMAIN scopes \ {i} : scopes'[j] = scopes[j]
          /\ scopes'[i].error = IF scopes[i].error = None THEN e ELSE scopes[i].error
      BY <1>2, <2>1, Keeping
    <2>4. \A j \in DOMAIN scopes : j # i => scopes[j].id # HomeOf(type)
      <3>1. \A j \in DOMAIN native : j \in Nat /\ native[j].id \in Nat
        BY ScopeTypes
      <3>2. \A j \in DOMAIN native : j # i => j < i \/ i < j
        BY <2>2, <3>1
      <3> QED
        BY <2>2, <3>1, <3>2 DEF ScopesPaired
    <2>5. CASE scopes[i].error = None
      <3>1. KeptAs(scopes, i) = "scope"
        BY <2>5 DEF KeptAs
      <3>2. HalfTakes("binding", scopes, scopes', e, "binding", type, "scope")
        BY <1>6, <2>2, <2>3, <2>4, <2>5 DEF HalfTakes
      <3>3. RaiseLeaves(e, type, "scope")
        BY <1>6, <2>3, <2>5 DEF RaiseLeaves
      <3> QED
        BY <1>1, <1>3, <2>1, <3>1, <3>2, <3>3, RaiseStep
    <2>6. CASE scopes[i].error # None
      <3>1. KeptAs(scopes, i) = "shadowed"
        BY <2>6 DEF KeptAs
      <3>2. HalfTakes("binding", scopes, scopes', e, "binding", type, "shadowed")
        BY <1>6, <2>2, <2>3, <2>4, <2>6 DEF HalfTakes
      <3>3. scopes[i].error \in RaisedIn(HomeOf(type))
        BY <1>6, <2>2, <2>6 DEF FirstKept, FirstCaught
      <3>4. RaiseLeaves(e, type, "shadowed")
        BY <1>6, <3>3 DEF RaiseLeaves
      <3> QED
        BY <1>1, <1>3, <2>1, <3>1, <3>2, <3>4, RaiseStep
    <2> QED
      BY <2>5, <2>6
  <1>7. CASE /\ ~lost /\ Matching(scopes, type) = {} /\ UNCHANGED scopes
             /\ queue' = Append(queue, ErrorRecord(e)) /\ Raise(e, "binding", type, "queue")
    <2>1. Matching(native, type) = {}
      BY <1>7, HalvesMatch
    <2>2. HomeOf(type) = 0
      BY <2>1, HomeIsNone
    <2>3. \A i \in DOMAIN scopes : scopes[i].id # 0
      BY ScopeTypes
    <2>4. HalfTakes("binding", scopes, scopes', e, "binding", type, "queue")
      BY <1>2, <1>7, <2>2, <2>3 DEF HalfTakes
    <2>5. RaiseLeaves(e, type, "queue")
      BY <1>7, <2>2 DEF RaiseLeaves
    <2> QED
      BY <1>1, <1>3, <1>7, <2>4, <2>5, RaiseStep
  <1> QED
    BY <1>4, <1>5, <1>6, <1>7

LEMMA RaiseInBackendStep ==
  ASSUME ScopesInv, NEW e \in Errors, NEW type \in ErrorTypes, RaiseInBackend(e, type)
  PROVE  ScopesInv'
  <1> USE DEF ScopesInv
  <1>1. scopes' = scopes /\ queue' = queue
    BY DEF RaiseInBackend
  <1>2. scopes \in Seq(Scope) /\ native \in Seq(Scope)
    BY DEF ErrorTypeOK
  <1>3. \A where : HalfTakes("binding", scopes, scopes', e, "backend", type, where)
    BY <1>1, <1>2 DEF HalfTakes
  <1>4. CASE \E i \in DOMAIN native : /\ Catches(i, native, type) /\ native' = Keep(native, e, i)
                                      /\ Raise(e, "backend", type, KeptAs(native, i))
    <2>1. PICK i \in DOMAIN native : /\ Catches(i, native, type) /\ native' = Keep(native, e, i)
                                     /\ Raise(e, "backend", type, KeptAs(native, i))
      BY <1>4
    <2>2. HomeOf(type) = native[i].id
      BY <2>1, HomeIsInnermost
    <2>3. /\ native' \in Seq(Scope) /\ DOMAIN native' = DOMAIN native
          /\ \A j \in DOMAIN native : native'[j].id = native[j].id /\ native'[j].filter = native[j].filter
          /\ \A j \in DOMAIN native \ {i} : native'[j] = native[j]
          /\ native'[i].error = IF native[i].error = None THEN e ELSE native[i].error
      BY <1>2, <2>1, Keeping
    <2>4. \A j \in DOMAIN native : j # i => native[j].id # HomeOf(type)
      <3>1. \A j \in DOMAIN native : j \in Nat /\ native[j].id \in Nat
        BY ScopeTypes
      <3>2. \A j \in DOMAIN native : j # i => j < i \/ i < j
        BY <3>1
      <3> QED
        BY <2>2, <3>1, <3>2 DEF ScopesPaired
    <2>5. CASE native[i].error = None
      <3>1. KeptAs(native, i) = "scope"
        BY <2>5 DEF KeptAs
      <3>2. HalfTakes("backend", native, native', e, "backend", type, "scope")
        <4>1. ASSUME NEW j \in DOMAIN native
              PROVE  \/ /\ native'[j].error = native[j].error
                        /\ native[j].id # HomeOf(type)
                     \/ /\ native'[j].error = e /\ native[j].error = None
                        /\ native[j].id = HomeOf(type)
          <5>1. CASE j = i
            BY <5>1, <2>2, <2>3, <2>5
          <5>2. CASE j # i
            BY <5>2, <2>3, <2>4
          <5> QED
            BY <5>1, <5>2
        <4> QED
          BY <4>1, <2>3 DEF HalfTakes
      <3>3. RaiseLeaves(e, type, "scope")
        <4>1. i \in DOMAIN native' /\ native'[i].error = e
          BY <2>3, <2>5
        <4> QED
          BY <4>1, <1>1 DEF RaiseLeaves
      <3> QED
        BY <1>3, <2>1, <3>1, <3>2, <3>3, RaiseStep
    <2>6. CASE native[i].error # None
      <3>1. KeptAs(native, i) = "shadowed"
        BY <2>6 DEF KeptAs
      <3>2. HalfTakes("backend", native, native', e, "backend", type, "shadowed")
        BY <2>2, <2>3, <2>4, <2>6 DEF HalfTakes
      <3>3. native[i].error \in RaisedIn(HomeOf(type))
        <4>1. FirstCaught(native[i].error, "backend", native[i].id)
          BY DEF FirstKept
        <4> QED
          BY <4>1, <2>2, <2>6 DEF FirstCaught
      <3>4. RaiseLeaves(e, type, "shadowed")
        BY <1>1, <3>3 DEF RaiseLeaves
      <3> QED
        BY <1>3, <2>1, <3>1, <3>2, <3>4, RaiseStep
    <2> QED
      BY <2>5, <2>6
  <1>5. CASE Matching(native, type) = {} /\ Raise(e, "backend", type, "backend") /\ UNCHANGED native
    <2>1. HomeOf(type) = 0
      BY <1>5, HomeIsNone
    <2>2. \A i \in DOMAIN native : native[i].id # 0
      BY ScopeTypes
    <2>3. HalfTakes("backend", native, native', e, "backend", type, "backend")
      BY <1>2, <1>5, <2>1, <2>2 DEF HalfTakes
    <2>4. RaiseLeaves(e, type, "backend")
      BY <1>1, <2>1 DEF RaiseLeaves
    <2> QED
      BY <1>3, <1>5, <2>3, <2>4, RaiseStep
  <1> QED
    BY <1>4, <1>5 DEF RaiseInBackend

LEMMA PopCallbackStep ==
  ASSUME ScopesInv, NEW p \in Pops, NEW ok \in BOOLEAN, PopCallback(p, ok)
  PROVE  ScopesInv'
  <1> DEFINE answered == [pops[p] EXCEPT !.state = "queued", !.ok = @ /\ ok]
             record == [kind |-> "pop", of |-> p]
             m == Len(queue) + 1
  <1> USE DEF ScopesInv
  <1>1. /\ pops[p].state = "pending" /\ pops' = [pops EXCEPT ![p] = answered]
        /\ queue' = Append(queue, record)
        /\ UNCHANGED <<scopes, native, nextScope, collected, lost, errors, raised>>
    BY DEF PopCallback, scopeVars
  <1>2. pops[p] \in Pop
    BY DEF ErrorTypeOK
  <1>3. /\ answered \in Pop /\ answered.state = "queued" /\ answered.scope = pops[p].scope
        /\ answered.synthetic = pops[p].synthetic /\ answered.native = pops[p].native
        /\ answered.ok = (pops[p].ok /\ ok)
    BY <1>2 DEF Pop
  <1>4. record \in Record /\ record.kind = "pop" /\ record.of = p
    BY DEF Record
  <1>5. /\ DOMAIN queue' = DOMAIN queue \cup {m} /\ m \notin DOMAIN queue
        /\ queue'[m] = record /\ \A i \in DOMAIN queue : queue'[i] = queue[i]
        /\ queue' \in Seq(Record)
    <2>1. queue \in Seq(Record)
      BY DEF ErrorTypeOK
    <2> QED
      BY <1>1, <1>4, <2>1, AppendTo
  <1> HIDE DEF answered, record, m
  <1>6. \A q \in Pops : pops'[q] = IF q = p THEN answered ELSE pops[q]
    BY <1>1 DEF ErrorTypeOK
  <1>7. ErrorTypeOK' /\ ScopesPaired' /\ RaisedOnce'
    BY <1>1, <1>3, <1>5 DEF ErrorTypeOK, ScopesPaired, RaisedOnce
  <1>8. \A q \in Pops : /\ pops'[q].scope = pops[q].scope /\ pops'[q].synthetic = pops[q].synthetic
                        /\ pops'[q].native = pops[q].native
                        /\ Open(q)' <=> Open(q)
    BY <1>1, <1>3, <1>6 DEF Open
  <1>9. PopsClose'
    <2>1. ASSUME NEW q \in Pops
          PROVE  /\ pops'[q].scope <= nextScope'
                 /\ \A i \in DOMAIN native' : native'[i].id # pops'[q].scope
                 /\ pops'[q].state = "unused" => pops'[q].scope = 0
                 /\ pops'[q].scope = 0 => pops'[q].synthetic = None /\ pops'[q].native = None
                 /\ pops'[q].scope = 0 /\ pops'[q].state # "unused" => ~pops'[q].ok
                 /\ pops'[q].state = "resolved" =>
                      /\ pops'[q].ok
                      /\ \/ pops'[q].value = pops'[q].native /\ pops'[q].value # None
                         \/ pops'[q].value = pops'[q].synthetic /\ pops'[q].value # None
                         \/ /\ pops'[q].value = None
                            /\ lost \/ (pops'[q].native = None /\ pops'[q].synthetic = None)
      <3>1. CASE q = p
        <4>1. pops[p].scope = 0 => ~pops[p].ok
          BY <1>1 DEF PopsClose
        <4>2. pops[p].scope = 0 => ~answered.ok
          BY <4>1, <1>3
        <4>3. pops'[q] = answered
          BY <3>1, <1>6
        <4>4. /\ answered.scope <= nextScope'
              /\ \A i \in DOMAIN native' : native'[i].id # answered.scope
              /\ answered.scope = 0 => answered.synthetic = None /\ answered.native = None
          BY <1>1, <1>3 DEF PopsClose
        <4> QED
          BY <4>2, <4>3, <4>4, <1>3
      <3>2. CASE q # p
        BY <3>2, <1>1, <1>6 DEF PopsClose
      <3> QED
        BY <3>1, <3>2
    <2>2. \A q, r \in Pops : pops'[q].scope = pops'[r].scope /\ pops'[q].scope # 0 => q = r
      BY <1>8 DEF PopsClose
    <2> QED
      BY <2>1, <2>2, <1>1 DEF PopsClose
  <1>10. \A x, half, s : FirstCaught(x, half, s) => FirstCaught(x, half, s)'
    <2>1. NothingRaised
      BY <1>1 DEF NothingRaised
    <2> QED
      BY <2>1, QuietCaught
  <1>11. FirstKept'
    <2>1. ASSUME NEW i \in DOMAIN scopes', NEW x, NEW s, x = scopes'[i].error, s = scopes'[i].id
          PROVE  IF lost' THEN x = None ELSE FirstCaught(x, "binding", s)'
      BY <2>1, <1>1, <1>10 DEF FirstKept
    <2>2. ASSUME NEW i \in DOMAIN native', NEW x, NEW s, x = native'[i].error, s = native'[i].id
          PROVE  FirstCaught(x, "backend", s)'
      BY <2>2, <1>1, <1>10 DEF FirstKept
    <2>3. ASSUME NEW q \in Pops, NEW x, NEW y, NEW s,
                 x = pops'[q].native, y = pops'[q].synthetic, s = pops'[q].scope, s # 0
          PROVE  /\ FirstCaught(x, "backend", s)'
                 /\ FirstCaught(y, "binding", s)' \/ (lost' /\ y = None)
      <3>1. FirstCaught(x, "backend", s) /\ (FirstCaught(y, "binding", s) \/ (lost /\ y = None))
        BY <2>3, <1>8 DEF FirstKept
      <3> QED
        BY <3>1, <1>1, <1>10
    <2> QED
      BY <2>1, <2>2, <2>3, FirstKeptNext
  <1>12. KeptInPlace'
    <2>1. \A q \in Pops : \A e : Holds(pops'[q], e) <=> Holds(pops[q], e)
      BY <1>8 DEF Holds
    <2>2. \A q \in Pops : Open(q)' => \A e \in Errors : Holds(pops'[q], e) => errors'[e].at = "scope"
      BY <2>1, <1>1, <1>8 DEF KeptInPlace
    <2>3. ASSUME NEW e \in Errors, errors'[e].at = "scope"
          PROVE  \/ \E i \in DOMAIN scopes : scopes[i].error = e
                 \/ \E i \in DOMAIN native : native[i].error = e
                 \/ \E q \in Pops : Open(q)' /\ Holds(pops'[q], e)
      <3>1. \/ \E i \in DOMAIN scopes : scopes[i].error = e
            \/ \E i \in DOMAIN native : native[i].error = e
            \/ \E q \in Pops : Open(q) /\ Holds(pops[q], e)
        BY <2>3, <1>1 DEF KeptInPlace
      <3> HIDE DEF ScopesInv
      <3> QED
        BY <3>1, <2>1, <1>8
    <2> QED
      BY <2>2, <2>3, <1>1 DEF KeptInPlace
  <1>13. QueuedOnce'
    <2>1. \A i \in DOMAIN queue : queue[i].kind = "pop" => queue[i].of \in Pops
      BY DEF ErrorTypeOK, Record
    <2>2. \A i \in DOMAIN queue' : queue'[i].kind = "pop" => pops'[queue'[i].of].state = "queued"
      BY <2>1, <1>3, <1>4, <1>5, <1>6 DEF QueuedOnce
    <2>3. \A i \in DOMAIN queue' : queue'[i].kind = "error" => i \in DOMAIN queue /\ queue'[i] = queue[i]
      BY <1>4, <1>5
    <2>4. \A i, j \in DOMAIN queue' : queue'[i].kind = "error" /\ queue'[i] = queue'[j] => i = j
      BY <2>3 DEF QueuedOnce
    <2>5. \A e \in Errors : errors'[e].at = "queue" => \E i \in DOMAIN queue' : queue'[i] = ErrorRecord(e)
      BY <1>1, <1>5 DEF QueuedOnce
    <2> QED
      BY <2>2, <2>3, <2>4, <2>5, <1>1 DEF QueuedOnce, ErrorRecord
  <1>14. ReportedOnce' /\ Excused'
    <2>1. \A q \in Pops : q = p => pops[q].state # "resolved" /\ pops'[q].state # "resolved"
      BY <1>1, <1>3, <1>6
    <2>2. \A q \in Pops : q # p => pops'[q] = pops[q]
      BY <1>6
    <2> QED
      BY <2>1, <2>2, <1>1 DEF ReportedOnce, Excused, RaisedIn
  <1> QED
    BY <1>7, <1>9, <1>11, <1>12, <1>13, <1>14

(* An error changes its place: nothing is raised, and the halves keep what *)
(* they have.                                                              *)
LEMMA MovesQuietly ==
  ASSUME ErrorTypeOK, FirstKept, RaisedOnce, NEW who, who \subseteq Errors,
         NEW where \in {"silenced", "queue", "failed", "dispatched"},
         errors' = Move(who, where), UNCHANGED <<scopes, native, nextScope, pops, lost, raised>>,
         \A e \in who : errors[e].at # "nowhere"
  PROVE  /\ errors' \in [Errors -> Error]
         /\ \A e \in Errors : /\ errors'[e].at = IF e \in who THEN where ELSE errors[e].at
                              /\ errors'[e].home = errors[e].home
         /\ FirstKept' /\ RaisedOnce'
         /\ \A s : RaisedIn(s)' = RaisedIn(s)
  <1>1. \A e \in Errors : errors[e] \in Error
    BY DEF ErrorTypeOK
  <1>2. \A e \in Errors : errors'[e] = IF e \in who THEN [errors[e] EXCEPT !.at = where] ELSE errors[e]
    BY DEF Move
  <1>3. \A e \in Errors : /\ errors'[e].at = IF e \in who THEN where ELSE errors[e].at
                          /\ errors'[e].half = errors[e].half /\ errors'[e].home = errors[e].home
                          /\ errors'[e] \in Error
    BY <1>1, <1>2 DEF Error
  <1>4. errors' \in [Errors -> Error]
    BY <1>3 DEF Move
  <1>5. NothingRaised
    BY <1>3 DEF NothingRaised
  <1>6. RaisedOnce'
    BY <1>3, <1>5 DEF RaisedOnce, NothingRaised
  <1>7. FirstKept'
    <2>0. \A x, half, s : FirstCaught(x, half, s) => FirstCaught(x, half, s)'
      BY <1>5, QuietCaught
    <2>1. ASSUME NEW i \in DOMAIN scopes', NEW x, NEW s, x = scopes'[i].error, s = scopes'[i].id
          PROVE  IF lost' THEN x = None ELSE FirstCaught(x, "binding", s)'
      BY <2>0, <2>1 DEF FirstKept
    <2>2. ASSUME NEW i \in DOMAIN native', NEW x, NEW s, x = native'[i].error, s = native'[i].id
          PROVE  FirstCaught(x, "backend", s)'
      BY <2>0, <2>2 DEF FirstKept
    <2>3. ASSUME NEW p \in Pops, NEW x, NEW y, NEW s,
                 x = pops'[p].native, y = pops'[p].synthetic, s = pops'[p].scope, s # 0
          PROVE  /\ FirstCaught(x, "backend", s)'
                 /\ FirstCaught(y, "binding", s)' \/ (lost' /\ y = None)
      BY <2>0, <2>3 DEF FirstKept
    <2> QED
      BY <2>1, <2>2, <2>3, FirstKeptNext
  <1> QED
    BY <1>3, <1>4, <1>5, <1>6, <1>7, QuietCaught

(* A moved error was in no scope, and is in none.                          *)
LEMMA ElsewhereKept ==
  ASSUME KeptInPlace, UNCHANGED <<scopes, native, pops>>,
         NEW who, NEW where, where # "scope",
         \A e \in who : errors[e].at # "scope",
         \A e \in Errors : errors'[e].at = IF e \in who THEN where ELSE errors[e].at,
         \A i \in DOMAIN scopes : scopes[i].error \in Errors \cup {None},
         \A i \in DOMAIN native : native[i].error \in Errors \cup {None}
  PROVE  KeptInPlace'
  <1>1. \A e \in Errors : errors'[e].at = "scope" <=> errors[e].at = "scope"
    OBVIOUS
  <1>2. /\ \A i \in DOMAIN scopes : scopes[i].error # None => errors'[scopes[i].error].at = "scope"
        /\ \A i \in DOMAIN native : native[i].error # None => errors'[native[i].error].at = "scope"
        /\ \A p \in Pops : Open(p) => \A e \in Errors : Holds(pops[p], e) => errors'[e].at = "scope"
    BY <1>1 DEF KeptInPlace
  <1>3. \A e \in Errors : errors'[e].at = "scope" =>
           \/ \E i \in DOMAIN scopes : scopes[i].error = e
           \/ \E i \in DOMAIN native : native[i].error = e
           \/ \E p \in Pops : Open(p) /\ Holds(pops[p], e)
    BY <1>1 DEF KeptInPlace
  <1> QED
    BY <1>2, <1>3 DEF KeptInPlace, Open

LEMMA UncapturedCallbackStep ==
  ASSUME ScopesInv, NEW e \in Errors, UncapturedCallback(e)
  PROVE  ScopesInv'
  <1>0. PICK where : where = IF lost THEN "silenced" ELSE "queue"
    OBVIOUS
  <1> USE DEF ScopesInv
  <1>1. /\ errors[e].at = "backend" /\ errors' = Move({e}, where)
        /\ queue' = IF lost THEN queue ELSE Append(queue, ErrorRecord(e))
        /\ UNCHANGED <<scopes, native, nextScope, pops, collected, lost, raised>>
    BY <1>0 DEF UncapturedCallback, scopeVars, ErrorRecord
  <1>2. /\ errors' \in [Errors -> Error] /\ FirstKept' /\ RaisedOnce'
        /\ \A x \in Errors : /\ errors'[x].at = IF x = e THEN where ELSE errors[x].at
                             /\ errors'[x].home = errors[x].home
        /\ \A s : RaisedIn(s)' = RaisedIn(s)
    <2>1. /\ ErrorTypeOK /\ FirstKept /\ RaisedOnce /\ {e} \subseteq Errors
          /\ where \in {"silenced", "queue", "failed", "dispatched"}
          /\ \A x \in {e} : errors[x].at # "nowhere"
          /\ \A x : x \in {e} <=> x = e
      BY <1>0, <1>1
    <2> HIDE DEF ScopesInv
    <2>2. /\ errors' \in [Errors -> Error]
          /\ \A x \in Errors : /\ errors'[x].at = IF x \in {e} THEN where ELSE errors[x].at
                               /\ errors'[x].home = errors[x].home
          /\ FirstKept' /\ RaisedOnce'
          /\ \A s : RaisedIn(s)' = RaisedIn(s)
      BY <2>1, <1>1, MovesQuietly
    <2> QED
      BY <2>1, <2>2
  <1>2a. /\ errors'[e].at = where /\ where # "backend"
         /\ \A x \in Errors : x # e => errors'[x].at = errors[x].at
    BY <1>0, <1>2
  <1>3. KeptInPlace'
    <2>1. /\ KeptInPlace /\ UNCHANGED <<scopes, native, pops>> /\ where # "scope"
          /\ \A x \in {e} : errors[x].at # "scope"
          /\ \A x \in Errors : errors'[x].at = IF x \in {e} THEN where ELSE errors[x].at
      BY <1>0, <1>1, <1>2
    <2>2. /\ \A i \in DOMAIN scopes : scopes[i].error \in Errors \cup {None}
          /\ \A i \in DOMAIN native : native[i].error \in Errors \cup {None}
      BY ScopeTypes
    <2> HIDE DEF ScopesInv
    <2> QED
      BY <2>1, <2>2, ElsewhereKept
  <1>4. ErrorRecord(e) \in Record /\ ErrorRecord(e).kind = "error" /\ ErrorRecord(e).of = e
    BY DEF ErrorRecord, Record
  <1>5. ErrorTypeOK'
    <2>1. queue' \in Seq(Record)
      BY <1>1, <1>4, AppendTo DEF ErrorTypeOK
    <2> QED
      BY <2>1, <1>1, <1>2 DEF ErrorTypeOK
  <1>6. ScopesPaired' /\ PopsClose'
    BY <1>1 DEF ScopesPaired, PopsClose
  <1>7. QueuedOnce'
    <2>1. /\ \A i \in DOMAIN queue : queue[i].kind = "error" => queue[i].of # e
          /\ \A r \in collected : r.of # e
      BY <1>1 DEF QueuedOnce
    <2>2. /\ \A i \in DOMAIN queue : queue[i].kind = "error" => queue[i].of \in Errors
          /\ \A r \in collected : r.of \in Errors
      BY DEF ErrorTypeOK, Record
    <2>3. CASE lost
      <3>1. /\ where = "silenced" /\ queue' = queue /\ pops' = pops /\ collected' = collected
            /\ errors[e].at = "backend" /\ QueuedOnce
        BY <2>3, <1>0, <1>1
      <3> HIDE DEF ScopesInv
      <3>2. /\ \A x \in Errors : errors'[x].at = "queue" <=> errors[x].at = "queue"
            /\ \A x \in Errors : errors'[x].at = "drain" <=> errors[x].at = "drain"
        BY <3>1, <1>2a
      <3> QED
        BY <2>2, <3>1, <3>2 DEF QueuedOnce
    <2>4. CASE ~lost
      <3> DEFINE m == Len(queue) + 1
      <3>1. /\ DOMAIN queue' = DOMAIN queue \cup {m} /\ m \notin DOMAIN queue
            /\ queue'[m] = ErrorRecord(e) /\ \A i \in DOMAIN queue : queue'[i] = queue[i]
        BY <2>4, <1>1, <1>4, AppendTo DEF ErrorTypeOK
      <3> HIDE DEF m
      <3>2. \A i \in DOMAIN queue' :
              /\ queue'[i].kind = "pop" => pops'[queue'[i].of].state = "queued"
              /\ queue'[i].kind = "error" => errors'[queue'[i].of].at = "queue"
        <4>1. errors'[e].at = "queue"
          BY <2>4, <1>0, <1>2
        <4>2. \A i \in DOMAIN queue : queue[i].kind = "error" => errors'[queue[i].of].at = "queue"
          BY <2>1, <2>2, <1>2 DEF QueuedOnce
        <4>3. \A i \in DOMAIN queue : queue[i].kind = "pop" => pops'[queue[i].of].state = "queued"
          BY <1>1 DEF QueuedOnce
        <4> HIDE DEF ScopesInv
        <4> QED
          BY <4>1, <4>2, <4>3, <3>1, <1>4
      <3>3. \A i, j \in DOMAIN queue' : queue'[i].kind = "error" /\ queue'[i] = queue'[j] => i = j
        <4>1. \A i \in DOMAIN queue : queue[i] # ErrorRecord(e)
          BY <2>1, <1>4
        <4> QED
          BY <4>1, <3>1 DEF QueuedOnce
      <3>4. \A x \in Errors : errors'[x].at = "queue" => \E i \in DOMAIN queue' : queue'[i] = ErrorRecord(x)
        BY <3>1, <1>2 DEF QueuedOnce
      <3>5. /\ \A r \in collected' : errors'[r.of].at = "drain"
            /\ \A r, s \in collected' : r.of = s.of => r = s
            /\ \A x \in Errors : errors'[x].at = "drain" => \E r \in collected' : r.of = x
        <4>1. where = "queue" /\ collected' = collected /\ errors[e].at = "backend" /\ QueuedOnce
          BY <2>4, <1>0, <1>1
        <4> HIDE DEF ScopesInv
        <4>2. \A x \in Errors : errors'[x].at = "drain" <=> errors[x].at = "drain"
          BY <4>1, <1>2a
        <4> QED
          BY <2>2, <4>1, <4>2 DEF QueuedOnce
      <3> QED
        BY <3>2, <3>3, <3>4, <3>5 DEF QueuedOnce
    <2> QED
      BY <2>3, <2>4
  <1>8. ReportedOnce'
    <2>1. \A p \in Pops : pops[p].value \in Errors \cup {None}
      BY DEF ErrorTypeOK, Pop
    <2> QED
      <3>1. errors[e].at = "backend" /\ pops' = pops /\ ReportedOnce
        BY <1>1
      <3>2. \A x \in Errors : errors'[x].at = "reported" <=> errors[x].at = "reported"
        BY <3>1, <1>0, <1>2a
      <3> HIDE DEF ScopesInv
      <3> QED
        BY <2>1, <3>1, <3>2 DEF ReportedOnce
  <1>9. Excused'
    <2> SUFFICES ASSUME NEW x \in Errors
                 PROVE  /\ errors'[x].at \in {"shadowed", "eclipsed"} =>
                             \E f \in RaisedIn(errors[x].home)' : f # x
                        /\ errors'[x].at = "silenced" => lost'
                        /\ errors'[x].at \in {"dispatched", "drain", "queue", "backend"} => errors'[x].home = 0
      BY <1>2 DEF Excused, RaisedIn
    <2>1. errors'[x].home = errors[x].home /\ \A s : RaisedIn(s)' = RaisedIn(s)
      BY <1>2
    <2>2. CASE x = e
      BY <2>1, <2>2, <1>0, <1>1, <1>2 DEF Excused
    <2>3. CASE x # e
      <3>1. /\ errors[x].at \in {"shadowed", "eclipsed"} => \E f \in RaisedIn(errors[x].home) : f # x
            /\ errors[x].at = "silenced" => lost
            /\ errors[x].at \in {"dispatched", "drain", "queue", "backend"} => errors[x].home = 0
        BY DEF Excused
      <3>2. errors'[x].at = errors[x].at /\ lost' = lost
        BY <2>3, <1>1, <1>2a
      <3> HIDE DEF ScopesInv
      <3> QED
        BY <2>1, <3>1, <3>2
    <2> QED
      BY <2>2, <2>3
  <1> QED
    BY <1>2, <1>3, <1>5, <1>6, <1>7, <1>8, <1>9

LEMMA DispatchStep ==
  ASSUME ScopesInv, DispatchUncaptured
  PROVE  ScopesInv'
  <1>1. PICK next \in collected, where \in {"failed", "dispatched"} :
               errors' = Move({next.of}, where) /\ collected' = collected \ {next}
    BY DEF DispatchUncaptured
  <1> USE DEF ScopesInv
  <1>2. UNCHANGED <<scopes, native, nextScope, pops, queue, lost, raised>>
    BY DEF DispatchUncaptured, scopeVars
  <1>3. \A r \in collected : r.of \in Errors /\ errors[r.of].at = "drain"
    BY DEF ErrorTypeOK, QueuedOnce
  <1>4. PICK told \in Errors : told = next.of
    BY <1>3
  <1>4a. errors[told].at = "drain" /\ errors' = Move({told}, where)
    BY <1>1, <1>3, <1>4
  <1>5. /\ errors' \in [Errors -> Error] /\ FirstKept' /\ RaisedOnce'
        /\ \A x \in Errors : /\ errors'[x].at = IF x = told THEN where ELSE errors[x].at
                             /\ errors'[x].home = errors[x].home
        /\ \A s : RaisedIn(s)' = RaisedIn(s)
    <2>1. /\ ErrorTypeOK /\ FirstKept /\ RaisedOnce /\ {told} \subseteq Errors
          /\ where \in {"silenced", "queue", "failed", "dispatched"}
          /\ \A x \in {told} : errors[x].at # "nowhere"
          /\ \A x : x \in {told} <=> x = told
      BY <1>1, <1>3, <1>4, <1>4a
    <2> HIDE DEF ScopesInv
    <2>2. /\ errors' \in [Errors -> Error]
          /\ \A x \in Errors : /\ errors'[x].at = IF x \in {told} THEN where ELSE errors[x].at
                               /\ errors'[x].home = errors[x].home
          /\ FirstKept' /\ RaisedOnce'
          /\ \A s : RaisedIn(s)' = RaisedIn(s)
      BY <2>1, <1>2, <1>4a, MovesQuietly
    <2> QED
      BY <2>1, <2>2
  <1>6. /\ errors'[told].at = where
        /\ \A x \in Errors : x # told => errors'[x].at = errors[x].at
    BY <1>3, <1>4, <1>4a, <1>5
  <1>7. KeptInPlace'
    <2>1. /\ KeptInPlace /\ UNCHANGED <<scopes, native, pops>> /\ where # "scope"
          /\ \A x \in {told} : errors[x].at # "scope"
          /\ \A x \in Errors : errors'[x].at = IF x \in {told} THEN where ELSE errors[x].at
      BY <1>2, <1>3, <1>4, <1>4a, <1>5
    <2>2. /\ \A i \in DOMAIN scopes : scopes[i].error \in Errors \cup {None}
          /\ \A i \in DOMAIN native : native[i].error \in Errors \cup {None}
      BY ScopeTypes
    <2> HIDE DEF ScopesInv
    <2> QED
      BY <2>1, <2>2, ElsewhereKept
  <1>8. ErrorTypeOK' /\ ScopesPaired' /\ PopsClose'
    BY <1>1, <1>2, <1>5 DEF ErrorTypeOK, ScopesPaired, PopsClose
  <1>9. QueuedOnce'
    <2>1. \A i \in DOMAIN queue : queue[i].kind = "error" => queue[i].of \in Errors /\ queue[i].of # told
      BY <1>3, <1>4, <1>4a DEF ErrorTypeOK, Record, QueuedOnce
    <2>2. \A r \in collected' : r \in collected /\ r.of # told /\ r.of \in Errors
      BY <1>1, <1>3, <1>4, <1>4a DEF QueuedOnce
    <2>3. \A i \in DOMAIN queue' :
            /\ queue'[i].kind = "pop" => pops'[queue'[i].of].state = "queued"
            /\ queue'[i].kind = "error" => errors'[queue'[i].of].at = "queue"
      BY <2>1, <1>2, <1>6 DEF QueuedOnce
    <2>4. /\ \A i, j \in DOMAIN queue' : queue'[i].kind = "error" /\ queue'[i] = queue'[j] => i = j
          /\ \A x \in Errors : errors'[x].at = "queue" => \E i \in DOMAIN queue' : queue'[i] = ErrorRecord(x)
      BY <1>2, <1>6 DEF QueuedOnce
    <2>5. /\ \A r \in collected' : errors'[r.of].at = "drain"
          /\ \A r, s \in collected' : r.of = s.of => r = s
      BY <2>2, <1>6 DEF QueuedOnce
    <2>6. \A x \in Errors : errors'[x].at = "drain" => \E r \in collected' : r.of = x
      BY <1>1, <1>4, <1>6 DEF QueuedOnce
    <2> HIDE DEF ScopesInv
    <2> QED
      BY <2>3, <2>4, <2>5, <2>6 DEF QueuedOnce, ErrorRecord
  <1>10. ReportedOnce'
    <2>1. \A p \in Pops : pops[p].value \in Errors \cup {None}
      BY DEF ErrorTypeOK, Pop
    <2>2. pops' = pops /\ ReportedOnce
      BY <1>2
    <2>3. \A x \in Errors : errors'[x].at = "reported" <=> errors[x].at = "reported"
      BY <1>3, <1>4, <1>4a, <1>6
    <2> HIDE DEF ScopesInv
    <2> QED
      BY <2>1, <2>2, <2>3 DEF ReportedOnce
  <1>11. Excused'
    <2> SUFFICES ASSUME NEW x \in Errors
                 PROVE  /\ errors'[x].at \in {"shadowed", "eclipsed"} =>
                             \E f \in RaisedIn(errors[x].home)' : f # x
                        /\ errors'[x].at = "silenced" => lost'
                        /\ errors'[x].at \in {"dispatched", "drain", "queue", "backend"} => errors'[x].home = 0
      BY <1>5 DEF Excused, RaisedIn
    <2>1. errors'[x].home = errors[x].home /\ \A s : RaisedIn(s)' = RaisedIn(s)
      BY <1>5
    <2>2. /\ errors[x].at \in {"shadowed", "eclipsed"} => \E f \in RaisedIn(errors[x].home) : f # x
          /\ errors[x].at = "silenced" => lost
          /\ errors[x].at \in {"dispatched", "drain", "queue", "backend"} => errors[x].home = 0
      BY DEF Excused
    <2>3. CASE x = told
      BY <2>1, <2>2, <2>3, <1>3, <1>4, <1>4a, <1>6
    <2>4. CASE x # told
      <3>1. errors'[x].at = errors[x].at /\ lost' = lost
        BY <2>4, <1>2, <1>6
      <3> HIDE DEF ScopesInv
      <3> QED
        BY <2>1, <2>2, <3>1
    <2> QED
      BY <2>3, <2>4
  <1> QED
    BY <1>5, <1>7, <1>8, <1>9, <1>10, <1>11

(* Where an error is kept tells its half and its home.                     *)
LEMMA HalfAndHome ==
  ASSUME ScopesInv
  PROVE  /\ \A i \in DOMAIN scopes : scopes[i].error # None =>
              LET x == scopes[i].error IN
              ~lost /\ x \in Errors /\ errors[x].half = "binding" /\ errors[x].home = native[i].id
         /\ \A i \in DOMAIN native : native[i].error # None =>
              LET x == native[i].error IN
              x \in Errors /\ errors[x].half = "backend" /\ errors[x].home = native[i].id
         /\ \A p \in Pops : pops[p].synthetic # None =>
              LET x == pops[p].synthetic IN
              /\ pops[p].scope # 0 /\ x \in Errors
              /\ errors[x].half = "binding" /\ errors[x].home = pops[p].scope
         /\ \A p \in Pops : pops[p].native # None =>
              LET x == pops[p].native IN
              /\ pops[p].scope # 0 /\ x \in Errors
              /\ errors[x].half = "backend" /\ errors[x].home = pops[p].scope
  <1> USE DEF ScopesInv
  <1>1. \A x, h, s : FirstCaught(x, h, s) /\ x # None =>
           x \in Errors /\ errors[x].half = h /\ errors[x].home = s
    BY DEF FirstCaught, RaisedIn
  <1>2. /\ \A i \in DOMAIN scopes : IF lost THEN scopes[i].error = None
                                    ELSE FirstCaught(scopes[i].error, "binding", scopes[i].id)
        /\ \A i \in DOMAIN native : FirstCaught(native[i].error, "backend", native[i].id)
        /\ \A p \in Pops : pops[p].scope # 0 =>
             /\ FirstCaught(pops[p].native, "backend", pops[p].scope)
             /\ \/ FirstCaught(pops[p].synthetic, "binding", pops[p].scope)
                \/ pops[p].synthetic = None
    BY DEF FirstKept
  <1>3. \A p \in Pops : pops[p].synthetic # None \/ pops[p].native # None => pops[p].scope # 0
    BY DEF PopsClose
  <1>4. DOMAIN scopes = DOMAIN native /\ \A i \in DOMAIN native : scopes[i].id = native[i].id
    BY DEF ScopesPaired
  <1> HIDE DEF ScopesInv
  <1> QED
    BY <1>1, <1>2, <1>3, <1>4

LEMMA MarkLostStep ==
  ASSUME ScopesInv, MarkLost
  PROVE  ScopesInv'
  <1> DEFINE told == {scopes[i].error : i \in DOMAIN scopes}
  <1> USE DEF ScopesInv
  <1>1. /\ ~lost /\ lost' /\ lost' \in BOOLEAN /\ errors' = Move(told, "silenced")
        /\ scopes' = [i \in DOMAIN scopes |-> [scopes[i] EXCEPT !.error = None]]
        /\ UNCHANGED <<native, nextScope, pops, queue, collected, raised>>
    BY DEF MarkLost
  <1>2. \A i \in DOMAIN scopes : scopes[i] \in Scope
    BY ScopeTypes
  <1>3. /\ DOMAIN scopes' = DOMAIN scopes /\ scopes' \in Seq(Scope)
        /\ \A i \in DOMAIN scopes : /\ scopes'[i].id = scopes[i].id /\ scopes'[i].filter = scopes[i].filter
                                    /\ scopes'[i].error = None
    <2>1. \A x \in Scope : /\ [x EXCEPT !.error = None] \in Scope
                           /\ [x EXCEPT !.error = None].id = x.id
                           /\ [x EXCEPT !.error = None].filter = x.filter
                           /\ [x EXCEPT !.error = None].error = None
      BY DEF Scope
    <2>2. scopes' \in Seq(Scope)
      <3>1. Len(scopes) \in Nat /\ DOMAIN scopes = 1 .. Len(scopes)
        BY DEF ErrorTypeOK
      <3>2. \A i \in 1 .. Len(scopes) : [scopes[i] EXCEPT !.error = None] \in Scope
        BY <1>2, <2>1, <3>1
      <3> HIDE DEF ScopesInv
      <3>3. [i \in 1 .. Len(scopes) |-> [scopes[i] EXCEPT !.error = None]] \in Seq(Scope)
        BY <3>1, <3>2
      <3> QED
        BY <3>1, <3>3, <1>1
    <2> HIDE DEF ScopesInv
    <2> QED
      BY <1>1, <1>2, <2>1, <2>2
  <1>4. \A x \in told \cap Errors : errors[x].at = "scope" /\ errors[x].half = "binding"
                                    /\ \E i \in DOMAIN native : errors[x].home = native[i].id
    <2>1. ASSUME NEW x \in told \cap Errors
          PROVE  errors[x].at = "scope" /\ errors[x].half = "binding"
                 /\ \E i \in DOMAIN native : errors[x].home = native[i].id
      <3>1. PICK i \in DOMAIN scopes : x = scopes[i].error
        OBVIOUS
      <3>2. x # None
        BY ErrorScopesAssumption
      <3> QED
        BY <3>1, <3>2, HalfAndHome DEF KeptInPlace, ScopesPaired
    <2> QED
      BY <2>1
  <1>5. /\ errors' \in [Errors -> Error]
        /\ \A x \in Errors : /\ errors'[x].at = IF x \in told THEN "silenced" ELSE errors[x].at
                             /\ errors'[x].half = errors[x].half /\ errors'[x].home = errors[x].home
    <2>1. \A x \in Error : /\ [x EXCEPT !.at = "silenced"] \in Error
                           /\ [x EXCEPT !.at = "silenced"].at = "silenced"
                           /\ [x EXCEPT !.at = "silenced"].half = x.half
                           /\ [x EXCEPT !.at = "silenced"].home = x.home
      BY DEF Error
    <2>2. \A x \in Errors : errors[x] \in Error
      BY ScopeTypes
    <2>3. errors' = [x \in Errors |-> IF x \in told THEN [errors[x] EXCEPT !.at = "silenced"] ELSE errors[x]]
      BY <1>1 DEF Move
    <2> HIDE DEF told, ScopesInv
    <2> QED
      BY <2>1, <2>2, <2>3
  <1>6. NothingRaised
    <2> HIDE DEF told
    <2> QED
      BY <1>1, <1>4, <1>5 DEF NothingRaised
  <1>7. (\A x, half, s : FirstCaught(x, half, s) => FirstCaught(x, half, s)') /\ \A s : RaisedIn(s)' = RaisedIn(s)
    BY <1>6, QuietCaught
  <1>8. /\ \A i \in DOMAIN native : native[i].error \notin told \/ native[i].error = None
        /\ \A p \in Pops, x \in Errors : Holds(pops[p], x) => x \notin told
    <2>1. /\ \A i \in DOMAIN native : native[i].error # None =>
               native[i].error \in Errors /\ errors[native[i].error].half = "backend"
          /\ \A p \in Pops : pops[p].synthetic # None =>
               pops[p].synthetic \in Errors /\ errors[pops[p].synthetic].home = pops[p].scope
          /\ \A p \in Pops : pops[p].native # None =>
               pops[p].native \in Errors /\ errors[pops[p].native].half = "backend"
      BY HalfAndHome
    <2>2. \A p \in Pops : \A i \in DOMAIN native : native[i].id # pops[p].scope
      BY DEF PopsClose
    <2> HIDE DEF told, ScopesInv
    <2> QED
      BY <1>4, <2>1, <2>2 DEF Holds
  <1>9. \A i \in DOMAIN scopes : scopes[i].error \in told
    OBVIOUS
  <1> HIDE DEF told
  <1>10. ErrorTypeOK' /\ PopsClose'
    <2>1. ErrorTypeOK'
      BY <1>1, <1>3, <1>5 DEF ErrorTypeOK
    <2>2. PopsClose /\ pops' = pops /\ native' = native /\ nextScope' = nextScope /\ lost' /\ ~lost
      BY <1>1
    <2>3. PopsClose'
      BY <2>2 DEF PopsClose
    <2> QED
      BY <2>1, <2>3
  <1>11. ScopesPaired' /\ RaisedOnce'
    <2>1. ScopesPaired /\ RaisedOnce /\ native' = native /\ nextScope' = nextScope
      BY <1>1
    <2> HIDE DEF ScopesInv
    <2>2. ScopesPaired'
      BY <1>3, <2>1 DEF ScopesPaired
    <2>3. RaisedOnce'
      BY <1>5, <1>6, <2>1 DEF RaisedOnce, NothingRaised
    <2> QED
      BY <2>2, <2>3
  <1>12. FirstKept'
    <2>1. ASSUME NEW i \in DOMAIN scopes', NEW x, NEW s, x = scopes'[i].error, s = scopes'[i].id
          PROVE  IF lost' THEN x = None ELSE FirstCaught(x, "binding", s)'
      BY <2>1, <1>1, <1>3
    <2>2. ASSUME NEW i \in DOMAIN native', NEW x, NEW s, x = native'[i].error, s = native'[i].id
          PROVE  FirstCaught(x, "backend", s)'
      BY <2>2, <1>1, <1>7 DEF FirstKept
    <2>3. ASSUME NEW p \in Pops, NEW x, NEW y, NEW s,
                 x = pops'[p].native, y = pops'[p].synthetic, s = pops'[p].scope, s # 0
          PROVE  /\ FirstCaught(x, "backend", s)'
                 /\ FirstCaught(y, "binding", s)' \/ (lost' /\ y = None)
      BY <2>3, <1>1, <1>7 DEF FirstKept
    <2> QED
      BY <2>1, <2>2, <2>3, FirstKeptNext
  <1>13. KeptInPlace'
    <2>1. \A i \in DOMAIN native' : native'[i].error # None => errors'[native'[i].error].at = "scope"
      <3>1. \A i \in DOMAIN native : native[i].error # None => native[i].error \in Errors
        BY HalfAndHome
      <3> QED
        BY <3>1, <1>1, <1>5, <1>8 DEF KeptInPlace
    <2>2. \A p \in Pops : Open(p)' => \A x \in Errors : Holds(pops'[p], x) => errors'[x].at = "scope"
      BY <1>1, <1>5, <1>8 DEF KeptInPlace, Open
    <2>3. ASSUME NEW x \in Errors, errors'[x].at = "scope"
          PROVE  \/ \E i \in DOMAIN native' : native'[i].error = x
                 \/ \E p \in Pops : Open(p)' /\ Holds(pops'[p], x)
      <3>1. errors[x].at = "scope" /\ x \notin told
        BY <2>3, <1>5
      <3>2. \/ \E i \in DOMAIN scopes : scopes[i].error = x
            \/ \E i \in DOMAIN native : native[i].error = x
            \/ \E p \in Pops : Open(p) /\ Holds(pops[p], x)
        BY <3>1 DEF KeptInPlace
      <3>3. pops' = pops /\ native' = native
        BY <1>1
      <3> HIDE DEF ScopesInv
      <3> QED
        BY <3>1, <3>2, <3>3, <1>9 DEF Open
    <2> QED
      BY <2>1, <2>2, <2>3, <1>3 DEF KeptInPlace
  <1>14. QueuedOnce'
    <2>1. \A x \in Errors : /\ errors'[x].at = "queue" <=> errors[x].at = "queue"
                            /\ errors'[x].at = "drain" <=> errors[x].at = "drain"
      BY <1>4, <1>5
    <2>2. /\ \A i \in DOMAIN queue : queue[i].kind = "error" => queue[i].of \in Errors
          /\ \A r \in collected : r.of \in Errors
      BY DEF ErrorTypeOK, Record
    <2>3. queue' = queue /\ collected' = collected /\ pops' = pops /\ QueuedOnce
      BY <1>1
    <2> HIDE DEF ScopesInv
    <2> QED
      BY <2>1, <2>2, <2>3 DEF QueuedOnce
  <1>15. ReportedOnce'
    <2>1. \A p \in Pops : pops[p].value \in Errors \cup {None}
      BY DEF ErrorTypeOK, Pop
    <2>2. pops' = pops /\ ReportedOnce
      BY <1>1
    <2>3. \A x \in Errors : errors'[x].at = "reported" <=> errors[x].at = "reported"
      BY <1>4, <1>5
    <2> HIDE DEF ScopesInv
    <2> QED
      BY <2>1, <2>2, <2>3 DEF ReportedOnce
  <1>16. Excused'
    <2> SUFFICES ASSUME NEW x \in Errors
                 PROVE  /\ errors'[x].at \in {"shadowed", "eclipsed"} =>
                             \E f \in RaisedIn(errors[x].home)' : f # x
                        /\ errors'[x].at = "silenced" => lost'
                        /\ errors'[x].at \in {"dispatched", "drain", "queue", "backend"} => errors'[x].home = 0
      BY <1>5 DEF Excused, RaisedIn
    <2>1. errors'[x].home = errors[x].home /\ \A s : RaisedIn(s)' = RaisedIn(s)
      BY <1>5, <1>7
    <2>2. /\ errors[x].at \in {"shadowed", "eclipsed"} => \E f \in RaisedIn(errors[x].home) : f # x
          /\ errors[x].at \in {"dispatched", "drain", "queue", "backend"} => errors[x].home = 0
      BY DEF Excused
    <2> HIDE DEF ScopesInv
    <2>3. errors'[x].at = "silenced" \/ errors'[x].at = errors[x].at
      BY <1>5
    <2> QED
      BY <2>1, <2>2, <2>3, <1>1
  <1> QED
    BY <1>10, <1>11, <1>12, <1>13, <1>14, <1>15, <1>16

(***************************************************************************)
(* The drain.                                                              *)
(***************************************************************************)
Drained(kind) == {queue[i].of : i \in {j \in DOMAIN queue : queue[j].kind = kind}}

(* An error is in at most one request.                                     *)
LEMMA HeldOnce ==
  ASSUME ScopesInv, NEW e \in Errors, NEW p \in Pops, NEW q \in Pops,
         Holds(pops[p], e), Holds(pops[q], e)
  PROVE  p = q
  <1>1. /\ pops[p].scope # 0 /\ errors[e].home = pops[p].scope
        /\ pops[q].scope # 0 /\ errors[e].home = pops[q].scope
    BY HalfAndHome DEF Holds
  <1> QED
    BY <1>1 DEF ScopesInv, PopsClose

(* What the drain takes.                                                   *)
LEMMA DrainTakes ==
  ASSUME ScopesInv, Drain
  PROVE  /\ collected = {}
         /\ \A p \in Drained("pop") : p \in Pops /\ pops[p].state = "queued" /\ Open(p)
         /\ \A e \in Drained("error") : e \in Errors /\ errors[e].at = "queue"
         /\ \A e \in Errors : errors[e].at = "queue" => e \in Drained("error")
         /\ \A p \in Drained("pop"), e \in Errors : Holds(pops[p], e) => errors[e].at = "scope"
  <1> USE DEF ScopesInv
  <1>1. collected = {}
    BY DEF Drain
  <1>2. \A i \in DOMAIN queue : queue[i].kind = "pop" => queue[i].of \in Pops
    BY DEF ErrorTypeOK, Record
  <1>3. \A i \in DOMAIN queue : queue[i].kind = "error" => queue[i].of \in Errors
    BY DEF ErrorTypeOK, Record
  <1>4. \A p \in Drained("pop") : p \in Pops /\ pops[p].state = "queued" /\ Open(p)
    BY <1>2 DEF Drained, QueuedOnce, Open
  <1>5. \A e \in Drained("error") : e \in Errors /\ errors[e].at = "queue"
    BY <1>3 DEF Drained, QueuedOnce
  <1>6. ASSUME NEW e \in Errors, errors[e].at = "queue"
        PROVE  e \in Drained("error")
    <2>1. PICK i \in DOMAIN queue : queue[i] = ErrorRecord(e)
      BY <1>6 DEF QueuedOnce
    <2>2. queue[i].kind = "error" /\ queue[i].of = e
      BY <2>1 DEF ErrorRecord
    <2> QED
      BY <2>2 DEF Drained
  <1>7. \A p \in Drained("pop"), e \in Errors : Holds(pops[p], e) => errors[e].at = "scope"
    BY <1>4 DEF KeptInPlace
  <1> QED
    BY <1>1, <1>4, <1>5, <1>6, <1>7

(* What it leaves of the requests.                                         *)
LEMMA DrainAnswers ==
  ASSUME ScopesInv, Drain
  PROVE  /\ pops' \in [Pops -> Pop]
         /\ \A p \in Pops : /\ pops'[p].scope = pops[p].scope /\ pops'[p].ok = pops[p].ok
                            /\ pops'[p].synthetic = pops[p].synthetic /\ pops'[p].native = pops[p].native
         /\ \A p \in Pops \ Drained("pop") : pops'[p] = pops[p]
         /\ \A p \in Drained("pop") :
              pops'[p].state = PopState(pops[p]) /\ pops'[p].value = Value(pops[p])
  <1>1. pops' = [p \in Pops |-> IF p \in Drained("pop")
                   THEN [pops[p] EXCEPT !.state = PopState(pops[p]), !.value = Value(pops[p])]
                   ELSE pops[p]]
    BY DEF Drain, Drained
  <1>2. \A p \in Pops : pops[p] \in Pop
    BY ScopeTypes DEF ScopesInv
  <1>3. ASSUME NEW p \in Pops, NEW after,
               after = [pops[p] EXCEPT !.state = PopState(pops[p]), !.value = Value(pops[p])]
        PROVE  /\ after \in Pop /\ after.state = PopState(pops[p]) /\ after.value = Value(pops[p])
               /\ after.scope = pops[p].scope /\ after.ok = pops[p].ok
               /\ after.synthetic = pops[p].synthetic /\ after.native = pops[p].native
    <2>1. PopState(pops[p]) \in {"rejected", "resolved"} /\ Value(pops[p]) \in Errors \cup {None}
      BY <1>2 DEF PopState, Value, Pop
    <2> QED
      BY <1>2, <1>3, <2>1 DEF Pop
  <1>4. Drained("pop") \subseteq Pops
    BY DrainTakes
  <1>5. ASSUME NEW p \in Pops
        PROVE  /\ pops'[p] \in Pop
               /\ pops'[p].scope = pops[p].scope /\ pops'[p].ok = pops[p].ok
               /\ pops'[p].synthetic = pops[p].synthetic /\ pops'[p].native = pops[p].native
               /\ p \notin Drained("pop") => pops'[p] = pops[p]
               /\ p \in Drained("pop") =>
                    pops'[p].state = PopState(pops[p]) /\ pops'[p].value = Value(pops[p])
    <2>1. CASE p \in Drained("pop")
      <3>1. pops'[p] = [pops[p] EXCEPT !.state = PopState(pops[p]), !.value = Value(pops[p])]
        BY <2>1, <1>1
      <3> QED
        BY <3>1, <2>1, <1>3
    <2>2. CASE p \notin Drained("pop")
      BY <2>2, <1>1, <1>2
    <2> QED
      BY <2>1, <2>2
  <1> QED
    BY <1>1, <1>4, <1>5

(* What it leaves of the errors.                                           *)
LEMMA DrainMoves ==
  ASSUME ScopesInv, Drain
  PROVE  /\ errors' \in [Errors -> Error]
         /\ \A e \in Errors : errors'[e].half = errors[e].half /\ errors'[e].home = errors[e].home
         /\ \A e \in Drained("error") : errors'[e].at = IF lost THEN "silenced" ELSE "drain"
         /\ \A p \in Drained("pop"), e \in Errors :
              Holds(pops[p], e) => errors'[e].at = PopFate(pops[p], e)
         /\ \A e \in Errors \ Drained("error") :
              (~\E p \in Drained("pop") : Holds(pops[p], e)) => errors'[e].at = errors[e].at
         /\ NothingRaised
  <1> DEFINE fate(e) == IF e \in Drained("error") THEN IF lost THEN "silenced" ELSE "drain"
                        ELSE IF \E p \in Drained("pop") : Holds(pops[p], e)
                        THEN PopFate(pops[CHOOSE p \in Drained("pop") : Holds(pops[p], e)], e)
                        ELSE errors[e].at
  <1>1. errors' = [e \in Errors |-> [errors[e] EXCEPT !.at = fate(e)]]
    <2>1. errors' = [e \in Errors |-> [errors[e] EXCEPT !.at =
                       IF e \in Drained("error") THEN IF lost THEN "silenced" ELSE "drain"
                       ELSE IF \E p \in Drained("pop") : Holds(pops[p], e)
                       THEN PopFate(pops[CHOOSE p \in Drained("pop") : Holds(pops[p], e)], e)
                       ELSE @]]
      BY DEF Drain, Drained
    <2> QED
      BY <2>1
  <1>2. \A e \in Errors : errors[e] \in Error
    BY ScopeTypes DEF ScopesInv
  <1>3. \A e \in Drained("error") : fate(e) = IF lost THEN "silenced" ELSE "drain"
    OBVIOUS
  <1>4. ASSUME NEW p \in Drained("pop"), NEW e \in Errors, Holds(pops[p], e)
        PROVE  fate(e) = PopFate(pops[p], e)
    <2>1. e \notin Drained("error")
      BY <1>4, DrainTakes
    <2>2. \A q \in Drained("pop") : Holds(pops[q], e) => q = p
      BY <1>4, DrainTakes, HeldOnce
    <2>3. (CHOOSE q \in Drained("pop") : Holds(pops[q], e)) = p
      BY <1>4, <2>2
    <2> QED
      BY <1>4, <2>1, <2>3
  <1>5. \A e \in Errors \ Drained("error") :
           (~\E p \in Drained("pop") : Holds(pops[p], e)) => fate(e) = errors[e].at
    OBVIOUS
  <1>6. \A e \in Errors : /\ fate(e) \in {"nowhere", "scope", "shadowed", "backend", "queue", "drain", "dispatched",
                                          "reported", "eclipsed", "silenced", "failed"}
                          /\ fate(e) = "nowhere" <=> errors[e].at = "nowhere"
    <2>1. ASSUME NEW e \in Errors
          PROVE  /\ fate(e) \in {"nowhere", "scope", "shadowed", "backend", "queue", "drain", "dispatched",
                                 "reported", "eclipsed", "silenced", "failed"}
                 /\ fate(e) = "nowhere" <=> errors[e].at = "nowhere"
      <3>1. CASE e \in Drained("error")
        <4>1. errors[e].at = "queue"
          BY <3>1, DrainTakes
        <4> QED
          BY <3>1, <4>1, <1>3
      <3>2. CASE \E p \in Drained("pop") : Holds(pops[p], e)
        <4>1. PICK p \in Drained("pop") : Holds(pops[p], e)
          BY <3>2
        <4>2. fate(e) = PopFate(pops[p], e) /\ errors[e].at = "scope"
          BY <4>1, <1>4, DrainTakes
        <4> HIDE DEF fate
        <4> QED
          BY <4>2 DEF PopFate
      <3>3. CASE e \notin Drained("error") /\ ~\E p \in Drained("pop") : Holds(pops[p], e)
        <4>1. fate(e) = errors[e].at
          BY <3>3
        <4> HIDE DEF fate
        <4> QED
          BY <4>1, <1>2 DEF Error
      <3> QED
        BY <3>1, <3>2, <3>3
    <2> QED
      BY <2>1
  <1> HIDE DEF fate
  <1>7. ASSUME NEW e \in Errors
        PROVE  /\ errors'[e] \in Error /\ errors'[e].at = fate(e)
               /\ errors'[e].half = errors[e].half /\ errors'[e].home = errors[e].home
    BY <1>1, <1>2, <1>6 DEF Error
  <1>8. errors' \in [Errors -> Error]
    BY <1>1, <1>7
  <1>9. NothingRaised
    BY <1>6, <1>7 DEF NothingRaised, Drain
  <1> QED
    BY <1>3, <1>4, <1>5, <1>7, <1>8, <1>9, DrainTakes

LEMMA DrainStep ==
  ASSUME ScopesInv, Drain
  PROVE  ScopesInv'
  <1> USE DEF ScopesInv
  <1>1. /\ UNCHANGED <<scopes, native, nextScope, lost, raised>> /\ queue' = <<>>
        /\ collected' = IF lost THEN {}
             ELSE {[at |-> i, of |-> queue[i].of] : i \in {j \in DOMAIN queue : queue[j].kind = "error"}}
    BY DEF Drain, scopeVars
  <1> DEFINE D == Drained("pop")
             E == Drained("error")
  <1>2. /\ collected = {}
        /\ \A p \in D : p \in Pops /\ pops[p].state = "queued" /\ Open(p)
        /\ \A e \in E : e \in Errors /\ errors[e].at = "queue"
        /\ \A e \in Errors : errors[e].at = "queue" => e \in E
        /\ \A p \in D, e \in Errors : Holds(pops[p], e) => errors[e].at = "scope"
    BY DrainTakes
  <1>3. /\ pops' \in [Pops -> Pop]
        /\ \A p \in Pops : /\ pops'[p].scope = pops[p].scope /\ pops'[p].ok = pops[p].ok
                           /\ pops'[p].synthetic = pops[p].synthetic /\ pops'[p].native = pops[p].native
        /\ \A p \in Pops \ D : pops'[p] = pops[p]
        /\ \A p \in D : pops'[p].state = PopState(pops[p]) /\ pops'[p].value = Value(pops[p])
    BY DrainAnswers
  <1>4. /\ errors' \in [Errors -> Error]
        /\ \A e \in Errors : errors'[e].half = errors[e].half /\ errors'[e].home = errors[e].home
        /\ \A e \in E : errors'[e].at = IF lost THEN "silenced" ELSE "drain"
        /\ \A p \in D, e \in Errors : Holds(pops[p], e) => errors'[e].at = PopFate(pops[p], e)
        /\ \A e \in Errors \ E :
             (~\E p \in D : Holds(pops[p], e)) => errors'[e].at = errors[e].at
        /\ NothingRaised
    BY DrainMoves
  <1> HIDE DEF D, E
  <1>5. (\A x, half, s : FirstCaught(x, half, s) => FirstCaught(x, half, s)') /\ \A s : RaisedIn(s)' = RaisedIn(s)
    BY <1>4, QuietCaught
  <1>6. \A p \in Pops : \A e : Holds(pops'[p], e) <=> Holds(pops[p], e)
    BY <1>3 DEF Holds
  <1>7. \A p \in Pops : Open(p)' => Open(p) /\ p \notin D
    BY <1>3 DEF Open, PopState
  <1>8. \A p \in D : pops'[p].state = "resolved" <=> pops[p].ok
    BY <1>3 DEF PopState
  <1>9. \A p \in Pops : pops'[p].state = "resolved" /\ pops[p].state # "resolved" => p \in D
    BY <1>3
  <1>10. \A i \in DOMAIN queue : queue[i].kind = "error" => queue[i].of \in E
    BY DEF E, Drained
  <1>11. ErrorTypeOK'
    <2>1. collected' \subseteq [at : Nat, of : Errors]
      <3>1. \A i \in DOMAIN queue : i \in Nat
        BY DEF ErrorTypeOK
      <3> QED
        BY <3>1, <1>1, <1>2, <1>10
    <2> QED
      BY <2>1, <1>1, <1>3, <1>4 DEF ErrorTypeOK
  <1>12. ScopesPaired' /\ RaisedOnce'
    <2>1. ScopesPaired /\ RaisedOnce
      OBVIOUS
    <2> HIDE DEF ScopesInv
    <2> QED
      BY <2>1, <1>1, <1>4 DEF ScopesPaired, RaisedOnce, NothingRaised
  <1>13. PopsClose'
    <2>1. ASSUME NEW p \in Pops
          PROVE  /\ pops'[p].scope <= nextScope'
                 /\ \A i \in DOMAIN native' : native'[i].id # pops'[p].scope
                 /\ pops'[p].state = "unused" => pops'[p].scope = 0
                 /\ pops'[p].scope = 0 => pops'[p].synthetic = None /\ pops'[p].native = None
                 /\ pops'[p].scope = 0 /\ pops'[p].state # "unused" => ~pops'[p].ok
      <3>1. /\ pops[p].scope <= nextScope
            /\ \A i \in DOMAIN native : native[i].id # pops[p].scope
            /\ pops[p].state = "unused" => pops[p].scope = 0
            /\ pops[p].scope = 0 => pops[p].synthetic = None /\ pops[p].native = None
            /\ pops[p].scope = 0 /\ pops[p].state # "unused" => ~pops[p].ok
        BY DEF PopsClose
      <3>2. pops'[p].state = "unused" <=> pops[p].state = "unused"
        BY <1>2, <1>3 DEF PopState
      <3> HIDE DEF ScopesInv
      <3> QED
        BY <3>1, <3>2, <1>1, <1>3
    <2>2. ASSUME NEW p \in Pops, pops'[p].state = "resolved"
          PROVE  /\ pops'[p].ok
                 /\ \/ pops'[p].value = pops'[p].native /\ pops'[p].value # None
                    \/ pops'[p].value = pops'[p].synthetic /\ pops'[p].value # None
                    \/ /\ pops'[p].value = None
                       /\ lost' \/ (pops'[p].native = None /\ pops'[p].synthetic = None)
      <3>1. CASE p \in D
        <4>1. pops[p].ok /\ pops'[p].value = Value(pops[p])
          BY <2>2, <3>1, <1>3, <1>8
        <4> QED
          BY <4>1, <1>1, <1>3 DEF Value
      <3>2. CASE p \notin D
        <4>1. pops'[p] = pops[p]
          BY <3>2, <1>3
        <4> QED
          BY <4>1, <2>2, <1>1 DEF PopsClose
      <3> QED
        BY <3>1, <3>2
    <2>3. \A p, q \in Pops : pops'[p].scope = pops'[q].scope /\ pops'[p].scope # 0 => p = q
      BY <1>3 DEF PopsClose
    <2> HIDE DEF ScopesInv
    <2> QED
      BY <2>1, <2>2, <2>3 DEF PopsClose
  <1>14. FirstKept'
    <2>1. ASSUME NEW i \in DOMAIN scopes', NEW x, NEW s, x = scopes'[i].error, s = scopes'[i].id
          PROVE  IF lost' THEN x = None ELSE FirstCaught(x, "binding", s)'
      BY <2>1, <1>1, <1>5 DEF FirstKept
    <2>2. ASSUME NEW i \in DOMAIN native', NEW x, NEW s, x = native'[i].error, s = native'[i].id
          PROVE  FirstCaught(x, "backend", s)'
      BY <2>2, <1>1, <1>5 DEF FirstKept
    <2>3. ASSUME NEW p \in Pops, NEW x, NEW y, NEW s,
                 x = pops'[p].native, y = pops'[p].synthetic, s = pops'[p].scope, s # 0
          PROVE  /\ FirstCaught(x, "backend", s)'
                 /\ FirstCaught(y, "binding", s)' \/ (lost' /\ y = None)
      <3>1. FirstCaught(x, "backend", s) /\ (FirstCaught(y, "binding", s) \/ (lost /\ y = None))
        BY <2>3, <1>3 DEF FirstKept
      <3> QED
        BY <3>1, <1>1, <1>5
    <2> QED
      BY <2>1, <2>2, <2>3, FirstKeptNext
  <1>15. KeptInPlace'
    <2>1. \A e \in Errors : errors[e].at = "scope" /\ (~\E p \in D : Holds(pops[p], e)) => errors'[e].at = "scope"
      BY <1>2, <1>4
    <2>2. \A i \in DOMAIN scopes : scopes[i].error # None =>
             /\ scopes[i].error \in Errors /\ errors[scopes[i].error].at = "scope"
             /\ ~\E p \in D : Holds(pops[p], scopes[i].error)
      <3>1. \A i \in DOMAIN scopes : scopes[i].error # None =>
              scopes[i].error \in Errors /\ errors[scopes[i].error].home = native[i].id
        BY HalfAndHome
      <3>2. \A p \in Pops : \A e : Holds(pops[p], e) => errors[e].home = pops[p].scope
        BY HalfAndHome DEF Holds
      <3> QED
        BY <3>1, <3>2, <1>2 DEF PopsClose, ScopesPaired, KeptInPlace
    <2>3. \A i \in DOMAIN native : native[i].error # None =>
             /\ native[i].error \in Errors /\ errors[native[i].error].at = "scope"
             /\ ~\E p \in D : Holds(pops[p], native[i].error)
      <3>1. \A i \in DOMAIN native : native[i].error # None =>
              native[i].error \in Errors /\ errors[native[i].error].home = native[i].id
        BY HalfAndHome
      <3>2. \A p \in Pops : \A e : Holds(pops[p], e) => errors[e].home = pops[p].scope
        BY HalfAndHome DEF Holds
      <3> QED
        BY <3>1, <3>2, <1>2 DEF PopsClose, KeptInPlace
    <2>4. ASSUME NEW p \in Pops, Open(p)', NEW e \in Errors, Holds(pops'[p], e)
          PROVE  errors'[e].at = "scope"
      <3>1. Open(p) /\ p \notin D /\ Holds(pops[p], e)
        BY <2>4, <1>6, <1>7
      <3>2. ~\E q \in D : Holds(pops[q], e)
        BY <3>1, <1>2, HeldOnce
      <3> QED
        BY <3>1, <3>2, <2>1 DEF KeptInPlace
    <2>5. ASSUME NEW e \in Errors, errors'[e].at = "scope"
          PROVE  \/ \E i \in DOMAIN scopes : scopes[i].error = e
                 \/ \E i \in DOMAIN native : native[i].error = e
                 \/ \E p \in Pops : Open(p)' /\ Holds(pops'[p], e)
      <3>1. e \notin E
        BY <2>5, <1>4
      <3>2. ~\E p \in D : Holds(pops[p], e)
        BY <2>5, <1>4 DEF PopFate
      <3>3. errors[e].at = "scope"
        BY <2>5, <3>1, <3>2, <1>4
      <3>4. \/ \E i \in DOMAIN scopes : scopes[i].error = e
            \/ \E i \in DOMAIN native : native[i].error = e
            \/ \E p \in Pops : Open(p) /\ Holds(pops[p], e)
        BY <3>3 DEF KeptInPlace
      <3>5. \A p \in Pops : Open(p) /\ Holds(pops[p], e) => Open(p)' /\ Holds(pops'[p], e)
        BY <3>2, <1>3, <1>6 DEF Open
      <3> HIDE DEF ScopesInv
      <3> QED
        BY <3>4, <3>5
    <2> HIDE DEF ScopesInv
    <2> QED
      BY <2>1, <2>2, <2>3, <2>4, <2>5, <1>1 DEF KeptInPlace
  <1>16. QueuedOnce'
    <2>1. DOMAIN queue' = {}
      BY <1>1
    <2>2. ASSUME NEW e \in Errors, errors'[e].at \in {"queue", "drain"}
          PROVE  e \in E /\ ~lost /\ errors'[e].at = "drain"
      <3>1. ~\E p \in D : Holds(pops[p], e)
        BY <2>2, <1>4 DEF PopFate
      <3>2. errors[e].at # "drain"
        BY <1>2 DEF QueuedOnce
      <3> QED
        BY <3>1, <3>2, <2>2, <1>2, <1>4
    <2>3. \A r \in collected' : r.of \in E /\ ~lost
      BY <1>1, <1>10
    <2>4. \A r \in collected' : errors'[r.of].at = "drain"
      BY <2>3, <1>4
    <2>5. \A r, s \in collected' : r.of = s.of => r = s
      <3> SUFFICES ASSUME NEW r \in collected', NEW s \in collected', r.of = s.of
                   PROVE  r = s
        OBVIOUS
      <3>1. PICK i \in DOMAIN queue : queue[i].kind = "error" /\ r = [at |-> i, of |-> queue[i].of]
        BY <1>1
      <3>2. PICK j \in DOMAIN queue : queue[j].kind = "error" /\ s = [at |-> j, of |-> queue[j].of]
        BY <1>1
      <3>3. queue[i].of = queue[j].of
        BY <3>1, <3>2
      <3>4. \A k \in DOMAIN queue : queue[k].kind = "error" => queue[k] = [kind |-> "error", of |-> queue[k].of]
        BY DEF ErrorTypeOK, Record
      <3>5. i = j
        BY <3>1, <3>2, <3>3, <3>4 DEF QueuedOnce
      <3> QED
        BY <3>1, <3>2, <3>5
    <2>6. ASSUME NEW e \in Errors, errors'[e].at = "drain"
          PROVE  \E r \in collected' : r.of = e
      <3>1. e \in E /\ ~lost
        BY <2>2, <2>6
      <3>2. PICK i \in DOMAIN queue : queue[i].kind = "error" /\ queue[i].of = e
        BY <3>1 DEF E, Drained
      <3>3. [at |-> i, of |-> e] \in collected'
        BY <3>1, <3>2, <1>1
      <3> QED
        BY <3>3
    <2> HIDE DEF ScopesInv
    <2> QED
      BY <2>1, <2>2, <2>4, <2>5, <2>6 DEF QueuedOnce
  <1>17. ReportedOnce'
    <2>1. ASSUME NEW p \in Pops, pops'[p].state = "resolved", pops'[p].value # None
          PROVE  errors'[pops'[p].value].at = "reported"
      <3>1. CASE p \in D
        <4>1. /\ pops[p].ok /\ ~lost /\ pops'[p].value = Value(pops[p])
              /\ Holds(pops[p], Value(pops[p]))
          BY <2>1, <3>1, <1>3, <1>8 DEF Value, Holds
        <4>2. Value(pops[p]) \in Errors
          BY <4>1, HalfAndHome DEF Holds
        <4>3. errors'[Value(pops[p])].at = PopFate(pops[p], Value(pops[p]))
          BY <3>1, <4>1, <4>2, <1>4
        <4> QED
          BY <4>1, <4>3 DEF PopFate
      <3>2. CASE p \notin D
        <4>1. pops'[p] = pops[p]
          BY <3>2, <1>3
        <4>2. pops[p].value \in Errors /\ errors[pops[p].value].at = "reported"
          BY <2>1, <4>1 DEF ReportedOnce, ErrorTypeOK, Pop
        <4>3. pops[p].value \notin E /\ ~\E q \in D : Holds(pops[q], pops[p].value)
          BY <4>2, <1>2
        <4> QED
          BY <4>1, <4>2, <4>3, <1>4
      <3> QED
        BY <3>1, <3>2
    <2>2. ASSUME NEW e \in Errors, errors'[e].at = "reported"
          PROVE  \E p \in Pops : pops'[p].state = "resolved" /\ pops'[p].value = e
      <3>1. e \notin E
        BY <2>2, <1>4
      <3>2. CASE \E p \in D : Holds(pops[p], e)
        <4>1. PICK p \in D : Holds(pops[p], e)
          BY <3>2
        <4>2. PopFate(pops[p], e) = "reported"
          BY <4>1, <2>2, <1>4
        <4>3. pops[p].ok /\ Value(pops[p]) = e
          BY <4>2 DEF PopFate
        <4> QED
          BY <4>1, <4>3, <1>2, <1>3, <1>8
      <3>3. CASE ~\E p \in D : Holds(pops[p], e)
        <4>1. errors[e].at = "reported"
          BY <2>2, <3>1, <3>3, <1>4
        <4>2. PICK p \in Pops : pops[p].state = "resolved" /\ pops[p].value = e
          BY <4>1 DEF ReportedOnce
        <4>3. p \notin D
          BY <4>2, <1>2
        <4> QED
          BY <4>2, <4>3, <1>3
      <3> QED
        BY <3>2, <3>3
    <2> HIDE DEF ScopesInv
    <2> QED
      BY <2>1, <2>2 DEF ReportedOnce
  <1>18. Excused'
    <2> SUFFICES ASSUME NEW x \in Errors
                 PROVE  /\ errors'[x].at \in {"shadowed", "eclipsed"} =>
                             \E f \in RaisedIn(errors[x].home)' : f # x
                        /\ errors'[x].at = "silenced" => lost'
                        /\ errors'[x].at \in {"dispatched", "drain", "queue", "backend"} => errors'[x].home = 0
      BY <1>4 DEF Excused, RaisedIn
    <2>1. errors'[x].home = errors[x].home /\ lost' = lost /\ \A s : RaisedIn(s)' = RaisedIn(s)
      BY <1>1, <1>4, <1>5
    <2>2. /\ errors[x].at \in {"shadowed", "eclipsed"} => \E f \in RaisedIn(errors[x].home) : f # x
          /\ errors[x].at = "silenced" => lost
          /\ errors[x].at \in {"dispatched", "drain", "queue", "backend"} => errors[x].home = 0
      BY DEF Excused
    <2>3. CASE x \in E
      BY <2>1, <2>2, <2>3, <1>2, <1>4
    <2>4. CASE \E p \in D : Holds(pops[p], x)
      <3>1. PICK p \in D : Holds(pops[p], x)
        BY <2>4
      <3>2. errors'[x].at = PopFate(pops[p], x)
        BY <3>1, <1>4
      <3>3. CASE PopFate(pops[p], x) # "eclipsed"
        BY <3>2, <3>3, <2>1 DEF PopFate
      <3>4. CASE PopFate(pops[p], x) = "eclipsed"
        <4>1. pops[p].ok /\ ~lost /\ Value(pops[p]) # x
          BY <3>4 DEF PopFate
        <4>2. pops[p].native # None /\ pops[p].native # x /\ x = pops[p].synthetic /\ x # None
          BY <3>1, <4>1 DEF Value, Holds
        <4>3. p \in Pops /\ pops[p].scope # 0 /\ errors[x].home = pops[p].scope
          BY <3>1, <4>2, <1>2, HalfAndHome
        <4>4. FirstCaught(pops[p].native, "backend", pops[p].scope)
          BY <4>3 DEF FirstKept
        <4>5. pops[p].native \in RaisedIn(errors[x].home)
          BY <4>2, <4>3, <4>4 DEF FirstCaught
        <4> HIDE DEF ScopesInv
        <4> QED
          BY <2>1, <3>2, <3>4, <4>2, <4>5
      <3> QED
        BY <3>3, <3>4
    <2>5. CASE x \notin E /\ ~\E p \in D : Holds(pops[p], x)
      <3>1. errors'[x].at = errors[x].at
        BY <2>5, <1>4
      <3> HIDE DEF ScopesInv
      <3> QED
        BY <2>1, <2>2, <3>1
    <2> QED
      BY <2>3, <2>4, <2>5
  <1> QED
    BY <1>11, <1>12, <1>13, <1>14, <1>15, <1>16, <1>17, <1>18

(***************************************************************************)
(* Every step keeps both invariants.                                       *)
(***************************************************************************)
LEMMA ScopesStill ==
  ASSUME ScopesInv, UNCHANGED errorVars
  PROVE  ScopesInv'
  <1>1. UNCHANGED <<scopes, native, nextScope, pops, queue, collected, lost, errors, raised>>
    BY DEF errorVars, scopeVars
  <1> USE DEF ScopesInv
  <1>2. ErrorTypeOK' /\ ScopesPaired' /\ RaisedOnce' /\ PopsClose'
    BY <1>1 DEF ErrorTypeOK, ScopesPaired, RaisedOnce, PopsClose
  <1>3. FirstKept'
    BY <1>1 DEF FirstKept, FirstCaught, RaisedIn, Before
  <1>4. KeptInPlace' /\ QueuedOnce' /\ ReportedOnce' /\ Excused'
    BY <1>1 DEF KeptInPlace, Open, QueuedOnce, ReportedOnce, Excused, RaisedIn
  <1> QED
    BY <1>2, <1>3, <1>4

LEMMA ScopesStep == ScopesInv /\ [Next]_vars => ScopesInv'
  <1> SUFFICES ASSUME ScopesInv, [Next]_vars
               PROVE  ScopesInv'
    OBVIOUS
  <1>1. CASE Script
    BY <1>1, PushStep, PopStep, RaiseInBindingStep, RaiseInBackendStep, ScopesStill DEF Script, ScriptErrors
  <1>2. CASE Steps
    BY <1>2, PopCallbackStep, UncapturedCallbackStep, MarkLostStep, DrainStep, DispatchStep, ScopesStill
       DEF Steps
  <1>3. CASE UNCHANGED vars
    BY <1>3, ScopesStill DEF vars
  <1> QED
    BY <1>1, <1>2, <1>3 DEF Next

(* A step of the module is a step of the listeners, starts the dispatch of *)
(* an error or leaves them alone.                                          *)
LEMMA TargetTakes ==
  ASSUME [Next]_vars
  PROVE  \/ TargetScript \/ TargetSteps
         \/ \E type \in Types : Begin(type)
         \/ UNCHANGED targetVars
  <1>1. ASSUME ScriptErrors
        PROVE  UNCHANGED targetVars
    BY <1>1 DEF ScriptErrors, PushErrorScope, PopErrorScope, RaiseInBinding, RaiseInBackend, Raise
  <1>2. CASE Script
    BY <1>1, <1>2 DEF Script
  <1>3. CASE Steps
    BY <1>3, EventTargetAssumption
       DEF Steps, PopCallback, UncapturedCallback, MarkLost, Drain, DispatchUncaptured
  <1>4. CASE UNCHANGED vars
    BY <1>4 DEF vars
  <1> QED
    BY <1>2, <1>3, <1>4 DEF Next

LEMMA TargetKept == TargetInv /\ [Next]_vars => TargetInv'
  BY TargetStep, TargetTakes

(***************************************************************************)
(* What the invariants say.                                                *)
(***************************************************************************)
LEMMA InvReports == ScopesInv => PopReportsItsScope
  <1> SUFFICES ASSUME ScopesInv, NEW p \in Pops, pops[p].state = "resolved",
                      NEW s, NEW e, s = pops[p].scope, e = pops[p].value
               PROVE  IF e = None THEN lost \/ RaisedIn(s) = {}
                      ELSE /\ e \in RaisedIn(s)
                           /\ ~\E f \in RaisedIn(s) : errors[f].half = errors[e].half /\ Before(f, e)
    BY DEF PopReportsItsScope
  <1> USE DEF ScopesInv
  <1>1. /\ s # 0
        /\ \/ e = pops[p].native /\ e # None
           \/ e = pops[p].synthetic /\ e # None
           \/ e = None /\ (lost \/ (pops[p].native = None /\ pops[p].synthetic = None))
    BY DEF PopsClose
  <1>2. /\ FirstCaught(pops[p].native, "backend", s)
        /\ FirstCaught(pops[p].synthetic, "binding", s) \/ (lost /\ pops[p].synthetic = None)
    BY <1>1 DEF FirstKept
  <1>3. CASE e = None /\ ~lost
    <2>1. \A f \in RaisedIn(s) : errors[f].half \in {"binding", "backend"}
      BY DEF RaisedIn, ErrorTypeOK, Error
    <2>2. pops[p].native = None /\ pops[p].synthetic = None
      BY <1>1, <1>3
    <2>3. \A f \in RaisedIn(s) : errors[f].half # "backend" /\ errors[f].half # "binding"
      BY <1>2, <1>3, <2>2 DEF FirstCaught
    <2> QED
      BY <1>3, <2>1, <2>3
  <1>4. CASE e # None
    <2>1. FirstCaught(e, "backend", s) \/ FirstCaught(e, "binding", s)
      BY <1>1, <1>2, <1>4
    <2> QED
      BY <1>4, <2>1 DEF FirstCaught
  <1> QED
    BY <1>3, <1>4

(* Sets of at most one element.                                            *)
LEMMA CountOne ==
  ASSUME NEW S, NEW found \in BOOLEAN, found <=> S # {}, \A x, y \in S : x = y
  PROVE  Cardinality(S) = IF found THEN 1 ELSE 0
  <1>1. CASE S = {}
    BY <1>1, FS_EmptySet
  <1>2. CASE S # {}
    <2>1. PICK x : S = {x}
      BY <1>2
    <2>2. Cardinality({x}) = 1
      BY FS_Singleton
    <2> QED
      BY <1>2, <2>1, <2>2
  <1> QED
    BY <1>1, <1>2

(* Which of the three kinds of place holds an error that has one.          *)
LEMMA OnePlace ==
  ASSUME ScopesInv, NEW e \in Errors
  PROVE  PlacesOf(e) = IF errors[e].at = "scope" THEN 1 ELSE 0
  <1> DEFINE A == {i \in DOMAIN scopes : scopes[i].error = e}
             B == {i \in DOMAIN native : native[i].error = e}
             C == {p \in Pops : pops[p].state \in {"pending", "queued"} /\ Holds(pops[p], e)}
  <1> USE DEF ScopesInv
  <1>1. e # None /\ DOMAIN scopes = DOMAIN native /\ \A i \in DOMAIN native : i \in Nat /\ native[i].id \in Nat
    BY ErrorScopesAssumption, ScopeTypes DEF ScopesPaired
  <1>2. \A i, j \in DOMAIN native : native[i].id = native[j].id => i = j
    <2>1. ASSUME NEW i \in DOMAIN native, NEW j \in DOMAIN native, native[i].id = native[j].id, i # j
          PROVE  FALSE
      <3>1. i < j \/ j < i
        BY <1>1, <2>1
      <3> QED
        BY <1>1, <2>1, <3>1 DEF ScopesPaired
    <2> QED
      BY <2>1
  <1>3. /\ \A i \in A : i \in DOMAIN native /\ errors[e].home = native[i].id /\ errors[e].half = "binding"
        /\ \A i \in B : i \in DOMAIN native /\ errors[e].home = native[i].id /\ errors[e].half = "backend"
        /\ \A p \in C : errors[e].home = pops[p].scope
    BY <1>1, HalfAndHome DEF Holds
  <1>4. /\ \A x, y \in A : x = y
        /\ \A x, y \in B : x = y
        /\ \A x, y \in C : x = y
    BY <1>2, <1>3, HeldOnce
  <1>5. /\ A = {} \/ B = {}
        /\ A = {} \/ C = {}
        /\ B = {} \/ C = {}
    BY <1>3 DEF PopsClose
  <1>6. errors[e].at = "scope" <=> A # {} \/ B # {} \/ C # {}
    BY <1>1 DEF KeptInPlace, Open
  <1>7. PlacesOf(e) = Cardinality(A) + Cardinality(B) + Cardinality(C)
    BY DEF PlacesOf, InScopes
  <1> HIDE DEF A, B, C
  <1>8. /\ Cardinality(A) = IF A # {} THEN 1 ELSE 0
        /\ Cardinality(B) = IF B # {} THEN 1 ELSE 0
        /\ Cardinality(C) = IF C # {} THEN 1 ELSE 0
    BY <1>4, CountOne
  <1> QED
    BY <1>5, <1>6, <1>7, <1>8

LEMMA InvAccounts == ScopesInv => ErrorsAccounted
  <1> SUFFICES ASSUME ScopesInv, NEW e \in Errors
               PROVE  /\ Cardinality({i \in DOMAIN queue : queue[i] = [kind |-> "error", of |-> e]})
                           = IF errors[e].at = "queue" THEN 1 ELSE 0
                      /\ Cardinality({r \in collected : r.of = e}) = IF errors[e].at = "drain" THEN 1 ELSE 0
                      /\ Cardinality({p \in Pops : pops[p].state = "resolved" /\ pops[p].value = e})
                           = IF errors[e].at = "reported" THEN 1 ELSE 0
    BY OnePlace DEF ErrorsAccounted, ScopesInv, Excused
  <1> USE DEF ScopesInv
  <1>1. e # None
    BY ErrorScopesAssumption
  <1> DEFINE Q == {i \in DOMAIN queue : queue[i] = [kind |-> "error", of |-> e]}
             R == {r \in collected : r.of = e}
             P == {p \in Pops : pops[p].state = "resolved" /\ pops[p].value = e}
  <1>2. (errors[e].at = "queue" <=> Q # {}) /\ \A x, y \in Q : x = y
    BY DEF QueuedOnce, ErrorRecord
  <1>3. (errors[e].at = "drain" <=> R # {}) /\ \A x, y \in R : x = y
    BY DEF QueuedOnce
  <1>4. (errors[e].at = "reported" <=> P # {}) /\ \A x, y \in P : x = y
    <2>1. errors[e].at = "reported" <=> P # {}
      BY <1>1 DEF ReportedOnce
    <2>2. \A p \in P : p \in Pops /\ Holds(pops[p], e)
      BY <1>1 DEF PopsClose, Holds
    <2> QED
      BY <2>1, <2>2, HeldOnce
  <1> HIDE DEF Q, R, P
  <1>5. /\ Cardinality(Q) = IF errors[e].at = "queue" THEN 1 ELSE 0
        /\ Cardinality(R) = IF errors[e].at = "drain" THEN 1 ELSE 0
        /\ Cardinality(P) = IF errors[e].at = "reported" THEN 1 ELSE 0
    BY <1>2, <1>3, <1>4, CountOne
  <1> QED
    BY <1>5 DEF Q, R, P

(***************************************************************************)
(* The theorems.                                                           *)
(***************************************************************************)
ScopesAndTarget == TargetInv /\ ScopesInv /\ calls \in 0 .. MaxCalls

LEMMA BothAlways == Spec => []ScopesAndTarget
  <1>1. Init => ScopesAndTarget
    BY TargetStarts, ScopesStart, ErrorScopesAssumption DEF Init, ScopesAndTarget
  <1>2. ScopesAndTarget /\ [Next]_vars => ScopesAndTarget'
    <2> SUFFICES ASSUME ScopesAndTarget, [Next]_vars
                 PROVE  ScopesAndTarget'
      OBVIOUS
    <2>1. calls' \in 0 .. MaxCalls
      BY ErrorScopesAssumption DEF ScopesAndTarget, Next, Script, vars
    <2> QED
      BY <2>1, ScopesStep, TargetKept DEF ScopesAndTarget
  <1> QED
    BY <1>1, <1>2, PTL DEF Spec

(* Every variable keeps its shape: the state of lib.rs's DeviceEventState, *)
(* its error scopes, requests and queue, and of the EventTarget.           *)
THEOREM TypeCorrect == Spec => []TypeOK
  <1>1. ScopesAndTarget => TypeOK
    BY DEF ScopesAndTarget, TargetInv, TargetShape, ScopesInv, ErrorTypeOK, TypeOK
  <1> QED
    BY <1>1, BothAlways, PTL

(* Whatever script, listeners, the backend and the loss of the device do   *)
(* in between, a callback stays a live engine value exactly as long as it  *)
(* is needed and a listener added with once is called by one dispatch, once*)
(* (event_target_add_event_listener to dispatch_callbacks).                *)
THEOREM ListenersAlwaysServed == Spec => []ListenersServed
  <1>1. ScopesAndTarget => ListenersServed
    BY DEF ScopesAndTarget, TargetInv
  <1> QED
    BY <1>1, BothAlways, PTL

(* The promise of popErrorScope reports the first error of a half of its   *)
(* own scope, null only when the scope caught nothing or the device is     *)
(* lost, however late the backend answers (pop_error_scope to              *)
(* SettlementRequest::prepare).                                            *)
THEOREM PopsReportTheirScope == Spec => []PopReportsItsScope
  <1>1. ScopesAndTarget => PopReportsItsScope
    BY InvReports DEF ScopesAndTarget
  <1> QED
    BY <1>1, BothAlways, PTL

(* No error is told twice and none vanishes without one of the reasons the *)
(* code has for it (generate_validation_error, uncaptured_error_callback,  *)
(* mark_lost, the drain).                                                  *)
THEOREM ErrorsAccountedFor == Spec => []ErrorsAccounted
  <1>1. ScopesAndTarget => ErrorsAccounted
    BY InvAccounts DEF ScopesAndTarget
  <1> QED
    BY <1>1, BothAlways, PTL

=============================================================================
