----------------------- MODULE RuntimeLifetime_proofs -----------------------
(***************************************************************************)
(* Proofs about RuntimeLifetime: native handles, resolving functions and   *)
(* the work of a tick, for any sets of requests and uncaptured errors.     *)
(***************************************************************************)
EXTENDS RuntimeLifetime, FiniteSetTheorems, TLAPS

(***************************************************************************)
(* The inductive invariant.                                                *)
(***************************************************************************)

(* How far Runtime::drop has come, in the order of either adapter.         *)
PendingDone     == (engine = "boa" /\ step > 1) \/ (engine = "jsc" /\ step > 2)
OutstandingDone == (engine = "boa" /\ step > 2) \/ (engine = "jsc" /\ step > 1)
ContextDone     == (engine = "boa" /\ step > 4) \/ (engine = "jsc" /\ step > 3)
AllDone         == (engine = "boa" /\ step > 5) \/ (engine = "jsc" /\ step > 4)

(* A record with a handle or a deferred is of a request that has one.      *)
RecordsTyped ==
  \A i \in DOMAIN settlements :
     /\ settlements[i].kind \in OwnsHandle => settlements[i].of \in Handled
     /\ settlements[i].kind \in WithDeferred => settlements[i].of \in Request

HandlesHeld == \A r \in Handled : Holders(r) = IF Acquired(r) THEN 1 ELSE 0

DeferredsHeld ==
  \A r \in Request : /\ HoldersOfDeferred(r) = IF promise[r] = "none" THEN 0 ELSE 1
                     /\ promise[r] = "pending" => spent[r] = 0

(* A device has an event state only after its record was taken, and its    *)
(* record is queued once.                                                  *)
LossHeld ==
  \A d \in Devices :
     /\ lostSpent[d] + (IF d \in lostSlot THEN 1 ELSE 0) <= 1
     /\ call[d] \in {"none", "pending"} \/ d \in Queued({"native"})
           => lostSpent[d] = 0 /\ d \notin lostSlot

(* What each finished step of the drop has left behind.                    *)
TornDown ==
  /\ ~Live => phase = "idle"
  /\ PendingDone => \A i \in DOMAIN settlements : settlements[i].kind \in {"lost", "event"}
  /\ OutstandingDone => slot = {} /\ lostSlot = {}
  /\ ContextDone => wrapped = {}
  /\ AllDone => \A r \in Handled : releases[r] > 0 => r \in Pipelines /\ call[r] = "late"
  /\ ~afterDeath

(* What the tick under way still has to release and to report.             *)
TickOwes ==
  /\ \A r \in owed : releases[r] > 0
  /\ phase = "idle" => owed = {}
  /\ \A e \in Events :
        /\ event[e] = "collected" => phase = "dispatch"
        /\ event[e] = "dropped" => failed /\ phase \notin {"idle", "events", "drain"}

LifetimeInv ==
  /\ TypeOK /\ RecordsTyped
  /\ HandlesHeld /\ DeferredsHeld /\ LossHeld /\ TornDown /\ TickOwes

(***************************************************************************)
(* Counting the records of a request.                                      *)
(***************************************************************************)
Matching(queue, kinds, r) == {i \in DOMAIN queue : queue[i].kind \in kinds /\ queue[i].of = r}

LEMMA MatchingFinite ==
  ASSUME NEW queue \in Seq(Record), NEW kinds, NEW r
  PROVE  /\ IsFiniteSet(Matching(queue, kinds, r))
         /\ Cardinality(Matching(queue, kinds, r)) \in Nat
<1>1. IsFiniteSet(1 .. Len(queue))
  BY FS_Interval
<1>2. Matching(queue, kinds, r) \in SUBSET (1 .. Len(queue))
  BY DEF Matching
<1>3. IsFiniteSet(Matching(queue, kinds, r))
  BY <1>1, <1>2, FS_Subset
<1> QED
  BY <1>3, FS_CardinalityType

LEMMA CountIsNat ==
  ASSUME TypeOK
  PROVE  \A kinds, r : Count(kinds, r) \in Nat
<1>1. settlements \in Seq(Record)
  BY DEF TypeOK
<1>2. \A kinds, r : Count(kinds, r) = Cardinality(Matching(settlements, kinds, r))
  BY DEF Count, Matching
<1> QED
  BY <1>1, <1>2, MatchingFinite

(* No record is counted exactly when none is queued.                       *)
LEMMA CountIsZero ==
  ASSUME TypeOK
  PROVE  \A kinds, r : Count(kinds, r) = 0 <=> r \notin Queued(kinds)
<1> SUFFICES ASSUME NEW kinds, NEW r PROVE Count(kinds, r) = 0 <=> r \notin Queued(kinds)
  OBVIOUS
<1>1. IsFiniteSet(Matching(settlements, kinds, r))
  BY MatchingFinite DEF TypeOK
<1>2. Count(kinds, r) = 0 <=> Matching(settlements, kinds, r) = {}
  BY <1>1, FS_EmptySet DEF Count, Matching
<1> QED
  BY <1>2 DEF Matching, Queued

(* Enqueueing a record counts it.                                          *)
LEMMA CountAppend ==
  ASSUME TypeOK, NEW rec \in Record, settlements' = Append(settlements, rec)
  PROVE  \A kinds, r : Count(kinds, r)' = Count(kinds, r) + IF rec.kind \in kinds /\ rec.of = r
                                                            THEN 1 ELSE 0
<1> SUFFICES ASSUME NEW kinds, NEW r
             PROVE  Count(kinds, r)' = Count(kinds, r) + IF rec.kind \in kinds /\ rec.of = r
                                                         THEN 1 ELSE 0
  OBVIOUS
<1> DEFINE before == Matching(settlements, kinds, r)
           after  == Matching(settlements', kinds, r)
<1>1. settlements \in Seq(Record) /\ Len(settlements) \in Nat
  BY DEF TypeOK
<1>2. IsFiniteSet(before) /\ Cardinality(before) \in Nat
  BY <1>1, MatchingFinite
<1>3. /\ DOMAIN settlements = 1 .. Len(settlements)
      /\ DOMAIN settlements' = 1 .. (Len(settlements) + 1)
      /\ \A i \in 1 .. Len(settlements) : settlements'[i] = settlements[i]
      /\ settlements'[Len(settlements) + 1] = rec
  BY <1>1
<1>4. after = IF rec.kind \in kinds /\ rec.of = r THEN before \cup {Len(settlements) + 1} ELSE before
  BY <1>1, <1>3 DEF Matching
<1>5. Len(settlements) + 1 \notin before
  BY <1>1, <1>3 DEF Matching
<1>6. Count(kinds, r) = Cardinality(before) /\ Count(kinds, r)' = Cardinality(after)
  BY DEF Count, Matching
<1> HIDE DEF before, after
<1>7. Cardinality(before \cup {Len(settlements) + 1}) = Cardinality(before) + 1
  BY <1>2, <1>5, FS_AddElement
<1> QED
  BY <1>2, <1>4, <1>6, <1>7

(* Emptying the queue leaves nothing to count.                             *)
LEMMA CountEmptied ==
  ASSUME settlements' = <<>>
  PROVE  \A kinds, r : Count(kinds, r)' = 0 /\ r \notin Queued(kinds)'
<1>1. \A kinds, r : {i \in DOMAIN settlements' : settlements'[i].kind \in kinds /\ settlements'[i].of = r} = {}
  OBVIOUS
<1>2. \A kinds, r : Count(kinds, r)' = 0
  BY <1>1, FS_EmptySet DEF Count
<1>3. \A kinds, r : r \notin Queued(kinds)'
  BY DEF Queued
<1> QED
  BY <1>2, <1>3

(* A record with a handle is a wrapped one or a failed one.                *)
LEMMA CountOwners ==
  ASSUME TypeOK
  PROVE  \A r : Count(OwnsHandle, r) = Count({"native"}, r) + Count({"failed"}, r)
<1> SUFFICES ASSUME NEW r PROVE Count(OwnsHandle, r) = Count({"native"}, r) + Count({"failed"}, r)
  OBVIOUS
<1> DEFINE A == Matching(settlements, {"native"}, r)
           B == Matching(settlements, {"failed"}, r)
<1>1. /\ IsFiniteSet(A) /\ Cardinality(A) \in Nat
      /\ IsFiniteSet(B) /\ Cardinality(B) \in Nat
  BY MatchingFinite DEF TypeOK
<1>2. Matching(settlements, OwnsHandle, r) = A \cup B /\ A \cap B = {}
  BY DEF Matching, OwnsHandle
<1>3. /\ Count(OwnsHandle, r) = Cardinality(Matching(settlements, OwnsHandle, r))
      /\ Count({"native"}, r) = Cardinality(A) /\ Count({"failed"}, r) = Cardinality(B)
  BY DEF Count, Matching
<1> HIDE DEF A, B
<1>4. Cardinality(A \cup B) = Cardinality(A) + Cardinality(B) - Cardinality(A \cap B)
  BY <1>1, FS_Union
<1>5. Cardinality(A \cap B) = 0
  BY <1>2, FS_EmptySet
<1> QED
  BY <1>1, <1>2, <1>3, <1>4, <1>5

(* What the queue holds after a record was added.                          *)
LEMMA QueuedAppend ==
  ASSUME TypeOK, NEW rec \in Record, settlements' = Append(settlements, rec)
  PROVE  /\ \A kinds : Queued(kinds)' = Queued(kinds) \cup (IF rec.kind \in kinds THEN {rec.of} ELSE {})
         /\ \A i \in DOMAIN settlements' :
               (i \in DOMAIN settlements /\ settlements'[i] = settlements[i]) \/ settlements'[i] = rec
         /\ settlements' \in Seq(Record)
<1>1. settlements \in Seq(Record) /\ Len(settlements) \in Nat
  BY DEF TypeOK
<1>2. /\ DOMAIN settlements = 1 .. Len(settlements)
      /\ DOMAIN settlements' = 1 .. (Len(settlements) + 1)
      /\ \A i \in 1 .. Len(settlements) : settlements'[i] = settlements[i]
      /\ settlements'[Len(settlements) + 1] = rec
      /\ settlements' \in Seq(Record)
  BY <1>1
<1>3. Len(settlements) + 1 \in DOMAIN settlements' /\ \A i \in DOMAIN settlements : i \in DOMAIN settlements'
  BY <1>1, <1>2
<1>4. \A i \in DOMAIN settlements' :
         (i \in DOMAIN settlements /\ settlements'[i] = settlements[i]) \/ settlements'[i] = rec
  BY <1>1, <1>2
<1>5. ASSUME NEW kinds
      PROVE  Queued(kinds)' = Queued(kinds) \cup (IF rec.kind \in kinds THEN {rec.of} ELSE {})
  BY <1>2, <1>3, <1>4 DEF Queued
<1> QED
  BY <1>2, <1>4, <1>5

(***************************************************************************)
(* The orders of the teardown.                                             *)
(***************************************************************************)
LEMMA StepsOfDrop ==
  ASSUME engine \in Engines, step \in 0 .. 6
  PROVE  /\ AtStep("pending")     <=> (engine = "boa" /\ step = 1) \/ (engine = "jsc" /\ step = 2)
         /\ AtStep("outstanding") <=> (engine = "boa" /\ step = 2) \/ (engine = "jsc" /\ step = 1)
         /\ AtStep("context")     <=> (engine = "boa" /\ step = 4) \/ (engine = "jsc" /\ step = 3)
         /\ AtStep("drain")       <=> (engine = "boa" /\ step \in {3, 5}) \/ (engine = "jsc" /\ step = 4)
         /\ Dead <=> AllDone
         /\ ContextAlive <=> ~ContextDone
<1>1. CASE engine = "boa"
  <2>1. TeardownSteps = <<"pending", "outstanding", "drain", "context", "drain">>
    BY <1>1 DEF TeardownSteps
  <2>2. /\ Len(TeardownSteps) = 5
        /\ TeardownSteps[1] = "pending" /\ TeardownSteps[2] = "outstanding"
        /\ TeardownSteps[3] = "drain" /\ TeardownSteps[4] = "context" /\ TeardownSteps[5] = "drain"
    BY <2>1
  <2>3. \A i \in 1 .. 5 : i \in {1, 2, 3, 4, 5}
    OBVIOUS
  <2>4. \A s : AtStep(s) <=> step \in 1 .. 5 /\ TeardownSteps[step] = s
    BY <2>2 DEF AtStep
  <2>5. ContextAlive <=> ~ContextDone
    <3>1. ContextAlive <=> step = 0 \/ \E i \in step .. 5 : i > 0 /\ TeardownSteps[i] = "context"
      BY <2>2 DEF ContextAlive, Live
    <3>2. CASE step \in 0 .. 4
      <4>1. 4 \in step .. 5
        BY <3>2
      <4> QED
        BY <1>1, <2>2, <3>1, <3>2, <4>1 DEF ContextDone
    <3>3. CASE step \in 5 .. 6
      <4>1. \A i \in step .. 5 : i = 5
        BY <3>3
      <4> QED
        BY <1>1, <2>2, <3>1, <3>3, <4>1 DEF ContextDone
    <3> QED
      BY <3>2, <3>3
  <2> QED
    BY <1>1, <2>2, <2>3, <2>4, <2>5 DEF Dead, AllDone
<1>2. CASE engine = "jsc"
  <2>1. TeardownSteps = <<"outstanding", "pending", "context", "drain">>
    BY <1>2 DEF TeardownSteps
  <2>2. /\ Len(TeardownSteps) = 4
        /\ TeardownSteps[1] = "outstanding" /\ TeardownSteps[2] = "pending"
        /\ TeardownSteps[3] = "context" /\ TeardownSteps[4] = "drain"
    BY <2>1
  <2>3. \A i \in 1 .. 4 : i \in {1, 2, 3, 4}
    OBVIOUS
  <2>4. \A s : AtStep(s) <=> step \in 1 .. 4 /\ TeardownSteps[step] = s
    BY <2>2 DEF AtStep
  <2>5. ContextAlive <=> ~ContextDone
    <3>1. ContextAlive <=> step = 0 \/ \E i \in step .. 4 : i > 0 /\ TeardownSteps[i] = "context"
      BY <2>2 DEF ContextAlive, Live
    <3>2. CASE step \in 0 .. 3
      <4>1. 3 \in step .. 4
        BY <3>2
      <4> QED
        BY <1>2, <2>2, <3>1, <3>2, <4>1 DEF ContextDone
    <3>3. CASE step \in 4 .. 6
      <4>1. \A i \in step .. 4 : i = 4
        BY <3>3
      <4> QED
        BY <1>2, <2>2, <3>1, <3>3, <4>1 DEF ContextDone
    <3> QED
      BY <3>2, <3>3
  <2> QED
    BY <1>2, <2>2, <2>3, <2>4, <2>5 DEF Dead, AllDone
<1> QED
  BY <1>1, <1>2 DEF Engines

(* A step that leaves the queue alone leaves the counts alone.             *)
LEMMA CountSame ==
  ASSUME settlements' = settlements
  PROVE  \A kinds, r : Count(kinds, r)' = Count(kinds, r) /\ Queued(kinds)' = Queued(kinds)
BY DEF Count, Queued

(***************************************************************************)
(* Shapes.                                                                 *)
(***************************************************************************)
LEMMA PlusIsTyped ==
  ASSUME NEW S, NEW counts \in [S -> Nat], NEW who
  PROVE  /\ Plus(counts, who) \in [S -> Nat]
         /\ \A r \in S : Plus(counts, who)[r] = counts[r] + IF r \in who THEN 1 ELSE 0
BY DEF Plus

LEMMA CallbackRecords ==
  ASSUME NEW r \in Request
  PROVE  /\ \A k \in {"native", "failed", "value", "error"} : Rec(k, r) \in Record
         /\ \A k : Rec(k, r).kind = k /\ Rec(k, r).of = r
BY DEF Rec, Record

LEMMA InitTypes == Init => TypeOK /\ RecordsTyped
<1> SUFFICES ASSUME Init PROVE TypeOK /\ RecordsTyped
  OBVIOUS
<1>1. TypeOK
  <2>1. /\ spent \in [Request -> Nat] /\ lostSpent \in [Devices -> Nat]
        /\ freed \in [Handled -> Nat] /\ releases \in [Handled -> Nat]
    BY DEF Init
  <2>2. settlements \in Seq(Record)
    BY DEF Init
  <2>3. /\ call \in [Request -> {"none", "pending", "answered", "empty", "late"}]
        /\ promise \in [Request -> {"none", "pending", "resolved", "rejected", "dropped"}]
        /\ event \in [Events -> {"none", "queued", "collected", "dispatched", "dropped", "discarded"}]
    BY DEF Init
  <2>4. /\ slot \subseteq Request /\ lostSlot \subseteq Devices /\ told \subseteq Devices
        /\ wrapped \subseteq Handled /\ owed \subseteq Handled
        /\ engine \in Engines /\ step \in 0 .. 6
    BY DEF Init
  <2>5. phase = "idle" /\ mode = "tick" /\ failed = FALSE /\ afterDeath = FALSE
    BY DEF Init
  <2> QED
    BY <2>1, <2>2, <2>3, <2>4, <2>5 DEF TypeOK
<1>2. RecordsTyped
  BY DEF Init, RecordsTyped
<1> QED
  BY <1>1, <1>2

LEMMA TypesStep ==
  ASSUME TypeOK, RecordsTyped, [Next]_vars
  PROVE  TypeOK' /\ RecordsTyped'
<1> USE DEF requestVars, lossVars, tickVars, NoTouch
<1>0. Handled \subseteq Request /\ Devices \subseteq Handled /\ Works \subseteq Request
      /\ Adapters \subseteq Handled /\ Pipelines \subseteq Handled
  BY DEF Handled, Request
<1>1. ASSUME NEW r \in Request, Start(r)
      PROVE  TypeOK' /\ RecordsTyped'
  BY <1>1 DEF Start, TypeOK, RecordsTyped
<1>2. ASSUME NEW r \in Request, NEW how \in {"rejected", "resolved"}, SettleAtOnce(r, how)
      PROVE  TypeOK' /\ RecordsTyped'
  <2>1. spent' \in [Request -> Nat]
    BY <1>2, PlusIsTyped DEF SettleAtOnce, TypeOK
  <2> QED
    BY <1>2, <2>1 DEF SettleAtOnce, TypeOK, RecordsTyped, Touch
<1>3. ASSUME NEW r \in Handled, Finalize(r)
      PROVE  TypeOK' /\ RecordsTyped'
  <2>1. releases' \in [Handled -> Nat]
    BY <1>3, PlusIsTyped DEF Finalize, TypeOK
  <2> QED
    BY <1>3, <2>1 DEF Finalize, TypeOK, RecordsTyped
<1>4. ASSUME NEW r \in Adapters \cup Devices, NEW success \in BOOLEAN, NEW handle \in BOOLEAN,
             HandleCallback(r, success, handle)
      PROVE  TypeOK' /\ RecordsTyped'
  <2>0. r \in Handled /\ r \in Request
    BY <1>0
  <2>1. releases' \in [Handled -> Nat] /\ freed' \in [Handled -> Nat]
    <3>1. Plus(releases, {r}) \in [Handled -> Nat] /\ Plus(freed, {r}) \in [Handled -> Nat]
      BY PlusIsTyped DEF TypeOK
    <3> QED
      BY <1>4, <3>1 DEF HandleCallback, TypeOK
  <2>2. call' \in [Request -> {"none", "pending", "answered", "empty", "late"}] /\ slot' \subseteq Request
    BY <1>4 DEF HandleCallback, TypeOK, Answer
  <2>3. settlements' \in Seq(Record) /\ RecordsTyped'
    <3>1. CASE settlements' = settlements
      BY <3>1 DEF TypeOK, RecordsTyped
    <3>2. ASSUME NEW k \in {"native", "value", "error"}, settlements' = Append(settlements, Rec(k, r))
          PROVE  settlements' \in Seq(Record) /\ RecordsTyped'
      <4>1. Rec(k, r) \in Record /\ Rec(k, r).of = r
        BY <2>0, <3>2, CallbackRecords
      <4> QED
        BY <2>0, <3>2, <4>1, QueuedAppend DEF RecordsTyped
    <3> QED
      BY <1>4, <3>1, <3>2 DEF HandleCallback
  <2> QED
    BY <1>4, <2>1, <2>2, <2>3 DEF HandleCallback, TypeOK
<1>5. ASSUME NEW r \in Pipelines, NEW success \in BOOLEAN, PipelineCallback(r, success)
      PROVE  TypeOK' /\ RecordsTyped'
  <2>0. r \in Handled /\ r \in Request
    BY <1>0
  <2>1. releases' \in [Handled -> Nat]
    BY <1>5, PlusIsTyped DEF PipelineCallback, TypeOK
  <2>2. call' \in [Request -> {"none", "pending", "answered", "empty", "late"}] /\ slot' \subseteq Request
    BY <1>5 DEF PipelineCallback, TypeOK, Answer
  <2>3. settlements' \in Seq(Record) /\ RecordsTyped'
    <3>1. CASE settlements' = settlements
      BY <3>1 DEF TypeOK, RecordsTyped
    <3>2. ASSUME NEW k \in {"native", "failed"}, settlements' = Append(settlements, Rec(k, r))
          PROVE  settlements' \in Seq(Record) /\ RecordsTyped'
      <4>1. Rec(k, r) \in Record /\ Rec(k, r).of = r
        BY <2>0, <3>2, CallbackRecords
      <4> QED
        BY <2>0, <3>2, <4>1, QueuedAppend DEF RecordsTyped
    <3> QED
      BY <1>5, <3>1, <3>2 DEF PipelineCallback
  <2> QED
    BY <1>5, <2>1, <2>2, <2>3 DEF PipelineCallback, TypeOK
<1>6. ASSUME NEW r \in Works, NEW success \in BOOLEAN, WorkCallback(r, success)
      PROVE  TypeOK' /\ RecordsTyped'
  <2>0. r \in Request
    BY <1>0
  <2>2. call' \in [Request -> {"none", "pending", "answered", "empty", "late"}] /\ slot' \subseteq Request
    BY <1>6 DEF WorkCallback, TypeOK, Answer
  <2>3. settlements' \in Seq(Record) /\ RecordsTyped'
    <3>1. CASE settlements' = settlements
      BY <3>1 DEF TypeOK, RecordsTyped
    <3>2. ASSUME NEW k \in {"value", "error"}, settlements' = Append(settlements, Rec(k, r))
          PROVE  settlements' \in Seq(Record) /\ RecordsTyped'
      <4>1. Rec(k, r) \in Record /\ Rec(k, r).of = r /\ Rec(k, r).kind = k
        BY <2>0, <3>2, CallbackRecords
      <4> QED
        BY <2>0, <3>2, <4>1, QueuedAppend DEF RecordsTyped, OwnsHandle
    <3> QED
      BY <1>6, <3>1, <3>2 DEF WorkCallback
  <2> QED
    BY <1>6, <2>2, <2>3 DEF WorkCallback, TypeOK
<1>7. ASSUME NEW d \in Devices, ReportLost(d)
      PROVE  TypeOK' /\ RecordsTyped'
  <2>1. Rec("lost", d) \in Record /\ Rec("lost", d).kind = "lost"
    BY <1>0 DEF Rec, Record
  <2>2. settlements' \in Seq(Record) /\ RecordsTyped'
    BY <1>7, <2>1, QueuedAppend DEF ReportLost, RecordsTyped, OwnsHandle, WithDeferred
  <2> QED
    BY <1>7, <2>2 DEF ReportLost, TypeOK
<1>8. ASSUME NEW e \in Events, ReportError(e)
      PROVE  TypeOK' /\ RecordsTyped'
  <2>1. Rec("event", e) \in Record /\ Rec("event", e).kind = "event"
    BY DEF Rec, Record
  <2>2. settlements' \in Seq(Record) /\ RecordsTyped'
    BY <1>8, <2>1, QueuedAppend DEF ReportError, RecordsTyped, OwnsHandle, WithDeferred
  <2> QED
    BY <1>8, <2>2 DEF ReportError, TypeOK
<1>9. ASSUME NEW m \in {"tick", "frame"}, BeginTick(m)
      PROVE  TypeOK' /\ RecordsTyped'
  BY <1>9 DEF BeginTick, TypeOK, RecordsTyped
<1>10. CASE EndEvents
  BY <1>10 DEF EndEvents, TypeOK, RecordsTyped
<1>11. ASSUME NEW bad \in SUBSET Queued({"native"}), NEW n \in 0 .. Len(settlements), Drain(bad, n)
       PROVE  TypeOK' /\ RecordsTyped'
  <2> DEFINE made == Queued({"native"}) \ bad
             lost == LostInBatch(made)
  <2>1. Queued({"native"}) \subseteq Handled
    BY DEF Queued, RecordsTyped, OwnsHandle
  <2>2. settlements' = <<>> /\ settlements' \in Seq(Record) /\ RecordsTyped'
    BY <1>11 DEF Drain, RecordsTyped
  <2>3. \A kinds, r : Count(kinds, r) \in Nat
    BY CountIsNat
  <2>4. releases' \in [Handled -> Nat]
    <3>1. \A r \in Handled : ReturnedHandles(bad)[r] \in Nat
      BY <2>3 DEF ReturnedHandles
    <3> QED
      BY <1>11, <3>1 DEF Drain, TypeOK
  <2>5. spent' \in [Request -> Nat]
    BY <1>11, <2>3 DEF Drain, TypeOK
  <2>6. lostSpent' \in [Devices -> Nat]
    <3>1. lostSpent' = Plus(lostSpent, lost \cup (bad \cap Devices))
      BY <1>11 DEF Drain
    <3>2. lostSpent \in [Devices -> Nat]
      BY DEF TypeOK
    <3> HIDE DEF lost
    <3>3. Plus(lostSpent, lost \cup (bad \cap Devices)) \in [Devices -> Nat]
      BY <3>2, PlusIsTyped
    <3> QED
      BY <3>1, <3>3
  <2>7. promise' \in [Request -> {"none", "pending", "resolved", "rejected", "dropped"}]
    <3>1. \A rec : Outcome(rec, bad) \in {"resolved", "rejected"}
      BY DEF Outcome
    <3> QED
      BY <1>11, <3>1 DEF Drain, TypeOK
  <2>8. event' \in [Events -> {"none", "queued", "collected", "dispatched", "dropped", "discarded"}]
    BY <1>11 DEF Drain, TypeOK
  <2>9. lostSlot' \subseteq Devices /\ wrapped' \subseteq Handled
    BY <1>11, <2>1 DEF Drain, TypeOK
  <2>10. failed' \in BOOLEAN /\ phase' = "dispatch" /\ afterDeath' \in BOOLEAN
    BY <1>11 DEF Drain, TypeOK, Touch
  <2> QED
    BY <1>11, <2>2, <2>4, <2>5, <2>6, <2>7, <2>8, <2>9, <2>10 DEF Drain, TypeOK
<1>12. ASSUME NEW throws \in BOOLEAN, Dispatch(throws)
       PROVE  TypeOK' /\ RecordsTyped'
  BY <1>12 DEF Dispatch, TypeOK, RecordsTyped
<1>13. ASSUME NEW fails \in BOOLEAN, Microtasks(fails)
       PROVE  TypeOK' /\ RecordsTyped'
  BY <1>13 DEF Microtasks, TypeOK, RecordsTyped
<1>14. ASSUME NEW fails \in BOOLEAN, FrameCallback(fails)
       PROVE  TypeOK' /\ RecordsTyped'
  BY <1>14 DEF FrameCallback, TypeOK, RecordsTyped
<1>15. ASSUME NEW r \in Handled, ReleaseOne(r)
       PROVE  TypeOK' /\ RecordsTyped'
  <2>1. freed' \in [Handled -> Nat]
    BY <1>15, PlusIsTyped DEF ReleaseOne, RunRelease, TypeOK
  <2>2. releases' \in [Handled -> Nat]
    BY <1>15 DEF ReleaseOne, RunRelease, TypeOK
  <2> QED
    BY <1>15, <2>1, <2>2 DEF ReleaseOne, TypeOK, RecordsTyped
<1>16. CASE EndTick
  BY <1>16 DEF EndTick, TypeOK, RecordsTyped
<1>17. CASE BeginDrop
  BY <1>17 DEF BeginDrop, TypeOK, RecordsTyped
<1>18. CASE ReleasePending
  <2>1. \A kinds, r : Count(kinds, r) \in Nat
    BY CountIsNat
  <2>2. step \in 0 .. 5
    BY <1>18, StepsOfDrop DEF ReleasePending, TypeOK
  <2> QED
    BY <1>18, <2>1, <2>2 DEF ReleasePending, NextStep, Touch, TypeOK, RecordsTyped
<1>19. CASE ReleaseOutstanding
  <2>1. spent' \in [Request -> Nat] /\ lostSpent' \in [Devices -> Nat]
    BY <1>19, PlusIsTyped DEF ReleaseOutstanding, TypeOK
  <2>2. step \in 0 .. 5
    BY <1>19, StepsOfDrop DEF ReleaseOutstanding, TypeOK
  <2> QED
    BY <1>19, <2>1, <2>2 DEF ReleaseOutstanding, NextStep, Touch, TypeOK, RecordsTyped
<1>20. CASE TeardownDrain
  <2>2. step \in 0 .. 5
    BY <1>20, StepsOfDrop DEF TeardownDrain, TypeOK
  <2> QED
    BY <1>20, <2>2 DEF TeardownDrain, NextStep, TypeOK, RecordsTyped
<1>21. CASE DropContext
  <2>1. releases' \in [Handled -> Nat]
    BY <1>21, PlusIsTyped DEF DropContext, TypeOK
  <2>2. step \in 0 .. 5
    BY <1>21, StepsOfDrop DEF DropContext, TypeOK
  <2> QED
    BY <1>21, <2>1, <2>2 DEF DropContext, NextStep, TypeOK, RecordsTyped
<1>22. CASE UNCHANGED vars
  BY <1>22 DEF vars, TypeOK, RecordsTyped
<1> QED
  BY <1>1, <1>2, <1>3, <1>4, <1>5, <1>6, <1>7, <1>8, <1>9, <1>10, <1>11, <1>12, <1>13, <1>14, <1>15,
     <1>16, <1>17, <1>18, <1>19, <1>20, <1>21, <1>22
  DEF Next, Script, Backend, TickSteps, Teardown

(***************************************************************************)
(* Native handles: every step moves a reference from one owner to another. *)
(***************************************************************************)
LEMMA HandlesInit == Init => HandlesHeld
<1> SUFFICES ASSUME Init, NEW r \in Handled
             PROVE  Holders(r) = IF Acquired(r) THEN 1 ELSE 0
  BY DEF HandlesHeld
<1>1. r \in Request
  BY DEF Handled, Request
<1>2. Count(OwnsHandle, r) = 0
  BY InitTypes, CountIsZero DEF Init, Queued
<1> QED
  BY <1>1, <1>2 DEF Init, Holders, Acquired

(* The five places of a reference are counted in natural numbers.          *)
LEMMA HoldersAreNat ==
  ASSUME TypeOK
  PROVE  \A r \in Handled : /\ r \in Request
                            /\ Count(OwnsHandle, r) \in Nat
                            /\ releases[r] \in Nat
                            /\ freed[r] \in Nat
BY CountIsNat DEF TypeOK, Handled, Request

LEMMA HandlesSame ==
  ASSUME HandlesHeld, UNCHANGED <<call, settlements, wrapped, releases, freed>>
  PROVE  HandlesHeld'
BY CountSame DEF HandlesHeld, Holders, Acquired

LEMMA HandlesStep ==
  ASSUME TypeOK, RecordsTyped, HandlesHeld, [Next]_vars
  PROVE  HandlesHeld'
<1> USE DEF requestVars, lossVars, tickVars, NoTouch
<1>0. /\ Handled \subseteq Request
      /\ Adapters \cup Devices \subseteq Handled /\ Pipelines \subseteq Handled
      /\ (Adapters \cup Devices) \cap Pipelines = {}
      /\ Works \cap Handled = {}
  BY KindsAreDisjoint DEF Handled, Request
<1>a. TypeOK' /\ RecordsTyped'
  BY TypesStep
<1>b. \A r \in Handled : /\ Count(OwnsHandle, r) \in Nat /\ releases[r] \in Nat /\ freed[r] \in Nat
                         /\ Holders(r) = IF Acquired(r) THEN 1 ELSE 0
  BY HoldersAreNat DEF HandlesHeld
<1>c. \A who : \A r \in Handled :
        /\ Plus(releases, who)[r] = releases[r] + IF r \in who THEN 1 ELSE 0
        /\ Plus(freed, who)[r] = freed[r] + IF r \in who THEN 1 ELSE 0
  BY DEF Plus, TypeOK
<1>1. ASSUME NEW q \in Request, Start(q)
      PROVE  HandlesHeld'
  <2> SUFFICES ASSUME NEW r \in Handled PROVE (Holders(r) = IF Acquired(r) THEN 1 ELSE 0)'
    BY DEF HandlesHeld
  <2>1. Count(OwnsHandle, r)' = Count(OwnsHandle, r)
    BY <1>1, CountSame DEF Start
  <2>2. call'[r] = IF r = q THEN "pending" ELSE call[r]
    BY <1>0, <1>1 DEF Start, TypeOK
  <2>3. UNCHANGED <<wrapped, releases, freed>> /\ call[q] = "none"
    BY <1>1 DEF Start
  <2> QED
    BY <1>b, <2>1, <2>2, <2>3 DEF Holders, Acquired
<1>2. ASSUME NEW q \in Request, NEW how \in {"rejected", "resolved"}, SettleAtOnce(q, how)
      PROVE  HandlesHeld'
  BY <1>2, HandlesSame DEF SettleAtOnce
<1>3. ASSUME NEW q \in Handled, Finalize(q)
      PROVE  HandlesHeld'
  <2> SUFFICES ASSUME NEW r \in Handled PROVE (Holders(r) = IF Acquired(r) THEN 1 ELSE 0)'
    BY DEF HandlesHeld
  <2>1. Count(OwnsHandle, r)' = Count(OwnsHandle, r)
    BY <1>3, CountSame DEF Finalize
  <2>2. releases'[r] = releases[r] + IF r = q THEN 1 ELSE 0
    BY <1>3, <1>c DEF Finalize, TypeOK
  <2>3. UNCHANGED <<call, freed>> /\ q \in wrapped /\ wrapped' = wrapped \ {q}
    BY <1>3 DEF Finalize
  <2> QED
    BY <1>b, <2>1, <2>2, <2>3 DEF Holders, Acquired
<1>4. ASSUME NEW q \in Adapters \cup Devices, NEW success \in BOOLEAN, NEW handle \in BOOLEAN,
             HandleCallback(q, success, handle)
      PROVE  HandlesHeld'
  <2> SUFFICES ASSUME NEW r \in Handled PROVE (Holders(r) = IF Acquired(r) THEN 1 ELSE 0)'
    BY DEF HandlesHeld
  <2>0. q \in Handled /\ q \in Request /\ q \notin Pipelines
    BY <1>0
  <2>1. call'[r] = IF r # q THEN call[r] ELSE IF ~handle THEN "empty" ELSE IF Dead THEN "late" ELSE "answered"
    BY <1>0, <1>4 DEF HandleCallback, Answer, TypeOK
  <2>2. call[q] = "pending" /\ wrapped' = wrapped
    BY <1>4 DEF HandleCallback
  <2>3. Plus(releases, {q})[r] = releases[r] + (IF r = q THEN 1 ELSE 0)
        /\ Plus(freed, {q})[r] = freed[r] + (IF r = q THEN 1 ELSE 0)
    BY <1>c
  <2>4. /\ Count(OwnsHandle, r)' \in Nat /\ releases'[r] \in Nat /\ freed'[r] \in Nat
        /\ Count(OwnsHandle, r)' + releases'[r] + freed'[r]
             = Count(OwnsHandle, r) + releases[r] + freed[r] + IF r = q /\ handle THEN 1 ELSE 0
    <3>1. CASE q \notin slot
      <4>1. settlements' = settlements /\ releases' = releases
            /\ freed' = IF handle THEN Plus(freed, {q}) ELSE freed
        BY <1>4, <3>1 DEF HandleCallback
      <4>2. Count(OwnsHandle, r)' = Count(OwnsHandle, r)
        BY <4>1, CountSame
      <4> QED
        BY <1>b, <2>3, <4>1, <4>2
    <3>2. CASE q \in slot
      <4> DEFINE kind == IF success /\ handle THEN "native" ELSE IF q \in Adapters THEN "value" ELSE "error"
      <4>1. /\ settlements' = Append(settlements, Rec(kind, q))
            /\ releases' = IF handle /\ ~success THEN Plus(releases, {q}) ELSE releases
            /\ freed' = freed
        BY <1>4, <3>2 DEF HandleCallback
      <4>2. Rec(kind, q) \in Record /\ Rec(kind, q).kind = kind /\ Rec(kind, q).of = q
        BY <2>0, CallbackRecords
      <4>3. Count(OwnsHandle, r)' = Count(OwnsHandle, r) + IF kind \in OwnsHandle /\ q = r THEN 1 ELSE 0
        <5> HIDE DEF kind
        <5> QED
          BY <4>1, <4>2, CountAppend
      <4>4. kind \in OwnsHandle <=> success /\ handle
        BY DEF OwnsHandle
      <4> HIDE DEF kind
      <4>5. CASE r # q \/ ~handle
        BY <1>b, <2>3, <4>1, <4>3, <4>4, <4>5
      <4>6. CASE r = q /\ handle /\ success
        <5>1. Count(OwnsHandle, r)' = Count(OwnsHandle, r) + 1
          BY <4>3, <4>4, <4>6
        <5>2. releases'[r] = releases[r] /\ freed'[r] = freed[r]
          BY <4>1, <4>6
        <5> QED
          BY <1>b, <4>6, <5>1, <5>2
      <4>7. CASE r = q /\ handle /\ ~success
        <5>1. Count(OwnsHandle, r)' = Count(OwnsHandle, r) + 0
          BY <4>3, <4>4, <4>7
        <5>2. releases'[r] = releases[r] + 1 /\ freed'[r] = freed[r]
          BY <2>3, <4>1, <4>7
        <5> QED
          BY <1>b, <4>7, <5>1, <5>2
      <4> QED
        BY <4>5, <4>6, <4>7
    <3> QED
      BY <3>1, <3>2
  <2>5. r = q => Count(OwnsHandle, r) = 0 /\ releases[r] = 0 /\ freed[r] = 0 /\ r \notin wrapped
    BY <1>b, <2>0, <2>2 DEF Holders, Acquired
  <2>6. CASE r # q
    BY <1>b, <2>1, <2>2, <2>4, <2>6 DEF Holders, Acquired
  <2>7. CASE r = q
    <3>1. Holders(r)' = IF handle THEN 1 ELSE 0
      BY <1>b, <2>0, <2>2, <2>4, <2>5, <2>7 DEF Holders
    <3>2. Acquired(r)' <=> handle
      BY <2>0, <2>1, <2>7 DEF Acquired
    <3> QED
      BY <3>1, <3>2
  <2> QED
    BY <2>6, <2>7
<1>5. ASSUME NEW q \in Pipelines, NEW success \in BOOLEAN, PipelineCallback(q, success)
      PROVE  HandlesHeld'
  <2> SUFFICES ASSUME NEW r \in Handled PROVE (Holders(r) = IF Acquired(r) THEN 1 ELSE 0)'
    BY DEF HandlesHeld
  <2>0. q \in Handled /\ q \in Request
    BY <1>0
  <2>1. call'[r] = IF r # q THEN call[r] ELSE IF Dead THEN "late" ELSE "answered"
    BY <1>0, <1>5 DEF PipelineCallback, Answer, TypeOK
  <2>2. call[q] = "pending" /\ wrapped' = wrapped /\ freed' = freed
    BY <1>5 DEF PipelineCallback
  <2>3. Plus(releases, {q})[r] = releases[r] + (IF r = q THEN 1 ELSE 0)
    BY <1>c DEF TypeOK
  <2>4. /\ Count(OwnsHandle, r)' \in Nat /\ releases'[r] \in Nat
        /\ Count(OwnsHandle, r)' + releases'[r]
             = Count(OwnsHandle, r) + releases[r] + IF r = q THEN 1 ELSE 0
    <3>1. CASE q \notin slot
      <4>1. settlements' = settlements /\ releases' = Plus(releases, {q})
        BY <1>5, <3>1 DEF PipelineCallback
      <4>2. Count(OwnsHandle, r)' = Count(OwnsHandle, r)
        BY <4>1, CountSame
      <4> QED
        BY <1>b, <2>3, <4>1, <4>2
    <3>2. CASE q \in slot
      <4> DEFINE kind == IF success THEN "native" ELSE "failed"
      <4>1. settlements' = Append(settlements, Rec(kind, q)) /\ releases' = releases
        BY <1>5, <3>2 DEF PipelineCallback
      <4>2. Rec(kind, q) \in Record /\ Rec(kind, q).kind \in OwnsHandle /\ Rec(kind, q).of = q
        BY <2>0, CallbackRecords DEF OwnsHandle
      <4>3. Count(OwnsHandle, r)' = Count(OwnsHandle, r) + IF q = r THEN 1 ELSE 0
        <5> HIDE DEF kind
        <5> QED
          BY <4>1, <4>2, CountAppend
      <4> QED
        BY <1>b, <4>1, <4>3
    <3> QED
      BY <3>1, <3>2
  <2>5. r = q => Count(OwnsHandle, r) = 0 /\ releases[r] = 0 /\ freed[r] = 0 /\ r \notin wrapped
    BY <1>b, <2>2 DEF Holders, Acquired
  <2> QED
    BY <1>b, <2>1, <2>2, <2>4, <2>5 DEF Holders, Acquired
<1>6. ASSUME NEW q \in Works, NEW success \in BOOLEAN, WorkCallback(q, success)
      PROVE  HandlesHeld'
  <2> SUFFICES ASSUME NEW r \in Handled PROVE (Holders(r) = IF Acquired(r) THEN 1 ELSE 0)'
    BY DEF HandlesHeld
  <2>1. q \in Request /\ r # q
    BY <1>0 DEF Request
  <2>2. UNCHANGED <<wrapped, releases, freed>> /\ call'[r] = call[r]
    BY <1>0, <1>6, <2>1 DEF WorkCallback, Answer, TypeOK
  <2>3. Count(OwnsHandle, r)' = Count(OwnsHandle, r)
    <3>1. CASE settlements' = settlements
      BY <3>1, CountSame
    <3>2. ASSUME NEW k \in {"value", "error"}, settlements' = Append(settlements, Rec(k, q))
          PROVE  Count(OwnsHandle, r)' = Count(OwnsHandle, r)
      <4>1. Rec(k, q) \in Record /\ Rec(k, q).kind \notin OwnsHandle
        BY <2>1, CallbackRecords DEF OwnsHandle
      <4>2. Count(OwnsHandle, r)' = Count(OwnsHandle, r) + 0
        BY <3>2, <4>1, CountAppend
      <4> QED
        BY <1>b, <4>2
    <3> QED
      BY <1>6, <3>1, <3>2 DEF WorkCallback
  <2> QED
    BY <1>b, <2>2, <2>3 DEF Holders, Acquired
<1>8. ASSUME NEW k \in {"lost", "event"}, NEW x \in Request \cup Events,
             settlements' = Append(settlements, Rec(k, x)),
             UNCHANGED <<call, wrapped, releases, freed>>
      PROVE  HandlesHeld'
  <2> SUFFICES ASSUME NEW r \in Handled PROVE (Holders(r) = IF Acquired(r) THEN 1 ELSE 0)'
    BY DEF HandlesHeld
  <2>1. Rec(k, x) \in Record /\ Rec(k, x).kind \notin OwnsHandle
    BY DEF Rec, Record, OwnsHandle
  <2>2. Count(OwnsHandle, r)' = Count(OwnsHandle, r) + 0
    BY <1>8, <2>1, CountAppend
  <2> QED
    BY <1>8, <1>b, <2>2 DEF Holders, Acquired
<1>9. ASSUME NEW d \in Devices, ReportLost(d)
      PROVE  HandlesHeld'
  BY <1>0, <1>8, <1>9 DEF ReportLost
<1>10. ASSUME NEW e \in Events, ReportError(e)
       PROVE  HandlesHeld'
  BY <1>8, <1>10 DEF ReportError
<1>11. ASSUME NEW bad \in SUBSET Queued({"native"}), NEW n \in 0 .. Len(settlements), Drain(bad, n)
       PROVE  HandlesHeld'
  <2> SUFFICES ASSUME NEW r \in Handled PROVE (Holders(r) = IF Acquired(r) THEN 1 ELSE 0)'
    BY DEF HandlesHeld
  <2>1. Count(OwnsHandle, r)' = 0
    BY <1>11, CountEmptied DEF Drain
  <2>2. Count(OwnsHandle, r) = Count({"native"}, r) + Count({"failed"}, r)
    BY CountOwners
  <2>3. Count({"native"}, r) \in Nat /\ Count({"failed"}, r) \in Nat
    BY CountIsNat
  <2>4. Count({"native"}, r) = 0 <=> r \notin Queued({"native"})
    BY CountIsZero
  <2>5. releases'[r] = releases[r] + (Count({"failed"}, r) + IF r \in bad THEN Count({"native"}, r) ELSE 0)
    BY <1>11 DEF Drain, ReturnedHandles
  <2>6. wrapped' = wrapped \cup (Queued({"native"}) \ bad) /\ UNCHANGED <<call, freed>>
    BY <1>11 DEF Drain
  <2>7. CASE r \in Queued({"native"})
    <3>1. Count({"native"}, r) >= 1
      BY <2>3, <2>4, <2>7
    <3>2. /\ Count({"native"}, r) = 1 /\ Count({"failed"}, r) = 0
          /\ releases[r] = 0 /\ freed[r] = 0 /\ r \notin wrapped
          /\ Acquired(r) /\ ~(r \in Pipelines /\ call[r] = "pending")
      <4> DEFINE p == IF r \in Pipelines /\ call[r] = "pending" THEN 1 ELSE 0
                 w == IF r \in wrapped THEN 1 ELSE 0
      <4>1. p \in {0, 1} /\ w \in {0, 1}
        OBVIOUS
      <4>2. Holders(r) = p + Count(OwnsHandle, r) + w + releases[r] + freed[r]
        BY DEF Holders
      <4>3. Holders(r) = IF Acquired(r) THEN 1 ELSE 0
        BY <1>b
      <4>4. Count(OwnsHandle, r) \in Nat /\ releases[r] \in Nat /\ freed[r] \in Nat
        BY <1>b
      <4>5. p = 0 => ~(r \in Pipelines /\ call[r] = "pending")
        OBVIOUS
      <4>6. w = 0 => r \notin wrapped
        OBVIOUS
      <4> HIDE DEF p, w
      <4>8. p + (Count({"native"}, r) + Count({"failed"}, r)) + w + releases[r] + freed[r]
              = IF Acquired(r) THEN 1 ELSE 0
        BY <2>2, <4>2, <4>3
      <4>9. /\ Count({"native"}, r) = 1 /\ Count({"failed"}, r) = 0
            /\ releases[r] = 0 /\ freed[r] = 0 /\ p = 0 /\ w = 0
        <5> DEFINE a == Count({"native"}, r)
                   b == Count({"failed"}, r)
                   c == releases[r]
                   d == freed[r]
        <5>1. p + (a + b) + w + c + d <= 1
          BY <4>8
        <5>2. p \in Nat /\ w \in Nat /\ a \in Nat /\ b \in Nat /\ c \in Nat /\ d \in Nat /\ a >= 1
          BY <2>3, <3>1, <4>1, <4>4
        <5> HIDE DEF a, b, c, d
        <5>3. a = 1 /\ b = 0 /\ c = 0 /\ d = 0 /\ p = 0 /\ w = 0
          BY <5>1, <5>2
        <5> QED
          BY <5>3 DEF a, b, c, d
      <4>10. Acquired(r)
        BY <4>8, <4>9
      <4> QED
        BY <4>5, <4>6, <4>9, <4>10
    <3>3. CASE r \in bad
      <4>1. releases'[r] = 1 /\ r \notin wrapped'
        BY <2>5, <2>6, <3>2, <3>3
      <4> QED
        BY <2>1, <2>6, <3>2, <4>1 DEF Holders, Acquired
    <3>4. CASE r \notin bad
      <4>1. releases'[r] = 0 /\ r \in wrapped'
        BY <2>5, <2>6, <2>7, <3>2, <3>4
      <4> QED
        BY <2>1, <2>6, <3>2, <4>1 DEF Holders, Acquired
    <3> QED
      BY <3>3, <3>4
  <2>8. CASE r \notin Queued({"native"})
    <3>1. r \notin bad
      BY <2>8
    <3> QED
      BY <1>b, <2>1, <2>2, <2>3, <2>4, <2>5, <2>6, <2>8, <3>1 DEF Holders, Acquired
  <2> QED
    BY <2>7, <2>8
<1>12. ASSUME NEW q \in Handled, ReleaseOne(q)
       PROVE  HandlesHeld'
  <2> SUFFICES ASSUME NEW r \in Handled PROVE (Holders(r) = IF Acquired(r) THEN 1 ELSE 0)'
    BY DEF HandlesHeld
  <2>1. Count(OwnsHandle, r)' = Count(OwnsHandle, r)
    BY <1>12, CountSame DEF ReleaseOne
  <2>2. freed'[r] = freed[r] + IF r = q THEN 1 ELSE 0
    BY <1>12, <1>c DEF ReleaseOne, RunRelease, TypeOK
  <2>3. releases[q] > 0 /\ releases'[r] = IF r = q THEN releases[r] - 1 ELSE releases[r]
    BY <1>12 DEF ReleaseOne, RunRelease, TypeOK
  <2>4. UNCHANGED <<call, wrapped>>
    BY <1>12 DEF ReleaseOne
  <2> QED
    BY <1>b, <2>1, <2>2, <2>3, <2>4 DEF Holders, Acquired
<1>13. CASE ReleasePending
  <2> SUFFICES ASSUME NEW r \in Handled PROVE (Holders(r) = IF Acquired(r) THEN 1 ELSE 0)'
    BY DEF HandlesHeld
  <2>1. Count(OwnsHandle, r)' = 0
    BY <1>13, CountEmptied DEF ReleasePending
  <2>2. releases'[r] = releases[r] + Count(OwnsHandle, r) /\ UNCHANGED <<call, wrapped, freed>>
    BY <1>13 DEF ReleasePending
  <2> QED
    BY <1>b, <2>1, <2>2 DEF Holders, Acquired
<1>14. CASE TeardownDrain
  <2> SUFFICES ASSUME NEW r \in Handled PROVE (Holders(r) = IF Acquired(r) THEN 1 ELSE 0)'
    BY DEF HandlesHeld
  <2>1. Count(OwnsHandle, r)' = Count(OwnsHandle, r)
    BY <1>14, CountSame DEF TeardownDrain
  <2>2. freed'[r] = freed[r] + releases[r] /\ releases'[r] = 0 /\ UNCHANGED <<call, wrapped>>
    BY <1>14 DEF TeardownDrain
  <2> QED
    BY <1>b, <2>1, <2>2 DEF Holders, Acquired
<1>15. CASE DropContext
  <2> SUFFICES ASSUME NEW r \in Handled PROVE (Holders(r) = IF Acquired(r) THEN 1 ELSE 0)'
    BY DEF HandlesHeld
  <2>1. Count(OwnsHandle, r)' = Count(OwnsHandle, r)
    BY <1>15, CountSame DEF DropContext
  <2>2. releases'[r] = releases[r] + IF r \in wrapped THEN 1 ELSE 0
    BY <1>15, <1>c DEF DropContext, TypeOK
  <2>3. wrapped' = {} /\ UNCHANGED <<call, freed>>
    BY <1>15 DEF DropContext
  <2> QED
    BY <1>b, <2>1, <2>2, <2>3 DEF Holders, Acquired
<1>16. ASSUME \/ \E m \in {"tick", "frame"} : BeginTick(m)
              \/ EndEvents \/ EndTick \/ BeginDrop \/ ReleaseOutstanding \/ UNCHANGED vars
              \/ \E throws \in BOOLEAN : Dispatch(throws)
              \/ \E fails \in BOOLEAN : Microtasks(fails) \/ FrameCallback(fails)
       PROVE  HandlesHeld'
  <2>1. UNCHANGED <<call, settlements, wrapped, releases, freed>>
    BY <1>16 DEF BeginTick, EndEvents, EndTick, BeginDrop, ReleaseOutstanding, vars, Dispatch, Microtasks,
                 FrameCallback
  <2> QED
    BY <2>1, HandlesSame
<1> QED
  BY <1>1, <1>2, <1>3, <1>4, <1>5, <1>6, <1>9, <1>10, <1>11, <1>12, <1>13, <1>14, <1>15, <1>16
  DEF Next, Script, Backend, TickSteps, Teardown

(***************************************************************************)
(* Deferreds: the slot, a record of the queue and the spent ones add up.   *)
(***************************************************************************)
LEMMA DeferredsInit == Init => DeferredsHeld
<1> SUFFICES ASSUME Init, NEW r \in Request
             PROVE  /\ HoldersOfDeferred(r) = 0
                    /\ promise[r] = "none"
  BY DEF DeferredsHeld
<1>1. Count(WithDeferred, r) = 0
  BY InitTypes, CountIsZero DEF Init, Queued
<1> QED
  BY <1>1 DEF Init, HoldersOfDeferred

LEMMA DeferredsSame ==
  ASSUME DeferredsHeld, UNCHANGED <<slot, settlements, spent, promise>>
  PROVE  DeferredsHeld'
BY CountSame DEF DeferredsHeld, HoldersOfDeferred

LEMMA DeferredsStep ==
  ASSUME TypeOK, RecordsTyped, DeferredsHeld, [Next]_vars
  PROVE  DeferredsHeld'
<1> USE DEF requestVars, lossVars, tickVars, NoTouch
<1> DEFINE Balanced(r) == /\ HoldersOfDeferred(r) = (IF promise[r] = "none" THEN 0 ELSE 1)
                          /\ promise[r] = "pending" => spent[r] = 0
<1>0. \A r \in Request : Count(WithDeferred, r) \in Nat /\ spent[r] \in Nat /\ Balanced(r)
  BY CountIsNat DEF TypeOK, DeferredsHeld
<1>a. ASSUME \A r \in Request : Balanced(r)' PROVE DeferredsHeld'
  BY <1>a DEF DeferredsHeld
<1>b. Handled \subseteq Request /\ Adapters \cup Devices \subseteq Request
      /\ Pipelines \subseteq Request /\ Works \subseteq Request /\ Devices \subseteq Request
  BY DEF Handled, Request
<1>1. ASSUME NEW q \in Request, Start(q)
      PROVE  DeferredsHeld'
  <2> SUFFICES ASSUME NEW r \in Request PROVE Balanced(r)'
    BY <1>a
  <2>1. Count(WithDeferred, r)' = Count(WithDeferred, r)
    BY <1>1, CountSame DEF Start
  <2>2. promise[q] = "none" /\ promise'[r] = IF r = q THEN "pending" ELSE promise[r]
    BY <1>1 DEF Start, TypeOK
  <2>3. slot' = slot \cup {q} /\ spent' = spent
    BY <1>1 DEF Start
  <2>4. r = q => Count(WithDeferred, r) = 0 /\ spent[r] = 0
    BY <1>0, <2>2 DEF HoldersOfDeferred
  <2> QED
    BY <1>0, <2>1, <2>2, <2>3, <2>4 DEF HoldersOfDeferred
<1>2. ASSUME NEW q \in Request, NEW how \in {"rejected", "resolved"}, SettleAtOnce(q, how)
      PROVE  DeferredsHeld'
  <2> SUFFICES ASSUME NEW r \in Request PROVE Balanced(r)'
    BY <1>a
  <2>1. Count(WithDeferred, r)' = Count(WithDeferred, r)
    BY <1>2, CountSame DEF SettleAtOnce
  <2>2. promise[q] = "none" /\ promise'[r] = IF r = q THEN how ELSE promise[r]
    BY <1>2 DEF SettleAtOnce, TypeOK
  <2>3. slot' = slot /\ spent'[r] = spent[r] + IF r = q THEN 1 ELSE 0
    BY <1>2 DEF SettleAtOnce, Plus, TypeOK
  <2>4. CASE r = q
    <3>1. Count(WithDeferred, r) = 0 /\ spent[r] = 0 /\ r \notin slot
      BY <1>0, <2>2, <2>4 DEF HoldersOfDeferred
    <3> QED
      BY <2>1, <2>2, <2>3, <2>4, <3>1 DEF HoldersOfDeferred
  <2>5. CASE r # q
    BY <1>0, <2>1, <2>2, <2>3, <2>5 DEF HoldersOfDeferred
  <2> QED
    BY <2>4, <2>5
<1>3. ASSUME NEW q \in Request, NEW k \in WithDeferred, UNCHANGED <<promise, spent>>,
             slot' = slot \ {q},
             settlements' = IF q \in slot THEN Append(settlements, Rec(k, q)) ELSE settlements
      PROVE  DeferredsHeld'
  <2> SUFFICES ASSUME NEW r \in Request PROVE Balanced(r)'
    BY <1>a
  <2>1. CASE q \notin slot
    BY <1>3, <2>1, DeferredsSame DEF DeferredsHeld
  <2>2. CASE q \in slot
    <3>1. Rec(k, q) \in Record /\ Rec(k, q).kind \in WithDeferred /\ Rec(k, q).of = q
      BY CallbackRecords DEF WithDeferred
    <3>2. Count(WithDeferred, r)' = Count(WithDeferred, r) + IF q = r THEN 1 ELSE 0
      BY <1>3, <2>2, <3>1, CountAppend
    <3>3. CASE r = q
      <4>1. Count(WithDeferred, r)' = Count(WithDeferred, r) + 1 /\ r \in slot /\ r \notin slot'
        BY <1>3, <2>2, <3>2, <3>3
      <4> QED
        BY <1>0, <1>3, <4>1 DEF HoldersOfDeferred
    <3>4. CASE r # q
      BY <1>0, <1>3, <3>2, <3>4 DEF HoldersOfDeferred
    <3> QED
      BY <3>3, <3>4
  <2> QED
    BY <2>1, <2>2
<1>4. ASSUME NEW q \in Adapters \cup Devices, NEW success \in BOOLEAN, NEW handle \in BOOLEAN,
             HandleCallback(q, success, handle)
      PROVE  DeferredsHeld'
  <2> DEFINE k == IF success /\ handle THEN "native" ELSE IF q \in Adapters THEN "value" ELSE "error"
  <2>1. k \in WithDeferred
    BY DEF WithDeferred
  <2>2. settlements' = IF q \in slot THEN Append(settlements, Rec(k, q)) ELSE settlements
    BY <1>4 DEF HandleCallback
  <2> HIDE DEF k
  <2> QED
    BY <1>3, <1>4, <1>b, <2>1, <2>2 DEF HandleCallback
<1>5. ASSUME NEW q \in Pipelines, NEW success \in BOOLEAN, PipelineCallback(q, success)
      PROVE  DeferredsHeld'
  <2> DEFINE k == IF success THEN "native" ELSE "failed"
  <2>1. k \in WithDeferred
    BY DEF WithDeferred
  <2>2. settlements' = IF q \in slot THEN Append(settlements, Rec(k, q)) ELSE settlements
    BY <1>5 DEF PipelineCallback
  <2> HIDE DEF k
  <2> QED
    BY <1>3, <1>5, <1>b, <2>1, <2>2 DEF PipelineCallback
<1>6. ASSUME NEW q \in Works, NEW success \in BOOLEAN, WorkCallback(q, success)
      PROVE  DeferredsHeld'
  <2> DEFINE k == IF success THEN "value" ELSE "error"
  <2>1. k \in WithDeferred
    BY DEF WithDeferred
  <2>2. settlements' = IF q \in slot THEN Append(settlements, Rec(k, q)) ELSE settlements
    BY <1>6 DEF WorkCallback
  <2> HIDE DEF k
  <2> QED
    BY <1>3, <1>6, <1>b, <2>1, <2>2 DEF WorkCallback
<1>7. ASSUME NEW k \in {"lost", "event"}, NEW x \in Request \cup Events,
             settlements' = Append(settlements, Rec(k, x)),
             UNCHANGED <<slot, spent, promise>>
      PROVE  DeferredsHeld'
  <2> SUFFICES ASSUME NEW r \in Request PROVE Balanced(r)'
    BY <1>a
  <2>1. Rec(k, x) \in Record /\ Rec(k, x).kind \notin WithDeferred
    BY DEF Rec, Record, WithDeferred
  <2>2. Count(WithDeferred, r)' = Count(WithDeferred, r) + 0
    BY <1>7, <2>1, CountAppend
  <2> QED
    BY <1>0, <1>7, <2>2 DEF HoldersOfDeferred
<1>8. ASSUME NEW d \in Devices, ReportLost(d)
      PROVE  DeferredsHeld'
  BY <1>7, <1>8, <1>b DEF ReportLost
<1>9. ASSUME NEW e \in Events, ReportError(e)
      PROVE  DeferredsHeld'
  BY <1>7, <1>9 DEF ReportError
<1>10. ASSUME settlements' = <<>>, slot' = slot,
              \A r \in Request : spent'[r] = spent[r] + Count(WithDeferred, r),
              \A r \in Request : IF r \in Queued(WithDeferred)
                                 THEN promise'[r] \in {"dropped", "resolved", "rejected"}
                                 ELSE promise'[r] = promise[r]
       PROVE  DeferredsHeld'
  <2> SUFFICES ASSUME NEW r \in Request PROVE Balanced(r)'
    BY <1>a
  <2>1. Count(WithDeferred, r)' = 0
    BY <1>10, CountEmptied
  <2>2. Count(WithDeferred, r) = 0 <=> r \notin Queued(WithDeferred)
    BY CountIsZero
  <2>3. slot' = slot /\ spent'[r] = spent[r] + Count(WithDeferred, r)
    BY <1>10
  <2>4. CASE r \in Queued(WithDeferred)
    <3>1. promise'[r] \notin {"none", "pending"}
      BY <1>10, <2>4
    <3>2. Count(WithDeferred, r) >= 1
      BY <1>0, <2>2, <2>4
    <3>3. promise[r] # "none"
      BY <1>0, <3>2 DEF HoldersOfDeferred
    <3>4. (IF r \in slot THEN 1 ELSE 0) + Count(WithDeferred, r) + spent[r] = 1
      BY <1>0, <3>3 DEF HoldersOfDeferred
    <3>5. HoldersOfDeferred(r)' = (IF r \in slot THEN 1 ELSE 0) + 0 + (spent[r] + Count(WithDeferred, r))
      BY <2>1, <2>3 DEF HoldersOfDeferred
    <3>6. HoldersOfDeferred(r)' = 1
      BY <1>0, <3>4, <3>5
    <3> QED
      BY <3>1, <3>6
  <2>5. CASE r \notin Queued(WithDeferred)
    <3>1. promise'[r] = promise[r] /\ Count(WithDeferred, r) = 0 /\ spent'[r] = spent[r]
      BY <1>0, <1>10, <2>2, <2>3, <2>5
    <3> QED
      BY <1>0, <2>1, <2>3, <3>1 DEF HoldersOfDeferred
  <2> QED
    BY <2>4, <2>5
<1>11. ASSUME NEW bad \in SUBSET Queued({"native"}), NEW n \in 0 .. Len(settlements), Drain(bad, n)
       PROVE  DeferredsHeld'
  <2>1. settlements' = <<>> /\ slot' = slot
    BY <1>11 DEF Drain
  <2>2. \A r \in Request : spent'[r] = spent[r] + Count(WithDeferred, r)
    BY <1>11 DEF Drain
  <2>3. \A rec : Outcome(rec, bad) \in {"resolved", "rejected"}
    BY DEF Outcome
  <2>4. \A r \in Request : IF r \in Queued(WithDeferred)
                           THEN promise'[r] \in {"dropped", "resolved", "rejected"}
                           ELSE promise'[r] = promise[r]
    BY <1>11, <2>3 DEF Drain
  <2> QED
    BY <1>10, <2>1, <2>2, <2>4
<1>12. CASE ReleasePending
  <2>1. settlements' = <<>> /\ slot' = slot
    BY <1>12 DEF ReleasePending
  <2>2. \A r \in Request : spent'[r] = spent[r] + Count(WithDeferred, r)
    BY <1>12 DEF ReleasePending
  <2>3. \A r \in Request : IF r \in Queued(WithDeferred)
                           THEN promise'[r] \in {"dropped", "resolved", "rejected"}
                           ELSE promise'[r] = promise[r]
    BY <1>12 DEF ReleasePending
  <2> QED
    BY <1>10, <2>1, <2>2, <2>3
<1>13. CASE ReleaseOutstanding
  <2> SUFFICES ASSUME NEW r \in Request PROVE Balanced(r)'
    BY <1>a
  <2>1. Count(WithDeferred, r)' = Count(WithDeferred, r)
    BY <1>13, CountSame DEF ReleaseOutstanding
  <2>2. slot' = {} /\ spent'[r] = spent[r] + IF r \in slot THEN 1 ELSE 0
    BY <1>13 DEF ReleaseOutstanding, Plus, TypeOK
  <2>3. promise'[r] = IF r \in slot THEN "dropped" ELSE promise[r]
    BY <1>13 DEF ReleaseOutstanding
  <2>4. CASE r \in slot
    <3>1. promise[r] # "none"
      BY <1>0, <2>4 DEF HoldersOfDeferred
    <3> QED
      BY <1>0, <2>1, <2>2, <2>3, <2>4, <3>1 DEF HoldersOfDeferred
  <2>5. CASE r \notin slot
    BY <1>0, <2>1, <2>2, <2>3, <2>5 DEF HoldersOfDeferred
  <2> QED
    BY <2>4, <2>5
<1>14. ASSUME \/ \E r \in Handled : Finalize(r) \/ ReleaseOne(r)
              \/ \E m \in {"tick", "frame"} : BeginTick(m)
              \/ EndEvents \/ EndTick \/ BeginDrop \/ TeardownDrain \/ DropContext \/ UNCHANGED vars
              \/ \E throws \in BOOLEAN : Dispatch(throws)
              \/ \E fails \in BOOLEAN : Microtasks(fails) \/ FrameCallback(fails)
       PROVE  DeferredsHeld'
  <2>1. UNCHANGED <<slot, settlements, spent, promise>>
    BY <1>14 DEF Finalize, ReleaseOne, BeginTick, EndEvents, EndTick, BeginDrop, TeardownDrain, DropContext,
                 vars, Dispatch, Microtasks, FrameCallback
  <2> QED
    BY <2>1, DeferredsSame
<1> QED
  BY <1>1, <1>2, <1>4, <1>5, <1>6, <1>8, <1>9, <1>11, <1>12, <1>13, <1>14
  DEF Next, Script, Backend, TickSteps, Teardown

(***************************************************************************)
(* device.lost.                                                            *)
(***************************************************************************)
LEMMA LossInit == Init => LossHeld
<1> SUFFICES ASSUME Init, NEW d \in Devices
             PROVE  lostSpent[d] = 0 /\ d \notin lostSlot
  BY DEF LossHeld
<1> QED
  BY DEF Init

(* The deferred of device.lost is not made before the record of the device *)
(* is taken from the queue.                                                *)
Unmade(d) == call[d] \in {"none", "pending"} \/ d \in Queued({"native"})

LEMMA LossUntouched ==
  ASSUME LossHeld, UNCHANGED <<lostSlot, lostSpent>>, \A d \in Devices : Unmade(d)' => Unmade(d)
  PROVE  LossHeld'
BY DEF LossHeld, Unmade

LEMMA LossStep ==
  ASSUME TypeOK, RecordsTyped, HandlesHeld, LossHeld, [Next]_vars
  PROVE  LossHeld'
<1> USE DEF requestVars, lossVars, tickVars, NoTouch
<1>0. /\ Handled \subseteq Request /\ Devices \subseteq Handled
      /\ Devices \cap Pipelines = {} /\ Devices \cap Works = {}
      /\ Pipelines \subseteq Request /\ Works \subseteq Request /\ Adapters \cup Devices \subseteq Request
  BY KindsAreDisjoint DEF Handled, Request
<1>a. \A d \in Devices :
         /\ lostSpent[d] \in Nat
         /\ lostSpent[d] + (IF d \in lostSlot THEN 1 ELSE 0) <= 1
         /\ Unmade(d) => lostSpent[d] = 0 /\ d \notin lostSlot
  BY DEF LossHeld, Unmade, TypeOK
<1>1. ASSUME NEW q \in Request, Start(q)
      PROVE  LossHeld'
  <2>1. \A d \in Devices : call'[d] = (IF d = q THEN "pending" ELSE call[d]) /\ call[q] = "none"
    BY <1>0, <1>1 DEF Start, TypeOK
  <2>2. \A d \in Devices : Unmade(d)' => Unmade(d)
    BY <1>1, <2>1, CountSame DEF Start, Unmade
  <2> QED
    BY <1>1, <2>2, LossUntouched DEF Start
<1>2. ASSUME NEW q \in Request, call[q] = "pending",
             NEW k \in {"native", "failed", "value", "error"},
             \A r \in Request : r # q => call'[r] = call[r],
             settlements' = settlements \/ settlements' = Append(settlements, Rec(k, q)),
             UNCHANGED <<lostSlot, lostSpent>>
      PROVE  LossHeld'
  <2>1. Rec(k, q) \in Record /\ Rec(k, q).of = q
    BY CallbackRecords
  <2>2. \A d : d # q => (d \in Queued({"native"})' <=> d \in Queued({"native"}))
    BY <1>2, <2>1, CountSame, QueuedAppend
  <2>3. \A d \in Devices : Unmade(d)' => Unmade(d)
    BY <1>0, <1>2, <2>2 DEF Unmade
  <2> QED
    BY <1>2, <2>3, LossUntouched
<1>3. ASSUME NEW q \in Adapters \cup Devices, NEW success \in BOOLEAN, NEW handle \in BOOLEAN,
             HandleCallback(q, success, handle)
      PROVE  LossHeld'
  <2> DEFINE k == IF success /\ handle THEN "native" ELSE IF q \in Adapters THEN "value" ELSE "error"
  <2>1. k \in {"native", "failed", "value", "error"}
    OBVIOUS
  <2>2. settlements' = settlements \/ settlements' = Append(settlements, Rec(k, q))
    BY <1>3 DEF HandleCallback
  <2>3. \A r \in Request : r # q => call'[r] = call[r]
    BY <1>3 DEF HandleCallback, Answer, TypeOK
  <2> HIDE DEF k
  <2> QED
    BY <1>0, <1>2, <1>3, <2>1, <2>2, <2>3 DEF HandleCallback
<1>4. ASSUME NEW q \in Pipelines, NEW success \in BOOLEAN, PipelineCallback(q, success)
      PROVE  LossHeld'
  <2> DEFINE k == IF success THEN "native" ELSE "failed"
  <2>1. k \in {"native", "failed", "value", "error"}
    OBVIOUS
  <2>2. settlements' = settlements \/ settlements' = Append(settlements, Rec(k, q))
    BY <1>4 DEF PipelineCallback
  <2>3. \A r \in Request : r # q => call'[r] = call[r]
    BY <1>4 DEF PipelineCallback, Answer, TypeOK
  <2> HIDE DEF k
  <2> QED
    BY <1>0, <1>2, <1>4, <2>1, <2>2, <2>3 DEF PipelineCallback
<1>5. ASSUME NEW q \in Works, NEW success \in BOOLEAN, WorkCallback(q, success)
      PROVE  LossHeld'
  <2> DEFINE k == IF success THEN "value" ELSE "error"
  <2>1. k \in {"native", "failed", "value", "error"}
    OBVIOUS
  <2>2. settlements' = settlements \/ settlements' = Append(settlements, Rec(k, q))
    BY <1>5 DEF WorkCallback
  <2>3. \A r \in Request : r # q => call'[r] = call[r]
    BY <1>5 DEF WorkCallback, Answer, TypeOK
  <2> HIDE DEF k
  <2> QED
    BY <1>0, <1>2, <1>5, <2>1, <2>2, <2>3 DEF WorkCallback
<1>6. ASSUME NEW k \in {"lost", "event"}, NEW x \in Request \cup Events,
             settlements' = Append(settlements, Rec(k, x)),
             UNCHANGED <<call, lostSlot, lostSpent>>
      PROVE  LossHeld'
  <2>1. Rec(k, x) \in Record /\ Rec(k, x).kind \notin {"native"}
    BY DEF Rec, Record
  <2>2. Queued({"native"})' = Queued({"native"}) \cup {}
    BY <1>6, <2>1, QueuedAppend
  <2> QED
    BY <1>6, <2>2, LossUntouched DEF Unmade
<1>7. ASSUME NEW d \in Devices, ReportLost(d)
      PROVE  LossHeld'
  BY <1>0, <1>6, <1>7 DEF ReportLost
<1>8. ASSUME NEW e \in Events, ReportError(e)
      PROVE  LossHeld'
  BY <1>6, <1>8 DEF ReportError
<1>9. ASSUME NEW bad \in SUBSET Queued({"native"}), NEW n \in 0 .. Len(settlements), Drain(bad, n)
       PROVE  LossHeld'
  <2> DEFINE made == Queued({"native"}) \ bad
             lost == LostInBatch(made)
  <2>1. /\ lostSpent' = Plus(lostSpent, lost \cup (bad \cap Devices))
        /\ lostSlot' = (lostSlot \cup (made \cap Devices)) \ lost
        /\ settlements' = <<>> /\ call' = call
    BY <1>9 DEF Drain
  <2>2. lost \subseteq lostSlot \cup made /\ made \cap bad = {} /\ made \cup bad = Queued({"native"})
    BY <1>9 DEF LostInBatch
  <2> HIDE DEF made, lost
  <2> SUFFICES ASSUME NEW d \in Devices
               PROVE  /\ lostSpent'[d] + (IF d \in lostSlot' THEN 1 ELSE 0) <= 1
                      /\ Unmade(d)' => lostSpent'[d] = 0 /\ d \notin lostSlot'
    BY DEF LossHeld, Unmade
  <2>3. lostSpent'[d] = lostSpent[d] + IF d \in lost \/ d \in bad THEN 1 ELSE 0
    BY <2>1 DEF Plus, TypeOK
  <2>4. d \in Queued({"native"}) => lostSpent[d] = 0 /\ d \notin lostSlot
    BY <1>a DEF Unmade
  <2>5. d \in Queued({"native"}) => call[d] \notin {"none", "pending"}
    <3> SUFFICES ASSUME d \in Queued({"native"}) PROVE Acquired(d)
      BY <1>0 DEF Acquired
    <3>1. d \in Handled /\ Count({"native"}, d) # 0
      BY <1>0, CountIsZero
    <3>2. Count(OwnsHandle, d) >= 1
      BY <3>1, CountIsNat, CountOwners
    <3>3. Holders(d) # 0
      BY <3>1, <3>2, HoldersAreNat DEF Holders
    <3> QED
      BY <3>1, <3>3 DEF HandlesHeld
  <2>6. Unmade(d)' => Unmade(d) /\ d \notin Queued({"native"})
    BY <2>1, <2>5, CountEmptied DEF Unmade
  <2>7. CASE d \in Queued({"native"})
    <3>1. CASE d \in lost \/ d \in bad
      <4>1. d \notin lostSlot'
        BY <2>1, <2>2, <2>4, <2>7, <3>1
      <4> QED
        BY <2>3, <2>4, <2>6, <2>7, <3>1, <4>1
    <3>2. CASE d \notin lost /\ d \notin bad
      BY <2>3, <2>4, <2>6, <2>7, <3>2
    <3> QED
      BY <3>1, <3>2
  <2>8. CASE d \notin Queued({"native"})
    <3>1. d \notin bad /\ d \notin made /\ (d \in lost => d \in lostSlot)
      BY <2>2, <2>8
    <3>2. lostSlot' \cap {d} = (lostSlot \ lost) \cap {d}
      BY <2>1, <3>1
    <3>3. CASE d \in lost
      BY <1>a, <2>3, <2>6, <3>1, <3>2, <3>3
    <3>4. CASE d \notin lost
      BY <1>a, <2>3, <2>6, <3>1, <3>2, <3>4
    <3> QED
      BY <3>3, <3>4
  <2> QED
    BY <2>7, <2>8
<1>10. CASE ReleasePending
  <2>1. \A d \in Devices : Unmade(d)' => Unmade(d)
    BY <1>10, CountEmptied DEF ReleasePending, Unmade
  <2> QED
    BY <1>10, <2>1, LossUntouched DEF ReleasePending
<1>11. CASE ReleaseOutstanding
  <2> SUFFICES ASSUME NEW d \in Devices
               PROVE  /\ lostSpent'[d] + (IF d \in lostSlot' THEN 1 ELSE 0) <= 1
                      /\ Unmade(d)' => lostSpent'[d] = 0 /\ d \notin lostSlot'
    BY DEF LossHeld, Unmade
  <2>1. lostSlot' = {} /\ lostSpent'[d] = lostSpent[d] + IF d \in lostSlot THEN 1 ELSE 0
    BY <1>11 DEF ReleaseOutstanding, Plus, TypeOK
  <2>2. Unmade(d)' => Unmade(d)
    BY <1>11, CountSame DEF ReleaseOutstanding, Unmade
  <2>3. CASE d \in lostSlot
    BY <1>a, <2>1, <2>2, <2>3
  <2>4. CASE d \notin lostSlot
    BY <1>a, <2>1, <2>2, <2>4
  <2> QED
    BY <2>3, <2>4
<1>12. ASSUME \/ \E r \in Handled : Finalize(r) \/ ReleaseOne(r)
              \/ \E q \in Request : \E how \in {"rejected", "resolved"} : SettleAtOnce(q, how)
              \/ \E m \in {"tick", "frame"} : BeginTick(m)
              \/ EndEvents \/ EndTick \/ BeginDrop \/ TeardownDrain \/ DropContext \/ UNCHANGED vars
              \/ \E throws \in BOOLEAN : Dispatch(throws)
              \/ \E fails \in BOOLEAN : Microtasks(fails) \/ FrameCallback(fails)
       PROVE  LossHeld'
  <2>1. UNCHANGED <<call, settlements, lostSlot, lostSpent>>
    BY <1>12 DEF Finalize, ReleaseOne, SettleAtOnce, BeginTick, EndEvents, EndTick, BeginDrop, TeardownDrain,
                 DropContext, vars, Dispatch, Microtasks, FrameCallback
  <2>2. \A d \in Devices : Unmade(d)' => Unmade(d)
    BY <2>1, CountSame DEF Unmade
  <2> QED
    BY <2>1, <2>2, LossUntouched
<1> QED
  BY <1>1, <1>3, <1>4, <1>5, <1>7, <1>8, <1>9, <1>10, <1>11, <1>12
  DEF Next, Script, Backend, TickSteps, Teardown

(***************************************************************************)
(* The drop: what each finished step has left behind.                      *)
(***************************************************************************)
LEMMA TornDownInit == Init => TornDown
BY DEF Init, TornDown, Live, PendingDone, OutstandingDone, ContextDone, AllDone

(* Neither order has a step done while the runtime lives.                  *)
LEMMA LiveIsWhole ==
  ASSUME TypeOK
  PROVE  /\ Live => ~PendingDone /\ ~OutstandingDone /\ ~ContextDone /\ ~AllDone
         /\ AllDone => ContextDone /\ OutstandingDone /\ PendingDone
         /\ ContextDone => OutstandingDone /\ PendingDone
BY DEF TypeOK, Engines, Live, PendingDone, OutstandingDone, ContextDone, AllDone

LEMMA TornDownSame ==
  ASSUME TornDown,
         UNCHANGED <<engine, step>>, ~afterDeath',
         ~Live => phase' = phase,
         slot' \subseteq slot \/ ~OutstandingDone,
         lostSlot' \subseteq lostSlot \/ ~OutstandingDone,
         wrapped' \subseteq wrapped \/ ~ContextDone,
         PendingDone => \A i \in DOMAIN settlements' :
                           \/ i \in DOMAIN settlements /\ settlements'[i] = settlements[i]
                           \/ settlements'[i].kind \in {"lost", "event"},
         AllDone => \A r \in Handled : releases'[r] > 0 => r \in Pipelines /\ call'[r] = "late"
  PROVE  TornDown'
BY DEF TornDown, Live, PendingDone, OutstandingDone, ContextDone, AllDone

LEMMA TornDownStep ==
  ASSUME TypeOK, RecordsTyped, TornDown, [Next]_vars
  PROVE  TornDown'
<1> USE DEF requestVars, lossVars, tickVars, NoTouch
<1>0. /\ Handled \subseteq Request /\ Adapters \cup Devices \subseteq Request /\ Pipelines \subseteq Request
      /\ (Adapters \cup Devices) \cap Pipelines = {}
      /\ Works \subseteq Request /\ Works \cap Handled = {} /\ Devices \subseteq Request
  BY KindsAreDisjoint DEF Handled, Request
<1>a. /\ AllDone => \A r \in Handled : releases[r] > 0 => r \in Pipelines /\ call[r] = "late"
      /\ OutstandingDone => slot = {} /\ lostSlot = {}
      /\ ContextDone => wrapped = {}
      /\ ~Live => phase = "idle"
      /\ ~afterDeath
  BY DEF TornDown
<1>b. /\ Live => ~PendingDone /\ ~OutstandingDone /\ ~ContextDone /\ ~AllDone
      /\ AllDone => ContextDone /\ OutstandingDone /\ PendingDone
      /\ ContextDone => OutstandingDone /\ PendingDone
  BY LiveIsWhole
<1>c. ContextAlive <=> ~ContextDone
  BY StepsOfDrop DEF TypeOK
\* Steps of the living runtime.
<1>1. ASSUME Live, UNCHANGED <<engine, step>>, ~afterDeath'
      PROVE  TornDown'
  BY <1>1, <1>b, TornDownSame
<1>2. ASSUME Live, UNCHANGED <<engine, step>>, NEW happens \in BOOLEAN, Touch(happens)
      PROVE  TornDown'
  <2>1. ~afterDeath'
    BY <1>2, <1>a DEF Touch, ContextAlive
  <2> QED
    BY <1>1, <1>2, <2>1
<1>3. ASSUME NEW q \in Request, Start(q)
      PROVE  TornDown'
  BY <1>1, <1>3, <1>a DEF Start, ScriptRuns
<1>4. ASSUME NEW q \in Request, NEW how \in {"rejected", "resolved"}, SettleAtOnce(q, how)
      PROVE  TornDown'
  BY <1>2, <1>4 DEF SettleAtOnce, ScriptRuns
<1>5. ASSUME NEW q \in Handled, Finalize(q)
      PROVE  TornDown'
  <2>1. ~ContextDone /\ ~AllDone
    BY <1>5, <1>c, <1>b DEF Finalize
  <2>2. /\ UNCHANGED <<engine, step, afterDeath, phase, slot, lostSlot, settlements>>
    BY <1>5 DEF Finalize
  <2> QED
    BY <1>a, <2>1, <2>2, TornDownSame
\* Callbacks: after the drop no box is left, so nothing joins the queue.
<1>6. ASSUME CallbacksMayFire, NEW q \in Request, call[q] = "pending", slot' = slot \ {q},
             UNCHANGED <<engine, step, afterDeath, phase, lostSlot, wrapped>>,
             q \notin slot => settlements' = settlements,
             \A r \in Request : r # q => call'[r] = call[r],
             Dead => \A r \in Handled : releases'[r] = releases[r]
                                        \/ (r = q /\ q \in Pipelines /\ call'[q] = "late")
      PROVE  TornDown'
  <2>1. CASE Live
    BY <1>1, <1>6, <1>a, <2>1
  <2>2. CASE Dead
    <3>1. AllDone /\ slot = {} /\ settlements' = settlements
      BY <1>6, <1>a, <1>b, <2>2, StepsOfDrop DEF TypeOK
    <3>2. ASSUME NEW r \in Handled, releases'[r] > 0
          PROVE  r \in Pipelines /\ call'[r] = "late"
      <4>1. CASE r = q /\ q \in Pipelines /\ call'[q] = "late"
        BY <4>1
      <4>2. CASE releases'[r] = releases[r]
        <5>1. r \in Pipelines /\ call[r] = "late"
          BY <1>a, <3>1, <3>2, <4>2
        <5>2. r # q
          BY <1>6, <5>1
        <5> QED
          BY <1>0, <1>6, <5>1, <5>2
      <4> QED
        BY <1>6, <2>2, <4>1, <4>2
    <3>3. slot' \subseteq slot /\ lostSlot' \subseteq lostSlot /\ wrapped' \subseteq wrapped
      BY <1>6
    <3> QED
      BY <1>6, <1>a, <3>1, <3>2, <3>3, TornDownSame
  <2> QED
    BY <1>6, <2>1, <2>2 DEF CallbacksMayFire
<1>7. ASSUME NEW q \in Adapters \cup Devices, NEW success \in BOOLEAN, NEW handle \in BOOLEAN,
             HandleCallback(q, success, handle)
      PROVE  TornDown'
  <2>1. \A r \in Request : r # q => call'[r] = call[r]
    BY <1>7 DEF HandleCallback, Answer, TypeOK
  <2>2. Dead => slot = {}
    BY <1>a, <1>b, StepsOfDrop DEF TypeOK
  <2>3. Dead => releases' = releases
    BY <1>7, <2>2 DEF HandleCallback
  <2> QED
    BY <1>0, <1>6, <1>7, <2>1, <2>3 DEF HandleCallback
<1>8. ASSUME NEW q \in Pipelines, NEW success \in BOOLEAN, PipelineCallback(q, success)
      PROVE  TornDown'
  <2>1. \A r \in Request : call'[r] = IF r # q THEN call[r] ELSE IF Dead THEN "late" ELSE "answered"
    BY <1>8 DEF PipelineCallback, Answer, TypeOK
  <2>2. q \in Request /\ q \in Handled
    BY <1>0 DEF Handled
  <2>3. \A r \in Handled : r # q => releases'[r] = releases[r]
    BY <1>8 DEF PipelineCallback, Plus, TypeOK
  <2>4. Dead => \A r \in Handled : releases'[r] = releases[r]
                                   \/ (r = q /\ q \in Pipelines /\ call'[q] = "late")
    BY <2>1, <2>2, <2>3
  <2> QED
    BY <1>6, <1>8, <2>1, <2>2, <2>4 DEF PipelineCallback
<1>9. ASSUME NEW q \in Works, NEW success \in BOOLEAN, WorkCallback(q, success)
      PROVE  TornDown'
  <2>1. \A r \in Request : r # q => call'[r] = call[r]
    BY <1>9 DEF WorkCallback, Answer, TypeOK
  <2> QED
    BY <1>0, <1>6, <1>9, <2>1 DEF WorkCallback
<1>10. ASSUME NEW k \in {"lost", "event"}, NEW x \in Request \cup Events,
              settlements' = Append(settlements, Rec(k, x)),
              UNCHANGED <<engine, step, afterDeath, phase, slot, lostSlot, wrapped, releases, call>>
       PROVE  TornDown'
  <2>1. Rec(k, x) \in Record /\ Rec(k, x).kind \in {"lost", "event"}
    BY DEF Rec, Record
  <2>2. \A i \in DOMAIN settlements' :
           \/ i \in DOMAIN settlements /\ settlements'[i] = settlements[i]
           \/ settlements'[i].kind \in {"lost", "event"}
    BY <1>10, <2>1, QueuedAppend
  <2> QED
    BY <1>10, <1>a, <2>2, TornDownSame
<1>11. ASSUME NEW d \in Devices, ReportLost(d)
       PROVE  TornDown'
  BY <1>0, <1>10, <1>11 DEF ReportLost
<1>12. ASSUME NEW e \in Events, ReportError(e)
       PROVE  TornDown'
  BY <1>10, <1>12 DEF ReportError
<1>13. ASSUME NEW bad \in SUBSET Queued({"native"}), NEW n \in 0 .. Len(settlements), Drain(bad, n)
       PROVE  TornDown'
  <2> DEFINE made == Queued({"native"}) \ bad
             happens == \E i \in DOMAIN settlements : InBatch(LostInBatch(made), settlements[i])
  <2>1. Live /\ UNCHANGED <<engine, step>> /\ Touch(happens)
    BY <1>13 DEF Drain
  <2>2. happens \in BOOLEAN
    OBVIOUS
  <2> HIDE DEF happens
  <2> QED
    BY <1>2, <2>1, <2>2
<1>14. ASSUME \/ \E m \in {"tick", "frame"} : BeginTick(m)
              \/ EndEvents \/ EndTick
              \/ \E throws \in BOOLEAN : Dispatch(throws)
              \/ \E fails \in BOOLEAN : Microtasks(fails) \/ FrameCallback(fails)
              \/ \E r \in Handled : ReleaseOne(r)
       PROVE  TornDown'
  <2>1. Live /\ UNCHANGED <<engine, step, afterDeath>>
    BY <1>14 DEF BeginTick, EndEvents, EndTick, Dispatch, Microtasks, FrameCallback, ReleaseOne
  <2> QED
    BY <1>1, <1>a, <2>1
\* Runtime::drop.
<1>15. CASE BeginDrop
  <2>1. step' = 1 /\ phase' = "idle" /\ afterDeath' = afterDeath
    BY <1>15 DEF BeginDrop
  <2> QED
    BY <1>a, <2>1 DEF TornDown, Live, PendingDone, OutstandingDone, ContextDone, AllDone
<1>16. CASE ReleasePending
  <2>1. (engine = "boa" /\ step = 1) \/ (engine = "jsc" /\ step = 2)
    BY <1>16, StepsOfDrop DEF ReleasePending, TypeOK
  <2>2. ~ContextDone /\ ~Live
    BY <2>1 DEF ContextDone, Live
  <2>3. /\ UNCHANGED <<engine, phase, slot, lostSlot, wrapped>>
        /\ step' = step + 1 /\ settlements' = <<>>
        /\ Touch(Queued(WithDeferred) # {})
    BY <1>16 DEF ReleasePending, NextStep
  <2>4. ~afterDeath'
    BY <1>a, <1>c, <2>2, <2>3 DEF Touch
  <2>5. OutstandingDone' => OutstandingDone
    BY <2>1, <2>3 DEF OutstandingDone
  <2>6. ~ContextDone' /\ ~AllDone'
    BY <2>1, <2>3 DEF ContextDone, AllDone
  <2> QED
    BY <1>a, <2>2, <2>3, <2>4, <2>5, <2>6 DEF TornDown
<1>17. CASE ReleaseOutstanding
  <2>1. (engine = "boa" /\ step = 2) \/ (engine = "jsc" /\ step = 1)
    BY <1>17, StepsOfDrop DEF ReleaseOutstanding, TypeOK
  <2>2. ~ContextDone /\ ~Live
    BY <2>1 DEF ContextDone, Live
  <2>3. /\ UNCHANGED <<engine, phase, settlements, wrapped>>
        /\ step' = step + 1 /\ slot' = {} /\ lostSlot' = {}
        /\ Touch(slot \cup lostSlot # {})
    BY <1>17 DEF ReleaseOutstanding, NextStep
  <2>4. ~afterDeath'
    BY <1>a, <1>c, <2>2, <2>3 DEF Touch
  <2>5. PendingDone' => PendingDone
    BY <2>1, <2>3 DEF PendingDone
  <2>6. ~ContextDone' /\ ~AllDone'
    BY <2>1, <2>3 DEF ContextDone, AllDone
  <2> QED
    BY <1>a, <2>2, <2>3, <2>4, <2>5, <2>6 DEF TornDown
<1>18. CASE TeardownDrain
  <2>1. (engine = "boa" /\ step \in {3, 5}) \/ (engine = "jsc" /\ step = 4)
    BY <1>18, StepsOfDrop DEF TeardownDrain, TypeOK
  <2>2. ~Live
    BY <2>1 DEF Live
  <2>3. /\ UNCHANGED <<engine, phase, settlements, slot, lostSlot, wrapped, afterDeath>>
        /\ step' = step + 1 /\ \A r \in Handled : releases'[r] = 0
    BY <1>18 DEF TeardownDrain, NextStep
  <2>4. (PendingDone' => PendingDone) /\ (OutstandingDone' => OutstandingDone) /\ (ContextDone' => ContextDone)
    BY <2>1, <2>3 DEF PendingDone, OutstandingDone, ContextDone
  <2> QED
    BY <1>a, <2>2, <2>3, <2>4 DEF TornDown
<1>19. CASE DropContext
  <2>1. (engine = "boa" /\ step = 4) \/ (engine = "jsc" /\ step = 3)
    BY <1>19, StepsOfDrop DEF DropContext, TypeOK
  <2>2. ~Live
    BY <2>1 DEF Live
  <2>3. /\ UNCHANGED <<engine, phase, settlements, slot, lostSlot, afterDeath>>
        /\ step' = step + 1 /\ wrapped' = {}
    BY <1>19 DEF DropContext, NextStep
  <2>4. (PendingDone' => PendingDone) /\ (OutstandingDone' => OutstandingDone) /\ ~AllDone'
    BY <2>1, <2>3 DEF PendingDone, OutstandingDone, AllDone
  <2> QED
    BY <1>a, <2>2, <2>3, <2>4 DEF TornDown
<1>20. CASE UNCHANGED vars
  BY <1>20 DEF vars, TornDown, Live, PendingDone, OutstandingDone, ContextDone, AllDone
<1> QED
  BY <1>3, <1>4, <1>5, <1>7, <1>8, <1>9, <1>11, <1>12, <1>13, <1>14, <1>15, <1>16, <1>17, <1>18, <1>19, <1>20
  DEF Next, Script, Backend, TickSteps, Teardown

(***************************************************************************)
(* The tick: what it still has to release and to report.                   *)
(***************************************************************************)
LEMMA TickInit == Init => TickOwes
BY DEF Init, TickOwes

LEMMA TickSame ==
  ASSUME TypeOK, TickOwes, UNCHANGED <<phase, failed, owed>>,
         \A r \in Handled : releases[r] > 0 => releases'[r] > 0,
         \A e \in Events : event'[e] \in {"collected", "dropped"} => event[e] = event'[e]
  PROVE  TickOwes'
BY DEF TypeOK, TickOwes

LEMMA TickStep ==
  ASSUME TypeOK, RecordsTyped, TornDown, TickOwes, [Next]_vars
  PROVE  TickOwes'
<1> USE DEF requestVars, lossVars, tickVars, NoTouch
<1>0. /\ \A r \in owed : releases[r] > 0
      /\ owed \subseteq Handled
      /\ phase = "idle" => owed = {}
      /\ \A e \in Events : /\ event[e] = "collected" => phase = "dispatch"
                           /\ event[e] = "dropped" => failed /\ phase \notin {"idle", "events", "drain"}
  BY DEF TickOwes, TypeOK
<1>a. \A who : \A r \in Handled : releases[r] > 0 => Plus(releases, who)[r] > 0
  BY DEF Plus, TypeOK
\* More may be queued meanwhile: by callbacks, finalizers, script.
<1>1. ASSUME UNCHANGED <<phase, failed, owed, event>>,
             releases' = releases \/ \E who : releases' = Plus(releases, who)
      PROVE  TickOwes'
  BY <1>1, <1>a, TickSame
<1>2. ASSUME NEW q \in Request, Start(q) \/ \E how \in {"rejected", "resolved"} : SettleAtOnce(q, how)
      PROVE  TickOwes'
  BY <1>1, <1>2 DEF Start, SettleAtOnce
<1>3. ASSUME NEW q \in Handled, Finalize(q)
      PROVE  TickOwes'
  BY <1>1, <1>3 DEF Finalize
<1>4. ASSUME NEW q \in Adapters \cup Devices, NEW success \in BOOLEAN, NEW handle \in BOOLEAN,
             HandleCallback(q, success, handle)
      PROVE  TickOwes'
  BY <1>1, <1>4 DEF HandleCallback
<1>5. ASSUME NEW q \in Pipelines, NEW success \in BOOLEAN, PipelineCallback(q, success)
      PROVE  TickOwes'
  BY <1>1, <1>5 DEF PipelineCallback
<1>6. ASSUME NEW q \in Works, NEW success \in BOOLEAN, WorkCallback(q, success)
      PROVE  TickOwes'
  BY <1>1, <1>6 DEF WorkCallback
<1>7. ASSUME NEW d \in Devices, ReportLost(d)
      PROVE  TickOwes'
  BY <1>1, <1>7 DEF ReportLost
<1>8. ASSUME NEW e \in Events, ReportError(e)
      PROVE  TickOwes'
  <2>1. \A x \in Events : event'[x] \in {"collected", "dropped"} => event[x] = event'[x]
    BY <1>8 DEF ReportError, TypeOK
  <2>2. UNCHANGED <<phase, failed, owed, releases>>
    BY <1>8 DEF ReportError
  <2> QED
    BY <2>1, <2>2, TickSame
\* The tick itself.
<1>9. ASSUME NEW m \in {"tick", "frame"}, BeginTick(m)
      PROVE  TickOwes'
  <2>1. /\ phase = "idle" /\ phase' = "events" /\ failed' = FALSE
        /\ owed' = {r \in Handled : releases[r] > 0} /\ UNCHANGED <<releases, event>>
    BY <1>9 DEF BeginTick
  <2>2. \A e \in Events : event'[e] \notin {"collected", "dropped"}
    BY <1>0, <2>1
  <2> QED
    BY <2>1, <2>2 DEF TickOwes
<1>10. CASE EndEvents
  <2>1. phase = "events" /\ phase' = "drain" /\ UNCHANGED <<failed, owed, releases, event>>
    BY <1>10 DEF EndEvents
  <2> QED
    BY <1>0, <2>1 DEF TickOwes
<1>11. ASSUME NEW bad \in SUBSET Queued({"native"}), NEW n \in 0 .. Len(settlements), Drain(bad, n)
       PROVE  TickOwes'
  <2> DEFINE lost == LostInBatch(Queued({"native"}) \ bad)
             fails == \E i \in n + 1 .. Len(settlements) : InBatch(lost, settlements[i])
  <2>1. /\ phase = "drain" /\ phase' = "dispatch" /\ owed' = owed /\ failed' = fails
        /\ releases' = [r \in Handled |-> releases[r] + ReturnedHandles(bad)[r]]
        /\ event' = [e \in Events |->
              IF event[e] # "queued" THEN event[e] ELSE IF fails THEN "dropped" ELSE "collected"]
    BY <1>11 DEF Drain
  <2> HIDE DEF fails
  <2>2. \A r \in Handled : releases[r] \in Nat /\ ReturnedHandles(bad)[r] \in Nat
    BY CountIsNat DEF ReturnedHandles, TypeOK
  <2>3. \A r \in owed' : releases'[r] > 0
    BY <1>0, <2>1, <2>2
  <2>4. \A e \in Events : event[e] \notin {"collected", "dropped"}
    BY <1>0, <2>1
  <2>5. \A e \in Events : event'[e] = "dropped" => failed'
    BY <2>1, <2>4
  <2> QED
    BY <2>1, <2>3, <2>5 DEF TickOwes
<1>12. ASSUME NEW throws \in BOOLEAN, Dispatch(throws)
       PROVE  TickOwes'
  <2>1. /\ phase = "dispatch" /\ phase' = "micro" /\ failed' = (failed \/ throws)
        /\ UNCHANGED <<owed, releases>>
        /\ event' = [e \in Events |-> IF event[e] = "collected" THEN "dispatched" ELSE event[e]]
    BY <1>12 DEF Dispatch
  <2>2. \A e \in Events : /\ event'[e] # "collected"
                          /\ event'[e] = "dropped" => failed
    BY <1>0, <2>1
  <2> QED
    BY <1>0, <2>1, <2>2 DEF TickOwes
<1>13. ASSUME NEW fails \in BOOLEAN, Microtasks(fails) \/ FrameCallback(fails)
       PROVE  TickOwes'
  <2>1. /\ phase \in {"micro", "callback", "micro2"} /\ phase' \in {"callback", "micro2", "release"}
        /\ failed' = (failed \/ fails) /\ UNCHANGED <<owed, releases, event>>
    BY <1>13 DEF Microtasks, FrameCallback
  <2> QED
    BY <1>0, <2>1 DEF TickOwes
<1>14. ASSUME NEW q \in Handled, ReleaseOne(q)
       PROVE  TickOwes'
  <2>1. /\ UNCHANGED <<phase, failed, event>> /\ owed' = owed \ {q} /\ phase = "release"
        /\ releases' = [releases EXCEPT ![q] = @ - 1]
    BY <1>14 DEF ReleaseOne, RunRelease
  <2>2. \A r \in owed' : releases'[r] > 0
    BY <1>0, <2>1 DEF TypeOK
  <2> QED
    BY <1>0, <2>1, <2>2 DEF TickOwes
<1>15. CASE EndTick
  <2>1. /\ phase = "release" /\ \A r \in Handled : releases[r] = 0
        /\ phase' = "idle" /\ UNCHANGED <<failed, owed, releases>>
        /\ event' = [e \in Events |-> IF event[e] = "dropped" /\ failed THEN "discarded" ELSE event[e]]
    BY <1>15 DEF EndTick
  <2>2. owed = {}
    BY <1>0, <2>1
  <2>3. \A e \in Events : event'[e] \notin {"collected", "dropped"}
    BY <1>0, <2>1
  <2> QED
    BY <2>1, <2>2, <2>3 DEF TickOwes
\* Runtime::drop comes between ticks.
<1>16. ASSUME UNCHANGED <<phase, owed, failed>>, phase = "idle",
              \A e \in Events : event'[e] \in {"collected", "dropped"} => event[e] = event'[e]
       PROVE  TickOwes'
  <2>1. owed' = {} /\ \A e \in Events : event'[e] \notin {"collected", "dropped"}
    BY <1>0, <1>16
  <2> QED
    BY <2>1 DEF TickOwes
<1>17. CASE BeginDrop \/ ReleasePending \/ ReleaseOutstanding \/ TeardownDrain \/ DropContext
  <2>1. phase = "idle"
    <3>1. CASE BeginDrop
      BY <3>1 DEF BeginDrop
    <3>2. CASE ReleasePending \/ ReleaseOutstanding \/ TeardownDrain \/ DropContext
      <4>1. \E s \in {"pending", "outstanding", "drain", "context"} : AtStep(s)
        BY <3>2 DEF ReleasePending, ReleaseOutstanding, TeardownDrain, DropContext
      <4>2. step # 0
        BY <4>1 DEF AtStep
      <4> QED
        BY <4>2 DEF TornDown, Live
    <3> QED
      BY <1>17, <3>1, <3>2
  <2>2. UNCHANGED <<phase, owed, failed>>
    BY <1>17 DEF BeginDrop, ReleasePending, ReleaseOutstanding, TeardownDrain, DropContext
  <2>3. \A e \in Events : event'[e] \in {"collected", "dropped"} => event[e] = event'[e]
    BY <1>17 DEF BeginDrop, ReleasePending, ReleaseOutstanding, TeardownDrain, DropContext
  <2> QED
    BY <1>16, <2>1, <2>2, <2>3
<1>18. CASE UNCHANGED vars
  BY <1>1, <1>18 DEF vars
<1> QED
  BY <1>2, <1>3, <1>4, <1>5, <1>6, <1>7, <1>8, <1>9, <1>10, <1>11, <1>12, <1>13, <1>14, <1>15, <1>17, <1>18
  DEF Next, Script, Backend, TickSteps, Teardown

(***************************************************************************)
(* The theorems.                                                           *)
(***************************************************************************)
LEMMA AllInv == Spec => []LifetimeInv
<1>1. Init => LifetimeInv
  BY InitTypes, HandlesInit, DeferredsInit, LossInit, TornDownInit, TickInit DEF LifetimeInv
<1>2. LifetimeInv /\ [Next]_vars => LifetimeInv'
  BY TypesStep, HandlesStep, DeferredsStep, LossStep, TornDownStep, TickStep DEF LifetimeInv
<1> QED
  BY <1>1, <1>2, PTL DEF Spec

(* Every variable keeps its shape, whatever requests a script makes and    *)
(* however they are answered.                                              *)
THEOREM TypeCorrect == Spec => []TypeOK
<1>1. LifetimeInv => TypeOK
  BY DEF LifetimeInv
<1> QED
  BY <1>1, AllInv, PTL

(* A native handle has one owner from its answer to its one release, and   *)
(* after either order of Runtime::drop all that arrived is released.       *)
THEOREM HandlesReleasedOnce == Spec => []HandlesAccounted
<1>1. LifetimeInv => HandlesAccounted
  <2> SUFFICES ASSUME LifetimeInv, NEW r \in Handled,
                      Dead, Acquired(r), r \in Adapters \cup Devices \/ call[r] = "answered"
               PROVE  freed[r] = 1
    BY DEF LifetimeInv, HandlesAccounted, HandlesHeld
  <2>1. AllDone /\ PendingDone /\ ContextDone
    BY StepsOfDrop, LiveIsWhole DEF LifetimeInv, TypeOK
  <2>2. r \in Adapters \cup Devices => r \notin Pipelines
    BY KindsAreDisjoint
  <2>3. ~(r \in Pipelines /\ call[r] = "pending") /\ ~(r \in Pipelines /\ call[r] = "late")
    BY <2>2
  <2>4. Count(OwnsHandle, r) = 0
    <3>1. r \notin Queued(OwnsHandle)
      BY <2>1 DEF LifetimeInv, TornDown, Queued, OwnsHandle
    <3> QED
      BY <3>1, CountIsZero DEF LifetimeInv
  <2>5. r \notin wrapped /\ ~(releases[r] > 0) /\ releases[r] \in Nat
    BY <2>1, <2>3, HoldersAreNat DEF LifetimeInv, TornDown
  <2>6. Holders(r) = 1 /\ freed[r] \in Nat
    BY HoldersAreNat DEF LifetimeInv, HandlesHeld
  <2>7. releases[r] = 0
    BY <2>5
  <2> QED
    BY <2>3, <2>4, <2>5, <2>6, <2>7 DEF Holders
<1> QED
  BY <1>1, AllInv, PTL

(* The resolving functions of every promise are given up once and while    *)
(* the engine's context lives; the drop leaves no promise pending.         *)
THEOREM ResolversSpentOnce == Spec => []ResolversBalanced
<1>1. LifetimeInv => ResolversBalanced
  <2> SUFFICES ASSUME LifetimeInv PROVE ResolversBalanced
    OBVIOUS
  <2>1. /\ ~afterDeath
        /\ \A r \in Request : HoldersOfDeferred(r) = IF promise[r] = "none" THEN 0 ELSE 1
        /\ \A d \in Devices : lostSpent[d] + (IF d \in lostSlot THEN 1 ELSE 0) <= 1
    BY DEF LifetimeInv, TornDown, DeferredsHeld, LossHeld
  <2>2. ASSUME ~ContextAlive PROVE lostSlot = {} /\ \A r \in Request : promise[r] # "pending"
    <3>1. ContextDone /\ PendingDone /\ OutstandingDone
      BY <2>2, StepsOfDrop, LiveIsWhole DEF LifetimeInv, TypeOK
    <3>2. lostSlot = {} /\ slot = {}
      BY <3>1 DEF LifetimeInv, TornDown
    <3>3. ASSUME NEW r \in Request, promise[r] = "pending" PROVE FALSE
      <4>1. r \notin Queued(WithDeferred)
        BY <3>1 DEF LifetimeInv, TornDown, Queued, WithDeferred
      <4>2. Count(WithDeferred, r) = 0
        BY <4>1, CountIsZero DEF LifetimeInv
      <4>3. spent[r] = 0
        BY <3>3 DEF LifetimeInv, DeferredsHeld
      <4> QED
        BY <2>1, <3>2, <3>3, <4>2, <4>3 DEF HoldersOfDeferred
    <3> QED
      BY <3>2, <3>3
  <2> QED
    BY <2>1, <2>2 DEF ResolversBalanced
<1> QED
  BY <1>1, AllInv, PTL

(* tick() and frame() run every release that was queued when they began,   *)
(* whatever failed, and lose an uncaptured error only with an error.       *)
THEOREM TicksFinish == Spec => []TicksDoTheirWork
<1>1. LifetimeInv => TicksDoTheirWork
  BY DEF LifetimeInv, TickOwes, TicksDoTheirWork
<1> QED
  BY <1>1, AllInv, PTL
=============================================================================
