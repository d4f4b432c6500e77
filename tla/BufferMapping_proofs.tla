------------------------ MODULE BufferMapping_proofs ------------------------
(***************************************************************************)
(* Proofs about BufferMapping, for any sets of buffers, calls and spans.   *)
(***************************************************************************)
EXTENDS BufferMapping, TLAPS

(* Starting a native map keeps the types of the backend's state.           *)
LEMMA NativeMapAsyncTyped ==
    ASSUME native \in [Buffers -> NativeBuffer], futures \in SUBSET Future,
           NEW b \in Buffers, NEW c \in Calls, NativeMapAsync(b, c)
    PROVE  native' \in [Buffers -> NativeBuffer] /\ futures' \in SUBSET Future
<1>1. [native EXCEPT ![b] = [st |-> "pending", by |-> c]] \in [Buffers -> NativeBuffer]
  BY DEF NativeBuffer
<1>2. \A st \in {"Waiting", "Error", "Aborted"} :
         futures \cup {[call |-> c, buffer |-> b, status |-> st]} \in SUBSET Future
  BY DEF Future
<1>3. native' \in [Buffers -> NativeBuffer]
  BY <1>1 DEF NativeMapAsync
<1>4. futures' \in SUBSET Future
  BY <1>2 DEF NativeMapAsync
<1> QED
  BY <1>3, <1>4

(* One step keeps the types.                                               *)
LEMMA TypeStep == TypeOK /\ [Next]_vars => TypeOK'
<1> SUFFICES ASSUME TypeOK, [Next]_vars PROVE TypeOK'
  OBVIOUS
<1> USE ConstantsAssumption DEF TypeOK, Phases, bufferVars, queueVars, nativeVars
<1>0. \A bs : Granted(bs) \in SUBSET Calls
  BY DEF Granted
<1>1. ASSUME NEW b \in Buffers, NEW c \in Calls, MapAsyncDestroyed(b, c)
      PROVE  TypeOK'
  <2> DEFINE r == [kind |-> "OperationError", call |-> c, buffer |-> b]
  <2>1. r \in Request
    BY DEF Request, Verdicts
  <2>2. Append(settlements, r) \in Seq(Request)
    BY <2>1
  <2> QED
    BY <1>1, <2>2 DEF MapAsyncDestroyed, Enqueue
<1>2. ASSUME NEW b \in Buffers, NEW c \in Calls, MapAsyncBusy(b, c)
      PROVE  TypeOK'
  BY <1>2 DEF MapAsyncBusy
<1>3. ASSUME NEW b \in Buffers, NEW c \in Calls, NativeMapAsync(b, c)
      PROVE  native' \in [Buffers -> NativeBuffer] /\ futures' \in SUBSET Future
  BY <1>3, NativeMapAsyncTyped
<1>4. ASSUME NEW b \in Buffers, NEW c \in Calls, MapAsyncAccepted(b, c)
      PROVE  TypeOK'
  <2> DEFINE start == [kind |-> "StartMap", call |-> c, buffer |-> b]
  <2>1. start \in Request
    BY DEF Request
  <2>5. settlements' = settlements \/ settlements' = Append(settlements, start)
    BY <1>4 DEF MapAsyncAccepted, Enqueue
  <2>2. settlements' \in Seq(Request)
    <3>1. Append(settlements, start) \in Seq(Request)
      BY <2>1
    <3> QED
      BY <2>5, <3>1
  <2>3. native' \in [Buffers -> NativeBuffer] /\ futures' \in SUBSET Future
    BY <1>4, <1>3 DEF MapAsyncAccepted
  <2>4. promise' \in [Calls -> {"unused", "pending", "fulfilled",
                                "OperationError", "AbortError"}]
    BY <1>4 DEF MapAsyncAccepted
  <2> QED
    BY <1>4, <2>2, <2>3, <2>4 DEF MapAsyncAccepted
<1>5. ASSUME NEW b \in Buffers, NEW s \in Spans, GetMappedRange(b, s)
      PROVE  TypeOK'
  BY <1>5 DEF GetMappedRange, Range, NativeBuffer
<1>6. ASSUME NEW bs \in SUBSET Buffers
      PROVE  Aborted(futures, bs) \in SUBSET Future
  <2> SUFFICES ASSUME NEW f \in futures
               PROVE  /\ f \in Future
                      /\ [f EXCEPT !.status = "Aborted"] \in Future
    BY DEF Aborted
  <2> QED
    BY DEF Future
<1>7. ASSUME NEW b \in Buffers, Unmap(b)
      PROVE  TypeOK'
  <2>1. NativeUnmap(b) => native' \in [Buffers -> NativeBuffer]
    BY DEF NativeUnmap, NativeBuffer
  <2>2. NativeUnmap(b) => futures' \in SUBSET Future
    BY <1>6 DEF NativeUnmap
  <2>3. native' \in [Buffers -> NativeBuffer] /\ futures' \in SUBSET Future
    BY <1>7, <2>1, <2>2 DEF Unmap
  <2> QED
    BY <1>0, <1>7, <2>3 DEF Unmap, CancelPending
<1>8. ASSUME NEW b \in Buffers, UnmapDetachFails(b)
      PROVE  TypeOK'
  BY <1>8 DEF UnmapDetachFails, CancelPending
<1>10. ASSUME NEW bs \in SUBSET Buffers, NativeDestroy(bs)
       PROVE  native' \in [Buffers -> NativeBuffer] /\ futures' \in SUBSET Future
  <2>1. [st |-> "destroyed", by |-> None] \in NativeBuffer
    BY DEF NativeBuffer
  <2>2. native' \in [Buffers -> NativeBuffer]
    BY <1>10, <2>1 DEF NativeDestroy
  <2> QED
    BY <1>10, <1>6, <2>2 DEF NativeDestroy
<1>9. ASSUME NEW b \in Buffers, Destroy(b)
      PROVE  TypeOK'
  BY <1>0, <1>9, <1>10 DEF Destroy
<1>11. CASE DeviceDestroy
  <2>1. native' \in [Buffers -> NativeBuffer] /\ futures' \in SUBSET Future
    BY <1>11, <1>10 DEF DeviceDestroy
  <2>2. ranges' \in [Buffers -> SUBSET Range] /\ deviceDestroyed' \in BOOLEAN
    BY <1>11 DEF DeviceDestroy
  <2>3. /\ pendingMap' \in [Buffers -> Calls \cup {None}]
        /\ cancelingMap' \in [Buffers -> Calls \cup {None}]
    BY <1>11 DEF DeviceDestroy
  <2>4. mapped' \in [Buffers -> BOOLEAN]
    BY <1>11, Zenon DEF DeviceDestroy
  <2>5. takenBack' \in SUBSET Calls
    BY <1>0, <1>11 DEF DeviceDestroy
  <2> QED
    BY <1>11, <2>1, <2>2, <2>3, <2>4, <2>5 DEF DeviceDestroy
<1>22. ASSUME NEW b \in Buffers, Finalize(b)
       PROVE  TypeOK'
  BY <1>22 DEF Finalize
<1>12. CASE BeginTick
  BY <1>12 DEF BeginTick
<1>13. ASSUME NEW f \in futures, NEW status \in {"Success", "Error", "Aborted"},
              CompleteMap(f, status)
       PROVE  TypeOK'
  <2>1. f.buffer \in Buffers /\ f.call \in Calls
    BY DEF Future
  <2>2. /\ [st |-> "mapped", by |-> f.call] \in NativeBuffer
        /\ [st |-> "unmapped", by |-> None] \in NativeBuffer
    BY <2>1 DEF NativeBuffer
  <2>3. native' \in [Buffers -> NativeBuffer]
    BY <1>13, <2>1, <2>2 DEF CompleteMap
  <2> DEFINE canceled == pendingMap[f.buffer] # f.call
             request == [kind |-> Settlement(canceled, status),
                         call |-> f.call, buffer |-> f.buffer]
  <2>4. request \in Request
    BY <2>1 DEF Settlement, Request, Verdicts
  <2>5. settlements' = Append(settlements, request)
    BY <1>13 DEF CompleteMap, MapCallback, Enqueue
  <2>6. settlements' \in Seq(Request)
    BY <2>4, <2>5
  <2> QED
    BY <1>13, <2>1, <2>3, <2>6 DEF CompleteMap, MapCallback
<1>14. CASE EndEvents
  BY <1>14 DEF EndEvents
<1>15. CASE StartDeferredMap
  <2>1. Head(settlements) \in Request /\ Tail(settlements) \in Seq(Request)
    BY <1>15 DEF StartDeferredMap
  <2>2. Head(settlements).buffer \in Buffers /\ Head(settlements).call \in Calls
    BY <2>1 DEF Request
  <2>3. native' \in [Buffers -> NativeBuffer] /\ futures' \in SUBSET Future
    BY <1>15, <1>3, <2>2 DEF StartDeferredMap
  <2> QED
    BY <1>15, <2>1, <2>3 DEF StartDeferredMap
<1>23. CASE PrepareSettlement
  <2>1. Head(settlements) \in Request /\ Tail(settlements) \in Seq(Request)
    BY <1>23 DEF PrepareSettlement
  <2>3. Head(settlements) \in Prepared
    BY <1>23, <2>1 DEF PrepareSettlement, Request, Prepared
  <2>2. Append(batch, Head(settlements)) \in Seq(Prepared)
    BY <2>3
  <2> QED
    BY <1>23, <2>1, <2>2 DEF PrepareSettlement
<1>24. CASE EndPrepare
  BY <1>24 DEF EndPrepare
<1>16. CASE SettlePromise
  <2>1. Head(batch) \in Prepared /\ Tail(batch) \in Seq(Prepared)
    BY <1>16 DEF SettlePromise
  <2>2. Head(batch).kind \in Verdicts
    BY <1>16, <2>1 DEF Prepared
  <2> QED
    BY <1>16, <2>1, <2>2 DEF SettlePromise, Verdicts
<1>17. CASE EndDrain
  BY <1>17 DEF EndDrain
<1>18. CASE EndMicrotasks
  BY <1>18 DEF EndMicrotasks
<1>19. CASE ReleaseBuffer
  <2>1. Head(releases) \in Buffers /\ Tail(releases) \in Seq(Buffers)
    BY <1>19 DEF ReleaseBuffer
  <2>2. [st |-> "freed", by |-> None] \in NativeBuffer
    BY DEF NativeBuffer
  <2> QED
    BY <1>19, <1>6, <2>1, <2>2 DEF ReleaseBuffer, NativeRelease
<1>20. CASE EndTick
  BY <1>20 DEF EndTick
<1>21. CASE UNCHANGED vars
  BY <1>21 DEF vars
<1> QED
  BY <1>1, <1>2, <1>4, <1>5, <1>7, <1>8, <1>9, <1>10, <1>11, <1>12, <1>13, <1>14,
     <1>15, <1>16, <1>17, <1>18, <1>19, <1>20, <1>21, <1>22, <1>23, <1>24
     DEF Next, Script, Tick, Backend

(* The initial state has the types.                                        *)
LEMMA TypeInit == Init => TypeOK
<1> SUFFICES ASSUME Init PROVE TypeOK
  OBVIOUS
<1>1. native \in [Buffers -> NativeBuffer]
  BY DEF Init, NativeBuffer
<1>2. settlements \in Seq(Request) /\ batch \in Seq(Prepared) /\ releases \in Seq(Buffers)
  BY DEF Init
<1> QED
  BY <1>1, <1>2 DEF Init, TypeOK, Phases

(* Every variable keeps its type: the fields of BufferState, the queues of *)
(* the environment and the backend's state.                                *)
THEOREM TypeCorrect == Spec => []TypeOK
<1> QED
  BY TypeInit, TypeStep, PTL DEF Spec

----------------------------------------------------------------------------
(* The arithmetic of mapped_ranges_overlap.                                *)

(* What mapped_ranges_overlap decides, for all offsets and sizes a usize   *)
(* holds: it does not depend on which range came first; ranges it lets     *)
(* through share no byte; of two ranges with bytes that end in range it    *)
(* refuses just those that share one; and an empty range is refused just   *)
(* when it lies strictly inside the other.                                 *)
THEOREM OverlapDecided ==
    ASSUME NEW s \in [offset : 0..MaxUsize, size : 0..MaxUsize],
           NEW q \in [offset : 0..MaxUsize, size : 0..MaxUsize]
    PROVE  /\ MappedRangesOverlap(s, q) <=> MappedRangesOverlap(q, s)
           /\ ~MappedRangesOverlap(s, q) => Bytes(s) \cap Bytes(q) = {}
           /\ s.size > 0 /\ q.size > 0 /\ End(s) <= MaxUsize /\ End(q) <= MaxUsize
                => (MappedRangesOverlap(s, q) <=> Bytes(s) \cap Bytes(q) # {})
           /\ s.size = 0 /\ End(q) <= MaxUsize
                => (MappedRangesOverlap(s, q) <=> q.offset < s.offset /\ s.offset < End(q))
<1>1. MaxUsize \in Nat
  BY ConstantsAssumption
<1>2. /\ s.offset \in 0..MaxUsize /\ s.size \in 0..MaxUsize
      /\ q.offset \in 0..MaxUsize /\ q.size \in 0..MaxUsize
  OBVIOUS
<1>3. MappedRangesOverlap(s, q) <=> MappedRangesOverlap(q, s)
  BY <1>1, <1>2 DEF MappedRangesOverlap, End
<1>4. ~MappedRangesOverlap(s, q) => Bytes(s) \cap Bytes(q) = {}
  BY <1>1, <1>2 DEF MappedRangesOverlap, Bytes, End
<1>5. ASSUME s.size > 0, q.size > 0, MappedRangesOverlap(s, q),
             End(s) <= MaxUsize, End(q) <= MaxUsize
      PROVE  Bytes(s) \cap Bytes(q) # {}
  <2> DEFINE byte == IF s.offset >= q.offset THEN s.offset ELSE q.offset
  <2>1. byte \in Bytes(s) /\ byte \in Bytes(q)
    BY <1>1, <1>2, <1>5 DEF MappedRangesOverlap, Bytes, End
  <2> QED
    BY <2>1
<1>6. s.size = 0 /\ End(q) <= MaxUsize
        => (MappedRangesOverlap(s, q) <=> q.offset < s.offset /\ s.offset < End(q))
  BY <1>1, <1>2 DEF MappedRangesOverlap, End
<1> QED
  BY <1>3, <1>4, <1>5, <1>6

----------------------------------------------------------------------------
(* The mapping script sees and the mapping the backend has in force.       *)

(* A map the backend is still working on is what its buffer is pending     *)
(* for; only finalized wrappers have their handle queued for release; and  *)
(* a range is only tracked while its reachable buffer is mapped.           *)
WaitingIsPending ==
    \A f \in futures :
       f.status = "Waiting" => native[f.buffer].st = "pending" /\ native[f.buffer].by = f.call

ReleasedIsFinalized ==
    \A i \in DOMAIN releases : wrapper[releases[i]] = "finalized"

RangesWhileMapped ==
    \A b \in Buffers : ranges[b] # {} => wrapper[b] = "live" /\ mapped[b]

MappingInv ==
    /\ TypeOK
    /\ MappedByBackend
    /\ RangesInForce
    /\ WaitingIsPending
    /\ ReleasedIsFinalized
    /\ RangesWhileMapped

(* The backend's side of a step, whoever takes it: starting a map disturbs *)
(* no mapping in force, and completing maps as aborted leaves only maps    *)
(* the backend is still working on elsewhere.                              *)
LEMMA NativeMapAsyncKeeps ==
    ASSUME MappingInv,
           NEW b \in Buffers, NEW c \in Calls, NativeMapAsync(b, c),
           UNCHANGED <<mapped, ranges, wrapper>>
    PROVE  MappedByBackend' /\ RangesInForce' /\ WaitingIsPending' /\ RangesWhileMapped'
<1> USE DEF MappingInv, TypeOK
<1>1. CASE UNCHANGED native
  <2>1. \A f \in futures' : f \in futures \/ f.status # "Waiting" \/ native[b].st = "unmapped"
    BY DEF NativeMapAsync
  <2>2. native[b].st # "unmapped" \/ native' # native
    BY DEF NativeMapAsync
  <2> QED
    BY <1>1, <2>1, <2>2 DEF MappedByBackend, RangesInForce, WaitingIsPending, RangesWhileMapped
<1>2. CASE native[b].st = "unmapped"
  <2>1. /\ native' = [native EXCEPT ![b] = [st |-> "pending", by |-> c]]
        /\ futures' = futures \cup {[call |-> c, buffer |-> b, status |-> "Waiting"]}
    BY <1>2 DEF NativeMapAsync
  <2>2. ~(wrapper[b] = "live" /\ mapped[b])
    BY <1>2 DEF MappedByBackend
  <2>7. ranges[b] = {}
    BY <2>2 DEF RangesWhileMapped
  <2>8. \A d \in Buffers : d # b => native'[d] = native[d]
    BY <2>1
  <2>9. native'[b] = [st |-> "pending", by |-> c]
    BY <2>1
  <2>3. \A f \in futures : f.status = "Waiting" => f.buffer # b
    BY <1>2 DEF WaitingIsPending
  <2>4. \A f \in futures : f.buffer \in Buffers
    BY DEF Future
  <2>5. MappedByBackend' /\ RangesInForce' /\ RangesWhileMapped'
    BY <2>2, <2>7, <2>8 DEF MappedByBackend, RangesInForce, RangesWhileMapped
  <2>6. WaitingIsPending'
    BY <2>1, <2>3, <2>4, <2>8, <2>9 DEF WaitingIsPending
  <2> QED
    BY <2>5, <2>6
<1> QED
  BY <1>1, <1>2 DEF NativeMapAsync

LEMMA AbortedWaits ==
    ASSUME TypeOK, NEW bs \in SUBSET Buffers, NEW f \in Aborted(futures, bs),
           f.status = "Waiting"
    PROVE  f \in futures /\ f.buffer \notin bs
<1>1. PICK g \in futures :
         f = IF g.buffer \in bs /\ g.status = "Waiting" THEN [g EXCEPT !.status = "Aborted"]
                                                       ELSE g
  BY DEF Aborted
<1>2. [g EXCEPT !.status = "Aborted"].status = "Aborted"
  BY DEF TypeOK, Future
<1> QED
  BY <1>1, <1>2

(* One step keeps the invariant: case by case, what moves is either the    *)
(* backend's mapping together with the binding's, or neither.              *)
LEMMA MappingStep == MappingInv /\ [Next]_vars => MappingInv'
<1> SUFFICES ASSUME MappingInv, [Next]_vars PROVE MappingInv'
  OBVIOUS
<1>0. TypeOK /\ TypeOK'
  BY TypeStep DEF MappingInv
<1> DEFINE Core == /\ MappedByBackend /\ RangesInForce /\ WaitingIsPending
                   /\ ReleasedIsFinalized /\ RangesWhileMapped
<1>c. Core
  BY DEF MappingInv
<1> SUFFICES Core'
  BY <1>0 DEF MappingInv
<1> USE DEF bufferVars, queueVars, nativeVars
<1>1. ASSUME UNCHANGED <<mapped, ranges, wrapper, releases, native, futures>> PROVE Core'
  BY <1>1, <1>c DEF MappedByBackend, RangesInForce, WaitingIsPending, ReleasedIsFinalized,
                    RangesWhileMapped
<1>2. ASSUME NEW b \in Buffers, NEW c \in Calls, MapAsyncAccepted(b, c)
      PROVE  Core'
  <2>1. CASE UNCHANGED nativeVars
    BY <2>1, <1>2, <1>1 DEF MapAsyncAccepted
  <2>2. CASE NativeMapAsync(b, c)
    BY <2>2, <1>2, <1>c, NativeMapAsyncKeeps DEF MapAsyncAccepted, ReleasedIsFinalized
  <2> QED
    BY <1>2, <2>1, <2>2 DEF MapAsyncAccepted
<1>3. ASSUME NEW b \in Buffers, NEW s \in Spans, GetMappedRange(b, s)
      PROVE  Core'
  <2>1. \A r \in ranges'[b] : r \in ranges[b] \/ r = [span |-> s, by |-> native[b].by]
    BY <1>3, <1>0 DEF GetMappedRange, TypeOK
  <2>2. \A d \in Buffers : d # b => ranges'[d] = ranges[d]
    BY <1>3, <1>0 DEF GetMappedRange, TypeOK
  <2>3. native[b].st = "mapped" /\ UNCHANGED native
    BY <1>3 DEF GetMappedRange
  <2>4. RangesInForce'
    BY <1>3, <1>c, <2>1, <2>2, <2>3 DEF GetMappedRange, RangesInForce
  <2>5. RangesWhileMapped'
    BY <1>3, <1>c, <2>2 DEF GetMappedRange, RangesWhileMapped, CanCall
  <2>6. MappedByBackend' /\ WaitingIsPending' /\ ReleasedIsFinalized'
    BY <1>3, <1>c DEF GetMappedRange, MappedByBackend, WaitingIsPending, ReleasedIsFinalized
  <2> QED
    BY <2>4, <2>5, <2>6
<1>4. ASSUME NEW b \in Buffers, Unmap(b)
      PROVE  Core'
  <2>1. /\ mapped' = [mapped EXCEPT ![b] = FALSE]
        /\ UNCHANGED <<wrapper, releases>>
        /\ \A d \in Buffers : d # b => ranges'[d] = ranges[d] /\ native'[d] = native[d]
        /\ ranges'[b] = {}
    BY <1>4, <1>0, <1>c DEF Unmap, NativeUnmap, RangesWhileMapped, TypeOK
  <2>2. WaitingIsPending'
    <3>1. CASE NativeUnmap(b)
      <4>1. \A f \in futures' : f.status = "Waiting" => f \in futures /\ f.buffer # b
        BY <3>1, <1>0, AbortedWaits DEF NativeUnmap
      <4>2. \A f \in futures : f.buffer \in Buffers
        BY <1>0 DEF TypeOK, Future
      <4> QED
        BY <1>c, <2>1, <4>1, <4>2 DEF WaitingIsPending
    <3>2. CASE UNCHANGED nativeVars
      BY <3>2, <1>c DEF WaitingIsPending
    <3> QED
      BY <1>4, <3>1, <3>2 DEF Unmap
  <2>3. ~mapped'[b] /\ \A d \in Buffers : d # b => mapped'[d] = mapped[d]
    BY <2>1, <1>0 DEF TypeOK
  <2>4. RangesInForce' /\ RangesWhileMapped'
    BY <1>c, <2>1, <2>3 DEF RangesInForce, RangesWhileMapped
  <2>5. MappedByBackend' /\ ReleasedIsFinalized'
    BY <1>c, <2>1, <2>3 DEF MappedByBackend, ReleasedIsFinalized
  <2> QED
    BY <2>2, <2>4, <2>5
<1>5. ASSUME NEW b \in Buffers, UnmapDetachFails(b)
      PROVE  Core'
  BY <1>5, <1>0, <1>c DEF UnmapDetachFails, MappedByBackend, RangesInForce, WaitingIsPending,
                          ReleasedIsFinalized, RangesWhileMapped, TypeOK
<1>6. ASSUME NEW bs \in SUBSET Buffers, NativeDestroy(bs),
             UNCHANGED <<wrapper, releases>>,
             mapped' \in [Buffers -> BOOLEAN],
             \A b \in Buffers : mapped'[b] => mapped[b] /\ (b \in bs => wrapper[b] # "live"),
             \A b \in Buffers : ranges'[b] = IF b \in bs THEN {} ELSE ranges[b],
             \A b \in Buffers \ bs : mapped'[b] = mapped[b]
      PROVE  Core'
  <2>1. \A b \in Buffers \ bs : native'[b] = native[b]
    BY <1>6 DEF NativeDestroy
  <2>2. \A f \in futures' : f.status = "Waiting" =>
           f \in futures /\ f.buffer \in Buffers \ bs
    BY <1>6, <1>0, AbortedWaits DEF NativeDestroy, TypeOK, Future
  <2>3. WaitingIsPending'
    BY <1>c, <2>1, <2>2 DEF WaitingIsPending
  <2> QED
    BY <1>6, <1>c, <2>1, <2>3 DEF MappedByBackend, RangesInForce, ReleasedIsFinalized,
                                  RangesWhileMapped
<1>7. ASSUME NEW b \in Buffers, Destroy(b)
      PROVE  Core'
  <2>1. CASE NativeDestroy({b}) /\ mapped' = [mapped EXCEPT ![b] = FALSE]
    <3>1. UNCHANGED <<wrapper, releases>> /\ ranges' = [ranges EXCEPT ![b] = {}]
      BY <1>7 DEF Destroy
    <3>2. mapped' \in [Buffers -> BOOLEAN] /\ ~mapped'[b]
      BY <2>1, <1>0 DEF TypeOK
    <3>3. \A d \in Buffers \ {b} : mapped'[d] = mapped[d]
      BY <2>1, <1>0 DEF TypeOK
    <3>4. \A d \in Buffers : ranges'[d] = IF d \in {b} THEN {} ELSE ranges[d]
      BY <3>1, <1>0 DEF TypeOK
    <3>5. \A d \in Buffers : mapped'[d] => mapped[d] /\ (d \in {b} => wrapper[d] # "live")
      BY <3>2, <3>3
    <3> QED
      BY <2>1, <3>1, <3>2, <3>3, <3>4, <3>5, <1>6
  <2>2. CASE UNCHANGED <<destroyed, mapped, nativeVars>>
    BY <2>2, <1>7, <1>0, <1>c DEF Destroy, MappedByBackend, RangesInForce, WaitingIsPending,
                            ReleasedIsFinalized, RangesWhileMapped, TypeOK
  <2> QED
    BY <1>7, <2>1, <2>2 DEF Destroy
<1>8. CASE DeviceDestroy
  <2>1. \A b \in Buffers : ranges'[b] = {}
    BY <1>8, <1>c DEF DeviceDestroy, LiveState, RangesWhileMapped
  <2>2. CASE UNCHANGED <<mapped, nativeVars>>
    BY <2>1, <2>2, <1>8, <1>c DEF DeviceDestroy, MappedByBackend, RangesInForce, WaitingIsPending,
                            ReleasedIsFinalized, RangesWhileMapped
  <2>3. CASE NativeDestroy(Buffers) /\ mapped' = [b \in Buffers |-> mapped[b] /\ ~LiveState(b)]
    <3>1. \A b \in Buffers : wrapper[b] = "live" => LiveState(b)
      BY DEF LiveState
    <3>2. \A b \in Buffers : mapped'[b] => mapped[b] /\ wrapper[b] # "live"
      BY <2>3, <3>1
    <3> QED
      BY <2>1, <2>3, <3>2, <1>8, <1>6, <1>0 DEF DeviceDestroy, TypeOK
  <2> QED
    BY <1>8, <2>2, <2>3 DEF DeviceDestroy
<1>9. ASSUME NEW b \in Buffers, Finalize(b)
      PROVE  Core'
  <2>1. \A i \in DOMAIN releases' :
           \/ i \in DOMAIN releases /\ releases'[i] = releases[i]
           \/ releases'[i] = b
    BY <1>9, <1>0 DEF Finalize, TypeOK
  <2>2. \A i \in DOMAIN releases : releases[i] \in Buffers
    BY <1>0 DEF TypeOK
  <2>3. ReleasedIsFinalized'
    BY <1>9, <1>0, <1>c, <2>1, <2>2 DEF Finalize, ReleasedIsFinalized, TypeOK
  <2> QED
    BY <1>9, <1>0, <1>c, <2>3 DEF Finalize, MappedByBackend, RangesInForce, WaitingIsPending,
                            RangesWhileMapped, TypeOK
<1>10. ASSUME NEW f \in futures, NEW status \in {"Success", "Error", "Aborted"},
              CompleteMap(f, status)
       PROVE  Core'
  <2> DEFINE b == f.buffer
  <2>1. b \in Buffers /\ f.call \in Calls
    BY <1>0 DEF TypeOK, Future
  <2>2. /\ UNCHANGED <<ranges, wrapper, releases>>
        /\ futures' = futures \ {f}
        /\ \A d \in Buffers : d # b => mapped'[d] = mapped[d] /\ native'[d] = native[d]
        /\ mapped'[b] => mapped[b] \/ status = "Success"
    BY <1>10, <1>0, <2>1 DEF CompleteMap, MapCallback, TypeOK
  <2>3. CASE f.status = "Waiting"
    <3>1. native[b].st = "pending" /\ native[b].by = f.call
      BY <2>3, <1>c DEF WaitingIsPending
    <3>2. ranges[b] = {} /\ ~(wrapper[b] = "live" /\ mapped[b])
      BY <3>1, <2>1, <1>c DEF MappedByBackend, RangesWhileMapped
    <3>3. status = "Success" => native'[b].st = "mapped"
      BY <1>10, <1>0, <2>1, <2>3 DEF CompleteMap, TypeOK
    <3>4. \A g \in futures' : g.status = "Waiting" => g.buffer # b
      <4>1. SUFFICES ASSUME NEW g \in futures, g.status = "Waiting", g.buffer = b
                     PROVE  g = f
        BY <2>2
      <4>2. g.call = f.call
        BY <4>1, <3>1, <1>c DEF WaitingIsPending
      <4>3. g \in Future /\ f \in Future
        BY <4>1, <1>0 DEF TypeOK
      <4> QED
        BY <4>1, <4>2, <2>3, <4>3 DEF Future
    <3>5. \A g \in futures : g.buffer \in Buffers
      BY <1>0 DEF TypeOK, Future
    <3>6. WaitingIsPending'
      BY <1>c, <2>2, <3>4, <3>5 DEF WaitingIsPending
    <3>7. MappedByBackend' /\ RangesInForce'
      BY <1>c, <2>1, <2>2, <3>2, <3>3 DEF MappedByBackend, RangesInForce
    <3>8. RangesWhileMapped'
      BY <1>c, <2>1, <2>2, <3>2 DEF RangesWhileMapped
    <3> QED
      BY <1>c, <2>2, <3>6, <3>7, <3>8 DEF ReleasedIsFinalized
  <2>4. CASE f.status # "Waiting"
    <3>1. f.status = status /\ UNCHANGED native /\ status # "Success"
      BY <2>4, <1>10, <1>0 DEF CompleteMap, TypeOK, Future
    <3>2. UNCHANGED mapped
      BY <3>1, <1>10, <1>0 DEF CompleteMap, MapCallback, TypeOK
    <3> QED
      BY <1>c, <2>2, <3>1, <3>2 DEF MappedByBackend, RangesInForce, WaitingIsPending,
                            ReleasedIsFinalized, RangesWhileMapped
  <2> QED
    BY <2>3, <2>4
<1>11. CASE StartDeferredMap
  <2>1. Head(settlements).buffer \in Buffers /\ Head(settlements).call \in Calls
    <3>1. Head(settlements) \in Request
      BY <1>11, <1>0 DEF StartDeferredMap, TypeOK
    <3> QED
      BY <3>1 DEF Request
  <2> QED
    BY <1>11, <1>c, <2>1, NativeMapAsyncKeeps DEF StartDeferredMap, ReleasedIsFinalized
<1>12. CASE ReleaseBuffer
  <2> DEFINE b == Head(releases)
  <2>1. b \in Buffers /\ wrapper[b] = "finalized"
    BY <1>12, <1>0, <1>c DEF ReleaseBuffer, ReleasedIsFinalized, TypeOK
  <2>2. \A i \in DOMAIN releases' : i + 1 \in DOMAIN releases /\ releases'[i] = releases[i + 1]
    BY <1>12, <1>0 DEF ReleaseBuffer, TypeOK
  <2>3. ReleasedIsFinalized'
    BY <1>12, <1>c, <2>2 DEF ReleaseBuffer, ReleasedIsFinalized
  <2>4. \A d \in Buffers : d # b => native'[d] = native[d]
    BY <1>12, <1>0, <2>1 DEF ReleaseBuffer, NativeRelease, TypeOK
  <2>5. \A f \in futures' : f.status = "Waiting" => f \in futures /\ f.buffer \in Buffers \ {b}
    <3>1. futures' = Aborted(futures, {b})
      BY <1>12 DEF ReleaseBuffer, NativeRelease
    <3>2. \A f \in futures' : f.status = "Waiting" => f \in futures /\ f.buffer \notin {b}
      BY <3>1, <2>1, <1>0, AbortedWaits
    <3>3. \A f \in futures : f.buffer \in Buffers
      BY <1>0 DEF TypeOK, Future
    <3> QED
      BY <3>2, <3>3
  <2>6. WaitingIsPending'
    BY <1>c, <2>4, <2>5 DEF WaitingIsPending
  <2> QED
    BY <1>12, <1>c, <2>1, <2>3, <2>4, <2>6 DEF ReleaseBuffer, MappedByBackend, RangesInForce,
                                               RangesWhileMapped
<1>13. CASE \/ BeginTick \/ EndEvents \/ PrepareSettlement \/ EndPrepare \/ SettlePromise
            \/ EndDrain \/ EndMicrotasks \/ EndTick
  BY <1>13, <1>1 DEF BeginTick, EndEvents, PrepareSettlement, EndPrepare, SettlePromise,
                     EndDrain, EndMicrotasks, EndTick
<1>14. ASSUME NEW b \in Buffers, NEW c \in Calls,
              MapAsyncDestroyed(b, c) \/ MapAsyncBusy(b, c)
       PROVE  Core'
  BY <1>14, <1>1 DEF MapAsyncDestroyed, MapAsyncBusy
<1>15. CASE UNCHANGED vars
  BY <1>15, <1>1 DEF vars
<1> QED
  BY <1>2, <1>3, <1>4, <1>5, <1>7, <1>8, <1>9, <1>10, <1>11, <1>12, <1>13, <1>14, <1>15
     DEF Next, Script, Tick, Backend

(* Only getMappedRange tracks a range, and the spans that are tracked are   *)
(* exactly what it compares a new one with.                                *)
LEMMA RangesShrink ==
    ASSUME TypeOK, [Next]_vars, ~\E b \in Buffers, s \in Spans : GetMappedRange(b, s)
    PROVE  \A b \in Buffers : ranges'[b] \in SUBSET ranges[b]
<1> USE DEF TypeOK, bufferVars, queueVars, nativeVars
<1>1. ASSUME NEW b \in Buffers, NEW c \in Calls,
             MapAsyncDestroyed(b, c) \/ MapAsyncBusy(b, c) \/ MapAsyncAccepted(b, c)
      PROVE  UNCHANGED ranges
  BY <1>1 DEF MapAsyncDestroyed, MapAsyncBusy, MapAsyncAccepted
<1>2. ASSUME NEW b \in Buffers, Unmap(b) \/ UnmapDetachFails(b) \/ Destroy(b) \/ Finalize(b)
      PROVE  \A d \in Buffers : ranges'[d] \in SUBSET ranges[d]
  BY <1>2 DEF Unmap, UnmapDetachFails, Destroy, Finalize
<1>3. DeviceDestroy => \A d \in Buffers : ranges'[d] \in SUBSET ranges[d]
  BY DEF DeviceDestroy
<1>4. Tick \/ Backend \/ UNCHANGED vars => UNCHANGED ranges
  BY DEF Tick, BeginTick, EndEvents, StartDeferredMap, PrepareSettlement, EndPrepare,
         SettlePromise, EndDrain, EndMicrotasks, ReleaseBuffer, EndTick, Backend, CompleteMap, vars
<1> QED
  BY <1>1, <1>2, <1>3, <1>4 DEF Next, Script

LEMMA ApartStep == TypeOK /\ RangesApart /\ [Next]_vars => RangesApart'
<1> SUFFICES ASSUME TypeOK, RangesApart, [Next]_vars PROVE RangesApart'
  OBVIOUS
<1>1. CASE ~\E b \in Buffers, s \in Spans : GetMappedRange(b, s)
  BY <1>1, RangesShrink DEF RangesApart
<1>2. ASSUME NEW b \in Buffers, NEW s \in Spans, GetMappedRange(b, s)
      PROVE  RangesApart'
  <2>1. /\ \A d \in Buffers : d # b => ranges'[d] = ranges[d]
        /\ ranges'[b] = ranges[b] \cup {[span |-> s, by |-> native[b].by]}
    BY <1>2 DEF GetMappedRange, TypeOK
  <2>2. ASSUME NEW r \in ranges[b]
        PROVE  Bytes(s) \cap Bytes(r.span) = {}
    <3>1. r.span \in Spans
      BY DEF TypeOK, Range
    <3>2. ~MappedRangesOverlap(s, r.span)
      BY <1>2 DEF GetMappedRange
    <3> QED
      BY <3>1, <3>2, OverlapDecided, ConstantsAssumption
  <2>3. ASSUME NEW r \in ranges'[b], NEW q \in ranges'[b], r # q
        PROVE  Bytes(r.span) \cap Bytes(q.span) = {}
    <3> DEFINE new == [span |-> s, by |-> native[b].by]
    <3>1. /\ r = new \/ r \in ranges[b]
          /\ q = new \/ q \in ranges[b]
          /\ new.span = s
      BY <2>1
    <3> HIDE DEF new
    <3>2. CASE r \in ranges[b] /\ q \in ranges[b]
      BY <2>3, <3>2 DEF RangesApart
    <3>3. CASE r = new /\ q \in ranges[b]
      BY <2>2, <3>1, <3>3
    <3>4. CASE q = new /\ r \in ranges[b]
      <4>1. Bytes(s) \cap Bytes(r.span) = {}
        BY <2>2, <3>4
      <4> QED
        BY <3>1, <3>4, <4>1
    <3> QED
      BY <2>3, <3>1, <3>2, <3>3, <3>4
  <2> QED
    BY <2>1, <2>3 DEF RangesApart
<1> QED
  BY <1>1, <1>2

(* A reachable buffer that script sees mapped is mapped by the backend,    *)
(* every tracked range points into the mapping in force, and no byte is in *)
(* two of them.                                                            *)
THEOREM MappingAgreement == Spec => []MappedAgrees
<1>1. Init => MappingInv
  <2> SUFFICES ASSUME Init PROVE MappingInv
    OBVIOUS
  <2>1. TypeOK
    BY TypeInit
  <2> QED
    BY <2>1 DEF Init, MappingInv, MappedByBackend, RangesInForce, WaitingIsPending,
                ReleasedIsFinalized, RangesWhileMapped
<1>2. Init => RangesApart
  BY DEF Init, RangesApart
<1>3. MappingInv /\ RangesApart /\ [Next]_vars => RangesApart'
  BY ApartStep DEF MappingInv
<1>4. MappingInv /\ RangesApart => MappedAgrees
  BY DEF MappingInv, MappedAgrees
<1> QED
  BY <1>1, <1>2, <1>3, <1>4, MappingStep, PTL DEF Spec

----------------------------------------------------------------------------
(* The contract of mapAsync.  Each call is in one place at a time: asked   *)
(* for by a buffer, with the backend, or recorded: queued, or prepared.     *)

(* A call's request is one record of the queues or one future, never both, *)
(* and only while its promise is unsettled.                                *)
OnePlace ==
    /\ \A i, j \in DOMAIN Recorded : Recorded[i].call = Recorded[j].call => i = j
    /\ \A f, g \in futures : f.call = g.call => f = g
    /\ \A f \in futures, i \in DOMAIN Recorded : f.call # Recorded[i].call
    /\ \A f \in futures : promise[f.call] = "pending"
    /\ \A i \in DOMAIN Recorded : promise[Recorded[i].call] = "pending"

(* What a buffer is pending for is a call on it that has no verdict yet.   *)
PendingIsAsked ==
    \A b \in Buffers : pendingMap[b] # None =>
       /\ ~mapped[b]
       /\ promise[pendingMap[b]] = "pending"
       /\ \A d \in Buffers : pendingMap[d] = pendingMap[b] => d = b
       /\ \A f \in futures : f.call = pendingMap[b] => f.buffer = b
       /\ \A i \in DOMAIN Recorded : Recorded[i].call = pendingMap[b] =>
             Recorded[i].kind = "StartMap" /\ Recorded[i].buffer = b

(* A verdict that the map was granted is recorded only between             *)
(* ProcessEvents and the end of the drain, and the mapping is in force     *)
(* until script, which the drain may run, takes it back.                   *)
GrantedInForce ==
    \A i \in DOMAIN Recorded :
       Recorded[i].kind = "Success" /\ Recorded[i].call \notin takenBack =>
          /\ mapped[Recorded[i].buffer]
          /\ native[Recorded[i].buffer] = [st |-> "mapped", by |-> Recorded[i].call]

GrantedInDrain ==
    /\ \A i \in DOMAIN settlements :
          settlements[i].kind = "Success" => phase \in {"events", "drain"}
    /\ batch # <<>> => phase \in {"drain", "settle"}

CallInv == OnePlace /\ PendingIsAsked /\ GrantedInForce /\ GrantedInDrain

(* What the steps do to the records, prepared and queued taken together.   *)
LEMMA RecordedType ==
    ASSUME TypeOK
    PROVE  /\ Recorded \in Seq(Request)
           /\ \A i \in DOMAIN batch : i \in DOMAIN Recorded /\ Recorded[i] = batch[i]
           /\ \A i \in DOMAIN settlements :
                 Len(batch) + i \in DOMAIN Recorded /\ Recorded[Len(batch) + i] = settlements[i]
           /\ \A i \in DOMAIN Recorded :
                 \/ i \in DOMAIN batch /\ Recorded[i] = batch[i]
                 \/ i - Len(batch) \in DOMAIN settlements /\ Recorded[i] = settlements[i - Len(batch)]
<1>1. batch \in Seq(Request) /\ settlements \in Seq(Request)
  <2>1. Prepared \subseteq Request
    BY DEF Prepared, Request
  <2> QED
    BY <2>1 DEF TypeOK
<1>2. /\ Recorded \in Seq(Request)
      /\ Len(Recorded) = Len(batch) + Len(settlements)
  BY <1>1 DEF Recorded
<1>3. \A i \in 1 .. (Len(batch) + Len(settlements)) :
         Recorded[i] = IF i <= Len(batch) THEN batch[i] ELSE settlements[i - Len(batch)]
  BY <1>1 DEF Recorded
<1>4. /\ DOMAIN Recorded = 1 .. (Len(batch) + Len(settlements))
      /\ DOMAIN batch = 1 .. Len(batch) /\ Len(batch) \in Nat
      /\ DOMAIN settlements = 1 .. Len(settlements) /\ Len(settlements) \in Nat
  BY <1>1, <1>2
<1> QED
  BY <1>2, <1>3, <1>4

LEMMA RecordedAppend ==
    ASSUME TypeOK, NEW r \in Request, settlements' = Append(settlements, r), UNCHANGED batch
    PROVE  Recorded' = Append(Recorded, r)
<1>1. batch \in Seq(Request) /\ settlements \in Seq(Request)
  <2>1. Prepared \subseteq Request
    BY DEF Prepared, Request
  <2> QED
    BY <2>1 DEF TypeOK
<1> QED
  BY <1>1 DEF Recorded

LEMMA RecordedEnqueue ==
    ASSUME TypeOK, NEW kind \in {"StartMap"} \cup Verdicts, NEW b \in Buffers, NEW c \in Calls,
           Enqueue(kind, b, c), UNCHANGED batch
    PROVE  Recorded' = Append(Recorded, [kind |-> kind, call |-> c, buffer |-> b])
<1>1. [kind |-> kind, call |-> c, buffer |-> b] \in Request
  BY DEF Request
<1> QED
  BY <1>1, RecordedAppend DEF Enqueue

(* A record that is prepared stays where it is in the order.               *)
LEMMA RecordedMove ==
    ASSUME TypeOK, settlements # <<>>, settlements' = Tail(settlements),
           batch' = Append(batch, Head(settlements))
    PROVE  Recorded' = Recorded
<1>1. batch \in Seq(Request) /\ settlements \in Seq(Request)
  <2>1. Prepared \subseteq Request
    BY DEF Prepared, Request
  <2> QED
    BY <2>1 DEF TypeOK
<1> QED
  BY <1>1 DEF Recorded

LEMMA RecordedTail ==
    ASSUME TypeOK, batch # <<>>, batch' = Tail(batch), UNCHANGED settlements
    PROVE  Recorded # <<>> /\ Recorded' = Tail(Recorded) /\ Head(Recorded) = Head(batch)
<1>1. batch \in Seq(Request) /\ settlements \in Seq(Request)
  <2>1. Prepared \subseteq Request
    BY DEF Prepared, Request
  <2> QED
    BY <2>1 DEF TypeOK
<1> QED
  BY <1>1 DEF Recorded

(* A deferred start is taken from the middle: behind what is prepared.     *)
LEMMA RecordedStart ==
    ASSUME TypeOK, settlements # <<>>, settlements' = Tail(settlements), UNCHANGED batch
    PROVE  \E k \in DOMAIN Recorded :
              /\ Recorded[k] = Head(settlements)
              /\ \A i \in DOMAIN Recorded' :
                    \E j \in DOMAIN Recorded \ {k} :
                       j = (IF i < k THEN i ELSE i + 1) /\ Recorded'[i] = Recorded[j]
              /\ \A j \in DOMAIN Recorded \ {k} :
                    \E i \in DOMAIN Recorded' : Recorded'[i] = Recorded[j]
              /\ DOMAIN Recorded' \subseteq Nat
<1>1. batch \in Seq(Request) /\ settlements \in Seq(Request)
  <2>1. Prepared \subseteq Request
    BY DEF Prepared, Request
  <2> QED
    BY <2>1 DEF TypeOK
<1> DEFINE m == Len(batch)  n == Len(settlements)  k == m + 1
<1>2. m \in Nat /\ n \in Nat \ {0} /\ Recorded' = batch \o Tail(settlements)
  BY <1>1 DEF Recorded
<1>3. /\ DOMAIN Recorded = 1 .. (m + n)
      /\ \A i \in 1 .. (m + n) : Recorded[i] = IF i <= m THEN batch[i] ELSE settlements[i - m]
  BY <1>1 DEF Recorded
<1>4. /\ Tail(settlements) \in Seq(Request) /\ Len(Tail(settlements)) = n - 1
      /\ \A i \in 1 .. (n - 1) : Tail(settlements)[i] = settlements[i + 1]
  BY <1>1
<1>5. /\ DOMAIN Recorded' = 1 .. (m + n - 1)
      /\ \A i \in 1 .. (m + n - 1) :
            Recorded'[i] = IF i <= m THEN batch[i] ELSE Tail(settlements)[i - m]
  BY <1>1, <1>2, <1>4
<1>6. \A i \in 1 .. (m + n - 1) : Recorded'[i] = IF i < k THEN Recorded[i] ELSE Recorded[i + 1]
  BY <1>2, <1>3, <1>4, <1>5
<1>7. k \in DOMAIN Recorded /\ Recorded[k] = Head(settlements)
  BY <1>1, <1>2, <1>3
<1> HIDE DEF k
<1>8. k \in 1 .. (m + n)
  BY <1>3, <1>7
<1>9. ASSUME NEW i \in DOMAIN Recorded'
      PROVE  \E j \in DOMAIN Recorded \ {k} :
                j = (IF i < k THEN i ELSE i + 1) /\ Recorded'[i] = Recorded[j]
  <2>1. i \in 1 .. (m + n - 1) /\ k \in Nat /\ m \in Nat /\ n \in Nat
    BY <1>2, <1>5, <1>8
  <2>2. CASE i < k
    <3>1. i \in 1 .. (m + n) /\ i # k
      BY <2>1, <2>2
    <3>2. Recorded'[i] = Recorded[i] /\ i \in DOMAIN Recorded \ {k}
      BY <1>3, <1>6, <2>1, <2>2, <3>1
    <3> QED
      BY <2>2, <3>2
  <2>3. CASE ~(i < k)
    <3>1. i + 1 \in 1 .. (m + n) /\ i + 1 # k
      BY <2>1, <2>3
    <3>2. Recorded'[i] = Recorded[i + 1] /\ i + 1 \in DOMAIN Recorded \ {k}
      BY <1>3, <1>6, <2>1, <2>3, <3>1
    <3> QED
      BY <2>3, <3>2
  <2> QED
    BY <2>2, <2>3
<1>10. ASSUME NEW j \in DOMAIN Recorded \ {k}
       PROVE  \E i \in DOMAIN Recorded' : Recorded'[i] = Recorded[j]
  <2>1. CASE j < k
    <3>1. j \in 1 .. (m + n - 1)
      BY <1>2, <1>3, <1>8, <2>1
    <3> QED
      BY <1>5, <1>6, <2>1, <3>1
  <2>2. CASE j > k
    <3>1. j - 1 \in 1 .. (m + n - 1) /\ ~(j - 1 < k) /\ j - 1 + 1 = j
      BY <1>2, <1>3, <1>8, <2>2
    <3> QED
      BY <1>5, <1>6, <3>1
  <2> QED
    BY <1>3, <1>8, <2>1, <2>2
<1>11. DOMAIN Recorded' \subseteq Nat
  BY <1>2, <1>5
<1> QED
  BY <1>7, <1>9, <1>10, <1>11

(* What each action does to the records, prepared and queued together.     *)
LEMMA RecordedSteps ==
    ASSUME TypeOK
    PROVE  /\ \A b \in Buffers, c \in Calls :
                 /\ MapAsyncDestroyed(b, c) =>
                       Recorded' = Append(Recorded, [kind |-> "OperationError", call |-> c, buffer |-> b])
                 /\ MapAsyncBusy(b, c) => Recorded' = Recorded
                 /\ MapAsyncAccepted(b, c) =>
                       \/ Recorded' = Recorded /\ NativeMapAsync(b, c)
                       \/ /\ Recorded' = Append(Recorded, [kind |-> "StartMap", call |-> c, buffer |-> b])
                          /\ UNCHANGED nativeVars
           /\ \A b \in Buffers :
                 \/ Unmap(b) \/ UnmapDetachFails(b) \/ Destroy(b) \/ Finalize(b)
                 \/ \E s \in Spans : GetMappedRange(b, s)
                 => Recorded' = Recorded
           /\ \/ DeviceDestroy \/ BeginTick \/ EndEvents \/ PrepareSettlement \/ EndPrepare
              \/ EndDrain \/ EndMicrotasks \/ ReleaseBuffer \/ EndTick \/ UNCHANGED vars
              => Recorded' = Recorded
           /\ \A f \in futures, status \in {"Success", "Error", "Aborted"} :
                 CompleteMap(f, status) =>
                    Recorded' = Append(Recorded,
                       [kind |-> Settlement(pendingMap[f.buffer] # f.call, status),
                        call |-> f.call, buffer |-> f.buffer])
           /\ SettlePromise =>
                 Recorded # <<>> /\ Recorded' = Tail(Recorded) /\ Head(Recorded) = Head(batch)
<1>1. UNCHANGED <<settlements, batch>> => Recorded' = Recorded
  BY DEF Recorded
<1>2. ASSUME NEW b \in Buffers, NEW c \in Calls, MapAsyncDestroyed(b, c)
      PROVE  Recorded' = Append(Recorded, [kind |-> "OperationError", call |-> c, buffer |-> b])
  BY <1>2, RecordedEnqueue DEF MapAsyncDestroyed, Verdicts
<1>3. ASSUME NEW b \in Buffers, NEW c \in Calls, MapAsyncBusy(b, c)
      PROVE  Recorded' = Recorded
  BY <1>1, <1>3 DEF MapAsyncBusy, queueVars
<1>4. ASSUME NEW b \in Buffers, NEW c \in Calls, MapAsyncAccepted(b, c)
      PROVE  \/ Recorded' = Recorded /\ NativeMapAsync(b, c)
             \/ /\ Recorded' = Append(Recorded, [kind |-> "StartMap", call |-> c, buffer |-> b])
                /\ UNCHANGED nativeVars
  <2>1. CASE Enqueue("StartMap", b, c) /\ UNCHANGED nativeVars
    BY <1>4, <2>1, RecordedEnqueue DEF MapAsyncAccepted
  <2>2. CASE NativeMapAsync(b, c) /\ UNCHANGED settlements
    BY <1>1, <1>4, <2>2 DEF MapAsyncAccepted
  <2> QED
    BY <1>4, <2>1, <2>2 DEF MapAsyncAccepted
<1>5. ASSUME NEW b \in Buffers,
             \/ Unmap(b) \/ UnmapDetachFails(b) \/ Destroy(b) \/ Finalize(b)
             \/ \E s \in Spans : GetMappedRange(b, s)
      PROVE  Recorded' = Recorded
  BY <1>1, <1>5 DEF Unmap, UnmapDetachFails, Destroy, Finalize, GetMappedRange, queueVars
<1>6. ASSUME DeviceDestroy \/ BeginTick \/ EndEvents \/ EndPrepare \/ EndDrain \/ EndMicrotasks
             \/ ReleaseBuffer \/ EndTick \/ UNCHANGED vars
      PROVE  Recorded' = Recorded
  BY <1>1, <1>6 DEF DeviceDestroy, BeginTick, EndEvents, EndPrepare, EndDrain, EndMicrotasks,
                    ReleaseBuffer, EndTick, vars, queueVars
<1>7. PrepareSettlement => Recorded' = Recorded
  BY RecordedMove DEF PrepareSettlement
<1>8. ASSUME NEW f \in futures, NEW status \in {"Success", "Error", "Aborted"}, CompleteMap(f, status)
      PROVE  Recorded' = Append(Recorded,
                [kind |-> Settlement(pendingMap[f.buffer] # f.call, status),
                 call |-> f.call, buffer |-> f.buffer])
  <2>1. f.call \in Calls /\ f.buffer \in Buffers
    BY DEF TypeOK, Future
  <2>2. Settlement(pendingMap[f.buffer] # f.call, status) \in {"StartMap"} \cup Verdicts
    BY DEF Settlement, Verdicts
  <2> QED
    BY <1>8, <2>1, <2>2, RecordedEnqueue DEF CompleteMap, MapCallback
<1>9. SettlePromise =>
         Recorded # <<>> /\ Recorded' = Tail(Recorded) /\ Head(Recorded) = Head(batch)
  BY RecordedTail DEF SettlePromise
<1> QED
  BY <1>2, <1>3, <1>4, <1>5, <1>6, <1>7, <1>8, <1>9

(* What a step that queues a record, or takes one, leaves of the queue.    *)
LEMMA QueueAppend ==
    ASSUME TypeOK, NEW r, Recorded' = Append(Recorded, r)
    PROVE  /\ \A i \in DOMAIN Recorded : i \in DOMAIN Recorded' /\ Recorded'[i] = Recorded[i]
           /\ \A i \in DOMAIN Recorded' : i \notin DOMAIN Recorded => Recorded'[i] = r
           /\ \A i, j \in DOMAIN Recorded' :
                 i \notin DOMAIN Recorded /\ j \notin DOMAIN Recorded => i = j
           /\ \E i \in DOMAIN Recorded' : i \notin DOMAIN Recorded
<1>1. /\ Recorded \in Seq(Request) /\ DOMAIN Recorded = 1 .. Len(Recorded)
      /\ Len(Recorded) \in Nat
  BY RecordedType
<1>2. DOMAIN Recorded' = 1 .. (Len(Recorded) + 1)
  BY <1>1
<1>3. \A i \in DOMAIN Recorded' :
         Recorded'[i] = IF i = Len(Recorded) + 1 THEN r ELSE Recorded[i]
  BY <1>1, <1>2
<1> QED
  BY <1>1, <1>2, <1>3

LEMMA QueueTail ==
    ASSUME TypeOK, Recorded # <<>>, Recorded' = Tail(Recorded)
    PROVE  /\ Head(Recorded) \in Request
           /\ 1 \in DOMAIN Recorded /\ Head(Recorded) = Recorded[1]
           /\ \A i \in DOMAIN Recorded' :
                 i + 1 \in DOMAIN Recorded \ {1} /\ Recorded'[i] = Recorded[i + 1]
           /\ \A i \in DOMAIN Recorded \ {1} :
                 i - 1 \in DOMAIN Recorded' /\ Recorded'[i - 1] = Recorded[i]
           /\ \A i, j \in DOMAIN Recorded' : i + 1 = j + 1 => i = j
<1>1. /\ Recorded \in Seq(Request) /\ DOMAIN Recorded = 1 .. Len(Recorded)
      /\ Len(Recorded) \in Nat \ {0}
  BY RecordedType
<1>2. DOMAIN Recorded' = 1 .. (Len(Recorded) - 1)
  BY <1>1
<1>3. \A i \in 1 .. (Len(Recorded) - 1) : Recorded'[i] = Recorded[i + 1]
  BY <1>1
<1>4. Head(Recorded) \in Request
  BY <1>1
<1> QED
  BY <1>1, <1>2, <1>3, <1>4

(* Completing maps as aborted moves no request.                            *)
LEMMA AbortedMovesNothing ==
    ASSUME TypeOK, NEW bs \in SUBSET Buffers, futures' = Aborted(futures, bs)
    PROVE  /\ \A f \in futures' : \E g \in futures : f.call = g.call /\ f.buffer = g.buffer
           /\ (\A f, g \in futures : f.call = g.call => f = g)
              => \A f, g \in futures' : f.call = g.call => f = g
<1> DEFINE A(g) == IF g.buffer \in bs /\ g.status = "Waiting" THEN [g EXCEPT !.status = "Aborted"] ELSE g
<1>1. \A g \in futures : A(g).call = g.call /\ A(g).buffer = g.buffer
  BY DEF TypeOK, Future
<1>2. \A f \in futures' : \E g \in futures : f = A(g)
  BY DEF Aborted
<1> HIDE DEF A
<1> QED
  BY <1>1, <1>2

(* A fresh call is nowhere yet; a call that settles is nowhere any more.   *)
LEMMA OnePlaceStep == MappingInv /\ CallInv /\ [Next]_vars => OnePlace'
<1> SUFFICES ASSUME MappingInv, CallInv, [Next]_vars PROVE OnePlace'
  OBVIOUS
<1> USE DEF bufferVars, queueVars, nativeVars
<1>1. TypeOK /\ OnePlace
  BY DEF MappingInv, CallInv
<1>2. CASE UNCHANGED <<promise, Recorded, futures>>
  BY <1>1, <1>2 DEF OnePlace
<1>3. \A f \in futures : f.call \in Calls /\ f.buffer \in Buffers
  BY <1>1 DEF TypeOK, Future
<1>4. \A i \in DOMAIN Recorded : Recorded[i].call \in Calls
  <2>1. Recorded \in Seq(Request)
    BY <1>1, RecordedType
  <2>2. \A i \in DOMAIN Recorded : Recorded[i] \in Request
    BY <2>1
  <2> QED
    BY <2>2 DEF Request
<1>5. ASSUME NEW b \in Buffers, NEW c \in Calls,
             MapAsyncDestroyed(b, c) \/ MapAsyncBusy(b, c) \/ MapAsyncAccepted(b, c)
      PROVE  OnePlace'
  <2>1. promise[c] = "unused"
    BY <1>5 DEF MapAsyncDestroyed, MapAsyncBusy, MapAsyncAccepted
  <2>2. /\ \A f \in futures : f.call # c
        /\ \A i \in DOMAIN Recorded : Recorded[i].call # c
    BY <1>1, <2>1 DEF OnePlace
  <2>3. \A d \in Calls \ {c} : promise'[d] = promise[d]
    BY <1>1, <1>5 DEF MapAsyncDestroyed, MapAsyncBusy, MapAsyncAccepted, TypeOK
  <2>4. CASE UNCHANGED <<Recorded, futures>>
    BY <1>1, <1>3, <1>4, <2>2, <2>3, <2>4 DEF OnePlace
  <2>5. CASE UNCHANGED futures /\ promise'[c] = "pending"
             /\ \E r : Recorded' = Append(Recorded, r) /\ r.call = c
    <3>1. PICK r : Recorded' = Append(Recorded, r) /\ r.call = c
      BY <2>5
    <3>2. \A i \in DOMAIN Recorded' :
             \/ i \in DOMAIN Recorded /\ Recorded'[i] = Recorded[i]
             \/ i \notin DOMAIN Recorded /\ Recorded'[i].call = c
      BY <1>1, <3>1, QueueAppend
    <3>3. \A i, j \in DOMAIN Recorded' :
             i \notin DOMAIN Recorded /\ j \notin DOMAIN Recorded => i = j
      BY <1>1, <3>1, QueueAppend
    <3>4. \A i, j \in DOMAIN Recorded' : Recorded'[i].call = Recorded'[j].call => i = j
      BY <1>1, <2>2, <3>2, <3>3 DEF OnePlace
    <3>5. \A i \in DOMAIN Recorded' : promise'[Recorded'[i].call] = "pending"
      BY <1>1, <1>4, <2>2, <2>3, <2>5, <3>2 DEF OnePlace
    <3>6. \A f \in futures : promise'[f.call] = "pending"
      BY <1>1, <1>3, <2>2, <2>3 DEF OnePlace
    <3>7. \A f \in futures, i \in DOMAIN Recorded' : f.call # Recorded'[i].call
      BY <1>1, <2>2, <3>2 DEF OnePlace
    <3> QED
      BY <1>1, <2>5, <3>4, <3>5, <3>6, <3>7 DEF OnePlace
  <2>6. CASE NativeMapAsync(b, c) /\ UNCHANGED Recorded /\ promise'[c] = "pending"
    <3>1. \E s : futures' \subseteq futures \cup {[call |-> c, buffer |-> b, status |-> s]}
      BY <2>6 DEF NativeMapAsync
    <3> QED
      BY <1>1, <1>3, <1>4, <2>2, <2>3, <2>6, <3>1 DEF OnePlace
  <2>7. promise'[c] = "pending" \/ UNCHANGED <<Recorded, futures>>
    <3>1. CASE MapAsyncBusy(b, c)
      BY <1>1, <3>1, RecordedSteps DEF MapAsyncBusy
    <3>2. CASE MapAsyncDestroyed(b, c) \/ MapAsyncAccepted(b, c)
      <4>1. promise' = [promise EXCEPT ![c] = "pending"]
        BY <3>2 DEF MapAsyncDestroyed, MapAsyncAccepted
      <4> QED
        BY <1>1, <4>1 DEF TypeOK
    <3> QED
      BY <1>5, <3>1, <3>2
  <2>8. CASE MapAsyncDestroyed(b, c)
    <3>1. Recorded' = Append(Recorded, [kind |-> "OperationError", call |-> c, buffer |-> b])
      BY <1>1, <2>8, RecordedSteps
    <3>2. UNCHANGED futures
      BY <2>8 DEF MapAsyncDestroyed
    <3> QED
      BY <2>4, <2>5, <2>7, <3>1, <3>2
  <2>9. CASE MapAsyncBusy(b, c)
    BY <1>1, <2>4, <2>9, RecordedSteps DEF MapAsyncBusy
  <2>10. CASE MapAsyncAccepted(b, c)
    <3>1. CASE Recorded' = Recorded /\ NativeMapAsync(b, c)
      BY <2>4, <2>6, <2>7, <3>1
    <3>2. CASE /\ Recorded' = Append(Recorded, [kind |-> "StartMap", call |-> c, buffer |-> b])
               /\ UNCHANGED nativeVars
      BY <2>4, <2>5, <2>7, <3>2
    <3> QED
      BY <1>1, <2>10, <3>1, <3>2, RecordedSteps
  <2> QED
    BY <1>5, <2>8, <2>9, <2>10
<1>6. ASSUME NEW bs \in SUBSET Buffers, futures' = Aborted(futures, bs),
             UNCHANGED <<promise, Recorded>>
      PROVE  OnePlace'
  <2>1. /\ \A f \in futures' : \E g \in futures : f.call = g.call /\ f.buffer = g.buffer
        /\ \A f, g \in futures' : f.call = g.call => f = g
    BY <1>1, <1>6, AbortedMovesNothing DEF OnePlace
  <2> QED
    BY <1>1, <1>6, <2>1 DEF OnePlace
<1>7. ASSUME NEW b \in Buffers, Unmap(b) \/ UnmapDetachFails(b) \/ Destroy(b) PROVE OnePlace'
  <2>1. UNCHANGED <<promise, Recorded>> /\ (UNCHANGED futures \/ futures' = Aborted(futures, {b}))
    BY <1>1, <1>7, RecordedSteps DEF Unmap, UnmapDetachFails, Destroy, NativeUnmap, NativeDestroy
  <2>2. {b} \in SUBSET Buffers
    OBVIOUS
  <2> QED
    BY <1>2, <1>6, <2>1, <2>2
<1>8. CASE DeviceDestroy
  <2>1. UNCHANGED <<promise, Recorded>> /\ (UNCHANGED futures \/ futures' = Aborted(futures, Buffers))
    BY <1>1, <1>8, RecordedSteps DEF DeviceDestroy, NativeDestroy
  <2> QED
    BY <1>2, <1>6, <2>1
<1>9. CASE ReleaseBuffer
  <2>1. {Head(releases)} \in SUBSET Buffers
    BY <1>1, <1>9 DEF ReleaseBuffer, TypeOK
  <2> QED
    BY <1>1, <1>6, <1>9, <2>1, RecordedSteps DEF ReleaseBuffer, NativeRelease
<1>10. ASSUME NEW f \in futures, NEW status \in {"Success", "Error", "Aborted"}, CompleteMap(f, status)
       PROVE  OnePlace'
  <2> DEFINE r == [kind |-> Settlement(pendingMap[f.buffer] # f.call, status),
                   call |-> f.call, buffer |-> f.buffer]
  <2>1. Recorded' = Append(Recorded, r) /\ r.call = f.call
    BY <1>1, <1>10, RecordedSteps
  <2> HIDE DEF r
  <2>2. futures' = futures \ {f} /\ promise' = promise
    BY <1>10 DEF CompleteMap
  <2>3. \A i \in DOMAIN Recorded' :
           \/ i \in DOMAIN Recorded /\ Recorded'[i] = Recorded[i]
           \/ i \notin DOMAIN Recorded /\ Recorded'[i].call = f.call
    BY <1>1, <2>1, QueueAppend
  <2>4. \A i, j \in DOMAIN Recorded' :
           i \notin DOMAIN Recorded /\ j \notin DOMAIN Recorded => i = j
    BY <1>1, <2>1, QueueAppend
  <2>5. \A i, j \in DOMAIN Recorded' : Recorded'[i].call = Recorded'[j].call => i = j
    BY <1>1, <2>3, <2>4 DEF OnePlace
  <2>6. \A g \in futures', i \in DOMAIN Recorded' : g.call # Recorded'[i].call
    BY <1>1, <2>2, <2>3 DEF OnePlace
  <2> QED
    BY <1>1, <2>2, <2>3, <2>5, <2>6 DEF OnePlace
<1>11. ASSUME Recorded # <<>>, Recorded' = Tail(Recorded)
       PROVE  /\ \A i, j \in DOMAIN Recorded' : Recorded'[i].call = Recorded'[j].call => i = j
              /\ \A i \in DOMAIN Recorded' :
                    /\ Recorded'[i].call # Head(Recorded).call
                    /\ \E j \in DOMAIN Recorded : Recorded'[i] = Recorded[j]
              /\ \A g \in futures : g.call # Head(Recorded).call
              /\ promise[Head(Recorded).call] = "pending"
              /\ Head(Recorded).call \in Calls
  <2>1. /\ 1 \in DOMAIN Recorded /\ Head(Recorded) = Recorded[1]
        /\ \A i \in DOMAIN Recorded' :
              i + 1 \in DOMAIN Recorded \ {1} /\ Recorded'[i] = Recorded[i + 1]
        /\ \A i, j \in DOMAIN Recorded' : i + 1 = j + 1 => i = j
    BY <1>1, <1>11, QueueTail
  <2> QED
    BY <1>1, <1>4, <2>1 DEF OnePlace
<1>12. CASE StartDeferredMap
  <2>1. PICK k \in DOMAIN Recorded :
           /\ Recorded[k] = Head(settlements)
           /\ \A i \in DOMAIN Recorded' :
                 \E j \in DOMAIN Recorded \ {k} :
                    j = (IF i < k THEN i ELSE i + 1) /\ Recorded'[i] = Recorded[j]
           /\ DOMAIN Recorded' \subseteq Nat
    BY <1>1, <1>12, RecordedStart DEF StartDeferredMap
  <2> DEFINE c == Recorded[k].call
  <2>2. \E s, b : futures' \subseteq futures \cup {[call |-> c, buffer |-> b, status |-> s]}
    BY <1>12, <2>1 DEF StartDeferredMap, NativeMapAsync
  <2>3. promise' = promise
    BY <1>12 DEF StartDeferredMap
  <2>4. k \in Nat
    BY <1>1, RecordedType
  <2>5. \A i, j \in DOMAIN Recorded' : Recorded'[i].call = Recorded'[j].call => i = j
    <3>1. SUFFICES ASSUME NEW i \in DOMAIN Recorded', NEW j \in DOMAIN Recorded',
                          Recorded'[i].call = Recorded'[j].call
                   PROVE  i = j
      OBVIOUS
    <3>2. (IF i < k THEN i ELSE i + 1) = (IF j < k THEN j ELSE j + 1)
      BY <1>1, <2>1, <3>1 DEF OnePlace
    <3> QED
      BY <2>1, <2>4, <3>2
  <2>6. \A i \in DOMAIN Recorded' :
           Recorded'[i].call # c /\ \E j \in DOMAIN Recorded : Recorded'[i] = Recorded[j]
    BY <1>1, <2>1 DEF OnePlace
  <2>7. \A f, g \in futures' : f.call = g.call => f = g
    BY <1>1, <2>1, <2>2 DEF OnePlace
  <2>8. \A f \in futures', i \in DOMAIN Recorded' : f.call # Recorded'[i].call
    BY <1>1, <2>1, <2>2, <2>6 DEF OnePlace
  <2> QED
    BY <1>1, <2>1, <2>2, <2>3, <2>5, <2>6, <2>7, <2>8 DEF OnePlace
<1>13. CASE SettlePromise
  <2>1. Recorded # <<>> /\ Recorded' = Tail(Recorded) /\ Head(Recorded) = Head(batch)
    BY <1>1, <1>13, RecordedSteps
  <2>2. \A d \in Calls : d # Head(Recorded).call => promise'[d] = promise[d]
    BY <1>1, <1>13, <2>1 DEF SettlePromise, TypeOK
  <2>3. UNCHANGED futures
    BY <1>13 DEF SettlePromise
  <2> QED
    BY <1>1, <1>3, <1>4, <1>11, <2>1, <2>2, <2>3 DEF OnePlace
<1>14. CASE BeginTick \/ EndEvents \/ PrepareSettlement \/ EndPrepare
            \/ EndDrain \/ EndMicrotasks \/ EndTick
  <2>1. UNCHANGED <<promise, futures>>
    BY <1>14 DEF BeginTick, EndEvents, PrepareSettlement, EndPrepare, EndDrain, EndMicrotasks, EndTick
  <2> QED
    BY <1>1, <1>2, <1>14, <2>1, RecordedSteps
<1>15. ASSUME NEW b \in Buffers, Finalize(b) \/ \E s \in Spans : GetMappedRange(b, s) PROVE OnePlace'
  <2>1. UNCHANGED <<promise, futures>>
    BY <1>15 DEF Finalize, GetMappedRange
  <2> QED
    BY <1>1, <1>2, <1>15, <2>1, RecordedSteps
<1>16. CASE UNCHANGED vars
  BY <1>1, <1>2, <1>16, RecordedSteps DEF vars
<1> QED
  BY <1>5, <1>7, <1>8, <1>9, <1>10, <1>12, <1>13, <1>14, <1>15, <1>16 DEF Next, Script, Tick, Backend

(* What a buffer is pending for has no verdict: the verdict and the reset  *)
(* of pending_map are one step, and a cancelled request is pending nowhere. *)
LEMMA PendingIsAskedStep == MappingInv /\ CallInv /\ [Next]_vars => PendingIsAsked'
<1> SUFFICES ASSUME MappingInv, CallInv, [Next]_vars PROVE PendingIsAsked'
  OBVIOUS
<1> USE DEF bufferVars, queueVars, nativeVars
<1>1. TypeOK /\ OnePlace /\ PendingIsAsked
  BY DEF MappingInv, CallInv
<1>2. CASE UNCHANGED <<promise, Recorded, futures, pendingMap, mapped>>
  BY <1>1, <1>2 DEF PendingIsAsked
\* What nobody is pending for any more does not matter.
<1>3. ASSUME UNCHANGED <<promise, Recorded>>,
             \A b \in Buffers : pendingMap'[b] = pendingMap[b] \/ pendingMap'[b] = None,
             \A b \in Buffers : mapped'[b] => mapped[b],
             \A f \in futures' : \E g \in futures : f.call = g.call /\ f.buffer = g.buffer
      PROVE  PendingIsAsked'
  BY <1>1, <1>3 DEF PendingIsAsked
<1>4. \A bs \in SUBSET Buffers : futures' = Aborted(futures, bs) =>
         \A f \in futures' : \E g \in futures : f.call = g.call /\ f.buffer = g.buffer
  BY <1>1, AbortedMovesNothing
<1>5. \A f \in futures' : futures' = futures => \E g \in futures : f.call = g.call /\ f.buffer = g.buffer
  OBVIOUS
<1>6. ASSUME NEW b \in Buffers, NEW c \in Calls,
             MapAsyncDestroyed(b, c) \/ MapAsyncBusy(b, c) \/ MapAsyncAccepted(b, c)
      PROVE  PendingIsAsked'
  <2>1. /\ promise[c] = "unused"
        /\ \A d \in Calls \ {c} : promise'[d] = promise[d]
    BY <1>1, <1>6 DEF MapAsyncDestroyed, MapAsyncBusy, MapAsyncAccepted, TypeOK
  <2>2. /\ \A f \in futures : f.call # c
        /\ \A i \in DOMAIN Recorded : Recorded[i].call # c
        /\ \A d \in Buffers : pendingMap[d] # c
    BY <1>1, <2>1, ConstantsAssumption DEF OnePlace, PendingIsAsked
  <2>3. \A d \in Buffers : pendingMap[d] # None => promise'[pendingMap[d]] = "pending"
    BY <1>1, <2>1, <2>2 DEF PendingIsAsked, TypeOK
  <2>4. mapped' = mapped
    BY <1>6 DEF MapAsyncDestroyed, MapAsyncBusy, MapAsyncAccepted
  <2>5. CASE MapAsyncBusy(b, c)
    <3>1. Recorded' = Recorded
      BY <1>1, <2>5, RecordedSteps
    <3>2. UNCHANGED <<pendingMap, futures>>
      BY <2>5 DEF MapAsyncBusy
    <3> QED
      BY <1>1, <2>3, <2>4, <3>1, <3>2 DEF PendingIsAsked
  <2>6. CASE MapAsyncDestroyed(b, c)
    <3> DEFINE r == [kind |-> "OperationError", call |-> c, buffer |-> b]
    <3>1. Recorded' = Append(Recorded, r) /\ r.call = c
      BY <1>1, <2>6, RecordedSteps
    <3> HIDE DEF r
    <3>2. \A i \in DOMAIN Recorded' :
             \/ i \in DOMAIN Recorded /\ Recorded'[i] = Recorded[i]
             \/ Recorded'[i].call = c
      BY <1>1, <3>1, QueueAppend
    <3>3. UNCHANGED <<pendingMap, futures>>
      BY <2>6 DEF MapAsyncDestroyed
    <3> QED
      BY <1>1, <2>2, <2>3, <2>4, <3>2, <3>3 DEF PendingIsAsked
  <2>7. CASE MapAsyncAccepted(b, c)
    <3>1. /\ pendingMap[b] = None /\ ~mapped[b]
          /\ pendingMap' = [pendingMap EXCEPT ![b] = c]
          /\ promise' = [promise EXCEPT ![c] = "pending"]
      BY <2>7 DEF MapAsyncAccepted
    <3>2. \A i \in DOMAIN Recorded' :
             \/ i \in DOMAIN Recorded /\ Recorded'[i] = Recorded[i]
             \/ Recorded'[i] = [kind |-> "StartMap", call |-> c, buffer |-> b]
      <4>1. CASE Recorded' = Recorded
        BY <4>1
      <4>2. CASE Recorded' = Append(Recorded, [kind |-> "StartMap", call |-> c, buffer |-> b])
        BY <1>1, <4>2, QueueAppend
      <4> QED
        BY <1>1, <2>7, <4>1, <4>2, RecordedSteps
    <3>3. \A f \in futures' : f \in futures \/ (f.call = c /\ f.buffer = b)
      BY <2>7 DEF MapAsyncAccepted, NativeMapAsync
    <3>4. promise'[c] = "pending" /\ pendingMap'[b] = c
      BY <1>1, <3>1 DEF TypeOK
    <3>5. \A d \in Buffers \ {b} : pendingMap'[d] = pendingMap[d]
      BY <1>1, <3>1 DEF TypeOK
    <3>6. ASSUME NEW d \in Buffers, pendingMap'[d] # None
          PROVE  /\ ~mapped'[d]
                 /\ promise'[pendingMap'[d]] = "pending"
                 /\ \A x \in Buffers : pendingMap'[x] = pendingMap'[d] => x = d
                 /\ \A f \in futures' : f.call = pendingMap'[d] => f.buffer = d
                 /\ \A i \in DOMAIN Recorded' : Recorded'[i].call = pendingMap'[d] =>
                       Recorded'[i].kind = "StartMap" /\ Recorded'[i].buffer = d
      <4>1. CASE d = b
        BY <2>2, <2>4, <3>1, <3>2, <3>3, <3>4, <3>5, <4>1
      <4>2. CASE d # b
        BY <1>1, <2>2, <2>3, <2>4, <3>2, <3>3, <3>4, <3>5, <3>6, <4>2 DEF PendingIsAsked
      <4> QED
        BY <4>1, <4>2
    <3> QED
      BY <3>6 DEF PendingIsAsked
  <2> QED
    BY <1>6, <2>5, <2>6, <2>7
<1>7. ASSUME NEW b \in Buffers, Unmap(b) \/ UnmapDetachFails(b) \/ Destroy(b) PROVE PendingIsAsked'
  <2>1. UNCHANGED <<promise, Recorded>> /\ (UNCHANGED futures \/ futures' = Aborted(futures, {b}))
    BY <1>1, <1>7, RecordedSteps DEF Unmap, UnmapDetachFails, Destroy, NativeUnmap, NativeDestroy
  <2>2. {b} \in SUBSET Buffers
    OBVIOUS
  <2>3. pendingMap' = [pendingMap EXCEPT ![b] = None]
    BY <1>7 DEF Unmap, UnmapDetachFails, Destroy, CancelPending
  <2>4. mapped' = mapped \/ mapped' = [mapped EXCEPT ![b] = FALSE]
    BY <1>7 DEF Unmap, UnmapDetachFails, Destroy
  <2>5. \A d \in Buffers : mapped'[d] => mapped[d]
    BY <1>1, <2>4 DEF TypeOK
  <2>6. \A d \in Buffers : pendingMap'[d] = pendingMap[d] \/ pendingMap'[d] = None
    BY <1>1, <2>3 DEF TypeOK
  <2> QED
    BY <1>3, <1>4, <1>5, <2>1, <2>2, <2>5, <2>6
<1>8. CASE DeviceDestroy
  <2>1. UNCHANGED <<promise, Recorded>> /\ (UNCHANGED futures \/ futures' = Aborted(futures, Buffers))
    BY <1>1, <1>8, RecordedSteps DEF DeviceDestroy, NativeDestroy
  <2>2. \A d \in Buffers : pendingMap'[d] = pendingMap[d] \/ pendingMap'[d] = None
    BY <1>8 DEF DeviceDestroy
  <2>3. \A d \in Buffers : mapped'[d] => mapped[d]
    BY <1>8 DEF DeviceDestroy
  <2> QED
    BY <1>3, <1>4, <1>5, <2>1, <2>2, <2>3
<1>9. CASE ReleaseBuffer
  <2>1. {Head(releases)} \in SUBSET Buffers
    BY <1>1, <1>9 DEF ReleaseBuffer, TypeOK
  <2> QED
    BY <1>1, <1>3, <1>4, <1>9, <2>1, RecordedSteps DEF ReleaseBuffer, NativeRelease
<1>10. ASSUME NEW f \in futures, NEW status \in {"Success", "Error", "Aborted"}, CompleteMap(f, status)
       PROVE  PendingIsAsked'
  <2> DEFINE b == f.buffer
  <2>0. b \in Buffers /\ f.call \in Calls
    BY <1>1 DEF TypeOK, Future
  <2> DEFINE r == [kind |-> Settlement(pendingMap[f.buffer] # f.call, status),
                   call |-> f.call, buffer |-> f.buffer]
  <2>1. Recorded' = Append(Recorded, r) /\ r.call = f.call
    BY <1>1, <1>10, RecordedSteps
  <2> HIDE DEF r
  <2>2. futures' = futures \ {f} /\ promise' = promise
    BY <1>10 DEF CompleteMap
  <2>3. \A i \in DOMAIN Recorded' :
           \/ i \in DOMAIN Recorded /\ Recorded'[i] = Recorded[i]
           \/ Recorded'[i].call = f.call
    BY <1>1, <2>1, QueueAppend
  <2>4. CASE pendingMap[b] = f.call
    <3>1. \A d \in Buffers : pendingMap'[d] = IF d = b THEN None ELSE pendingMap[d]
      BY <1>1, <1>10, <2>4 DEF CompleteMap, MapCallback, TypeOK
    <3>2. \A d \in Buffers \ {b} : mapped'[d] = mapped[d]
      BY <1>1, <1>10, <2>0 DEF CompleteMap, MapCallback, TypeOK
    <3>3. \A d \in Buffers \ {b} : pendingMap[d] # f.call
      BY <1>1, <2>0, <2>4, ConstantsAssumption DEF PendingIsAsked
    <3> QED
      BY <1>1, <2>2, <2>3, <3>1, <3>2, <3>3 DEF PendingIsAsked
  <2>5. CASE pendingMap[b] # f.call
    <3>1. pendingMap' = pendingMap
      BY <1>1, <1>10, <2>0, <2>5 DEF CompleteMap, MapCallback, TypeOK
    <3>2. mapped' = mapped
      BY <1>1, <1>10, <2>0, <2>5 DEF CompleteMap, MapCallback, TypeOK
    <3>3. \A d \in Buffers : pendingMap[d] # f.call
      BY <1>1, <2>0, <2>5, ConstantsAssumption DEF PendingIsAsked
    <3> QED
      BY <1>1, <2>2, <2>3, <3>1, <3>2, <3>3 DEF PendingIsAsked
  <2> QED
    BY <2>4, <2>5
<1>11. ASSUME Recorded # <<>>, Recorded' = Tail(Recorded)
       PROVE  /\ \A i \in DOMAIN Recorded' : \E j \in DOMAIN Recorded : Recorded'[i] = Recorded[j]
              /\ \E i \in DOMAIN Recorded : Head(Recorded) = Recorded[i]
  BY <1>1, <1>11, QueueTail
<1>12. CASE StartDeferredMap
  <2>1. PICK k \in DOMAIN Recorded :
           /\ Recorded[k] = Head(settlements)
           /\ \A i \in DOMAIN Recorded' : \E j \in DOMAIN Recorded : Recorded'[i] = Recorded[j]
    BY <1>1, <1>12, RecordedStart DEF StartDeferredMap
  <2>2. \A f \in futures' : f \in futures \/ (f.call = Recorded[k].call /\ f.buffer = Recorded[k].buffer)
    BY <1>12, <2>1 DEF StartDeferredMap, NativeMapAsync
  <2>3. UNCHANGED <<promise, pendingMap, mapped>>
    BY <1>12 DEF StartDeferredMap
  <2> QED
    BY <1>1, <2>1, <2>2, <2>3 DEF PendingIsAsked
<1>13. CASE SettlePromise
  <2>1. Recorded # <<>> /\ Recorded' = Tail(Recorded) /\ Head(Recorded) = Head(batch)
    BY <1>1, <1>13, RecordedSteps
  <2>2. Head(batch).kind # "StartMap"
    <3>1. Head(batch) \in Prepared
      BY <1>1, <1>13 DEF SettlePromise, TypeOK
    <3> QED
      BY <3>1 DEF Prepared, Verdicts
  <2>3. \A d \in Calls : d # Head(batch).call => promise'[d] = promise[d]
    BY <1>1, <1>13 DEF SettlePromise, TypeOK
  <2>4. \A b \in Buffers : pendingMap[b] # None => pendingMap[b] # Head(batch).call
    BY <1>1, <1>11, <2>1, <2>2 DEF PendingIsAsked
  <2>5. UNCHANGED <<futures, pendingMap, mapped>>
    BY <1>13 DEF SettlePromise
  <2>6. \A b \in Buffers : pendingMap[b] # None => promise'[pendingMap[b]] = promise[pendingMap[b]]
    BY <1>1, <2>3, <2>4 DEF TypeOK
  <2> QED
    BY <1>1, <1>11, <2>1, <2>5, <2>6 DEF PendingIsAsked
<1>14. CASE BeginTick \/ EndEvents \/ PrepareSettlement \/ EndPrepare
            \/ EndDrain \/ EndMicrotasks \/ EndTick
  <2>1. UNCHANGED <<promise, futures, pendingMap, mapped>>
    BY <1>14 DEF BeginTick, EndEvents, PrepareSettlement, EndPrepare, EndDrain, EndMicrotasks, EndTick
  <2> QED
    BY <1>1, <1>2, <1>14, <2>1, RecordedSteps
<1>15. ASSUME NEW b \in Buffers, Finalize(b) \/ \E s \in Spans : GetMappedRange(b, s) PROVE PendingIsAsked'
  <2>1. UNCHANGED <<promise, futures, pendingMap, mapped>>
    BY <1>15 DEF Finalize, GetMappedRange
  <2> QED
    BY <1>1, <1>2, <1>15, <2>1, RecordedSteps
<1>16. CASE UNCHANGED vars
  BY <1>1, <1>2, <1>16, RecordedSteps DEF vars
<1> QED
  BY <1>6, <1>7, <1>8, <1>9, <1>10, <1>12, <1>13, <1>14, <1>15, <1>16 DEF Next, Script, Tick, Backend

(* From the callback that grants a map to the settlement of its promise    *)
(* only script can end the mapping: no other map of the buffer completes,  *)
(* and releases wait for the end of the tick.                              *)
LEMMA GrantedInForceStep == MappingInv /\ CallInv /\ [Next]_vars => GrantedInForce'
<1> SUFFICES ASSUME MappingInv, CallInv, [Next]_vars PROVE GrantedInForce'
  OBVIOUS
<1> USE DEF bufferVars, queueVars, nativeVars
<1>1. TypeOK /\ OnePlace /\ GrantedInForce /\ GrantedInDrain /\ WaitingIsPending
  BY DEF MappingInv, CallInv
<1>2. \A i \in DOMAIN Recorded : Recorded[i].buffer \in Buffers /\ Recorded[i].call \in Calls
  <2>1. Recorded \in Seq(Request)
    BY <1>1, RecordedType
  <2>2. \A i \in DOMAIN Recorded : Recorded[i] \in Request
    BY <2>1
  <2> QED
    BY <2>2 DEF Request
\* No grant is recorded, and no mapping in force is touched.
<1>3. ASSUME \A i \in DOMAIN Recorded' :
                Recorded'[i].kind # "Success" \/ \E j \in DOMAIN Recorded : Recorded'[i] = Recorded[j],
             takenBack' = takenBack,
             \A d \in Buffers : mapped[d] => mapped'[d],
             \A d \in Buffers : native[d].st = "mapped" => native'[d] = native[d]
      PROVE  GrantedInForce'
  BY <1>1, <1>2, <1>3 DEF GrantedInForce
<1>4. ASSUME UNCHANGED <<Recorded, takenBack, mapped, native>> PROVE GrantedInForce'
  BY <1>3, <1>4
\* What script ends it takes back.
<1>5. ASSUME NEW bs \in SUBSET Buffers, UNCHANGED Recorded,
             takenBack' = takenBack \cup Granted(bs),
             \A d \in Buffers \ bs : mapped'[d] = mapped[d] /\ native'[d] = native[d]
      PROVE  GrantedInForce'
  <2>1. SUFFICES ASSUME NEW i \in DOMAIN Recorded, Recorded[i].kind = "Success",
                        Recorded[i].call \notin takenBack \cup Granted(bs)
                 PROVE  /\ mapped'[Recorded[i].buffer]
                        /\ native'[Recorded[i].buffer] = [st |-> "mapped", by |-> Recorded[i].call]
    BY <1>5 DEF GrantedInForce
  <2>2. /\ mapped[Recorded[i].buffer]
        /\ native[Recorded[i].buffer] = [st |-> "mapped", by |-> Recorded[i].call]
    BY <1>1, <2>1 DEF GrantedInForce
  <2>3. promise[Recorded[i].call] = "pending"
    BY <1>1 DEF OnePlace
  <2>4. Recorded[i].buffer \notin bs
    BY <1>2, <2>1, <2>2, <2>3 DEF Granted
  <2> QED
    BY <1>2, <1>5, <2>2, <2>4
<1>6. ASSUME NEW b \in Buffers, NEW c \in Calls, NEW kind, kind # "Success",
             Recorded' = Append(Recorded, [kind |-> kind, call |-> c, buffer |-> b])
      PROVE  \A i \in DOMAIN Recorded' :
                Recorded'[i].kind # "Success" \/ \E j \in DOMAIN Recorded : Recorded'[i] = Recorded[j]
  BY <1>1, <1>6, QueueAppend
<1>7. ASSUME NEW b \in Buffers, NEW c \in Calls, NativeMapAsync(b, c)
      PROVE  \A d \in Buffers : native[d].st = "mapped" => native'[d] = native[d]
  <2>1. native' = native \/ (/\ native[b].st = "unmapped"
                             /\ \E r : native' = [native EXCEPT ![b] = r])
    BY <1>7 DEF NativeMapAsync
  <2> QED
    BY <1>1, <2>1 DEF TypeOK
<1>8. ASSUME NEW b \in Buffers, NEW c \in Calls, MapAsyncDestroyed(b, c) PROVE GrantedInForce'
  <2>1. Recorded' = Append(Recorded, [kind |-> "OperationError", call |-> c, buffer |-> b])
    BY <1>1, <1>8, RecordedSteps
  <2>2. UNCHANGED <<takenBack, mapped, native>>
    BY <1>8 DEF MapAsyncDestroyed
  <2> QED
    BY <1>3, <1>6, <2>1, <2>2
<1>9. ASSUME NEW b \in Buffers, NEW c \in Calls, MapAsyncBusy(b, c) PROVE GrantedInForce'
  <2>1. UNCHANGED <<takenBack, mapped, native>>
    BY <1>9 DEF MapAsyncBusy
  <2> QED
    BY <1>1, <1>4, <1>9, <2>1, RecordedSteps
<1>10. ASSUME NEW b \in Buffers, NEW c \in Calls, MapAsyncAccepted(b, c) PROVE GrantedInForce'
  <2>1. UNCHANGED <<takenBack, mapped>>
    BY <1>10 DEF MapAsyncAccepted
  <2>2. CASE Recorded' = Recorded /\ NativeMapAsync(b, c)
    BY <1>3, <1>7, <2>1, <2>2
  <2>3. CASE /\ Recorded' = Append(Recorded, [kind |-> "StartMap", call |-> c, buffer |-> b])
             /\ UNCHANGED nativeVars
    BY <1>3, <1>6, <2>1, <2>3
  <2> QED
    BY <1>1, <1>10, <2>2, <2>3, RecordedSteps
<1>11. ASSUME NEW b \in Buffers, Unmap(b) \/ Destroy(b) PROVE GrantedInForce'
  <2>1. Recorded' = Recorded
    BY <1>1, <1>11, RecordedSteps
  <2>2. CASE UNCHANGED <<takenBack, mapped, native>>
    BY <1>4, <2>1, <2>2
  <2>3. CASE ~UNCHANGED <<takenBack, mapped, native>>
    <3>1. takenBack' = takenBack \cup Granted({b})
      BY <1>11, <2>3 DEF Unmap, Destroy
    <3>2. mapped' = [mapped EXCEPT ![b] = FALSE]
      BY <1>11, <2>3 DEF Unmap, Destroy
    <3>3. \A d \in Buffers \ {b} : native'[d] = native[d]
      BY <1>1, <1>11, <2>3 DEF Unmap, Destroy, NativeUnmap, NativeDestroy, TypeOK
    <3>4. {b} \in SUBSET Buffers /\ \A d \in Buffers \ {b} : mapped'[d] = mapped[d]
      BY <1>1, <3>2 DEF TypeOK
    <3> QED
      BY <1>5, <2>1, <3>1, <3>3, <3>4
  <2> QED
    BY <2>2, <2>3
<1>12. CASE DeviceDestroy
  <2>1. Recorded' = Recorded
    BY <1>1, <1>12, RecordedSteps
  <2>2. UNCHANGED <<takenBack, mapped, native>> \/ takenBack' = takenBack \cup Granted(Buffers)
    BY <1>12 DEF DeviceDestroy
  <2> QED
    BY <1>4, <1>5, <2>1, <2>2
<1>13. ASSUME NEW b \in Buffers,
              UnmapDetachFails(b) \/ Finalize(b) \/ \E s \in Spans : GetMappedRange(b, s)
       PROVE  GrantedInForce'
  <2>1. UNCHANGED <<takenBack, mapped, native>>
    BY <1>13 DEF UnmapDetachFails, Finalize, GetMappedRange
  <2> QED
    BY <1>1, <1>4, <1>13, <2>1, RecordedSteps
<1>14. ASSUME NEW f \in futures, NEW status \in {"Success", "Error", "Aborted"}, CompleteMap(f, status)
       PROVE  GrantedInForce'
  <2> DEFINE b == f.buffer
             kind == Settlement(pendingMap[b] # f.call, status)
             r == [kind |-> kind, call |-> f.call, buffer |-> b]
  <2>1. b \in Buffers /\ f.call \in Calls /\ f.status \in {"Waiting", "Error", "Aborted"}
    BY <1>1 DEF TypeOK, Future
  <2>2. /\ UNCHANGED takenBack
        /\ \A d \in Buffers : mapped[d] => mapped'[d]
        /\ \A d \in Buffers \ {b} : native'[d] = native[d]
        /\ f.status # "Waiting" => UNCHANGED native
    BY <1>1, <1>14, <2>1 DEF CompleteMap, MapCallback, TypeOK
  <2>3. f.status = "Waiting" => native[b].st = "pending"
    BY <1>1 DEF WaitingIsPending
  <2>4. Recorded' = Append(Recorded, r)
    BY <1>1, <1>14, RecordedSteps
  <2>5. kind = "Success" =>
           mapped'[b] /\ native'[b] = [st |-> "mapped", by |-> f.call]
    <3>1. kind = "Success" => pendingMap[b] = f.call /\ status = "Success"
      BY DEF Settlement
    <3>2. status = "Success" => f.status = "Waiting"
      BY <1>14, <2>1 DEF CompleteMap
    <3> QED
      BY <1>1, <1>14, <2>1, <3>1, <3>2 DEF CompleteMap, MapCallback, TypeOK
  <2>6. \A i \in DOMAIN Recorded' :
           \/ i \in DOMAIN Recorded /\ Recorded'[i] = Recorded[i]
           \/ Recorded'[i] = r
    BY <1>1, <2>4, QueueAppend
  <2>7. ASSUME NEW i \in DOMAIN Recorded, Recorded[i].kind = "Success",
               Recorded[i].call \notin takenBack
        PROVE  /\ mapped'[Recorded[i].buffer]
               /\ native'[Recorded[i].buffer] = [st |-> "mapped", by |-> Recorded[i].call]
    <3>1. /\ mapped[Recorded[i].buffer]
          /\ native[Recorded[i].buffer] = [st |-> "mapped", by |-> Recorded[i].call]
      BY <1>1, <2>7 DEF GrantedInForce
    <3>2. Recorded[i].buffer = b => UNCHANGED native
      BY <2>2, <2>3, <3>1
    <3> QED
      BY <1>2, <2>2, <3>1, <3>2
  <2>8. r.kind = kind /\ r.call = f.call /\ r.buffer = b
    OBVIOUS
  <2> HIDE DEF r, kind
  <2>9. SUFFICES ASSUME NEW i \in DOMAIN Recorded', Recorded'[i].kind = "Success",
                        Recorded'[i].call \notin takenBack
                 PROVE  /\ mapped'[Recorded'[i].buffer]
                        /\ native'[Recorded'[i].buffer] = [st |-> "mapped", by |-> Recorded'[i].call]
    BY <2>2 DEF GrantedInForce
  <2>10. CASE i \in DOMAIN Recorded /\ Recorded'[i] = Recorded[i]
    BY <2>7, <2>9, <2>10
  <2>11. CASE Recorded'[i] = r
    BY <2>5, <2>8, <2>9, <2>11
  <2> QED
    BY <2>6, <2>10, <2>11
<1>15. CASE StartDeferredMap
  <2>1. \A i \in DOMAIN Recorded' : \E j \in DOMAIN Recorded : Recorded'[i] = Recorded[j]
    BY <1>1, <1>15, RecordedStart DEF StartDeferredMap
  <2>2. Head(settlements).buffer \in Buffers /\ Head(settlements).call \in Calls
    <3>1. Head(settlements) \in Request
      BY <1>1, <1>15 DEF StartDeferredMap, TypeOK
    <3> QED
      BY <3>1 DEF Request
  <2>3. \A d \in Buffers : native[d].st = "mapped" => native'[d] = native[d]
    BY <1>7, <1>15, <2>2 DEF StartDeferredMap
  <2>4. UNCHANGED <<takenBack, mapped>>
    BY <1>15 DEF StartDeferredMap
  <2> QED
    BY <1>3, <2>1, <2>3, <2>4
<1>16. CASE SettlePromise
  <2>1. Recorded # <<>> /\ Recorded' = Tail(Recorded) /\ Head(Recorded) = Head(batch)
    BY <1>1, <1>16, RecordedSteps
  <2>2. /\ 1 \in DOMAIN Recorded /\ Head(Recorded) = Recorded[1]
        /\ \A i \in DOMAIN Recorded' :
              i + 1 \in DOMAIN Recorded \ {1} /\ Recorded'[i] = Recorded[i + 1]
    BY <1>1, <2>1, QueueTail
  <2>3. \A i \in DOMAIN Recorded' :
           /\ \E j \in DOMAIN Recorded : Recorded'[i] = Recorded[j]
           /\ Recorded'[i].call # Head(batch).call
    BY <1>1, <2>1, <2>2 DEF OnePlace
  <2>4. UNCHANGED <<mapped, native>> /\ takenBack' = takenBack \ {Head(batch).call}
    BY <1>16 DEF SettlePromise
  <2> QED
    BY <1>1, <2>3, <2>4 DEF GrantedInForce
<1>17. CASE ReleaseBuffer
  <2>1. \A i \in DOMAIN Recorded : Recorded[i].kind # "Success"
    BY <1>1, <1>17, RecordedType DEF ReleaseBuffer, GrantedInDrain
  <2>2. Recorded' = Recorded
    BY <1>1, <1>17, RecordedSteps
  <2> QED
    BY <2>1, <2>2 DEF GrantedInForce
<1>18. CASE BeginTick \/ EndEvents \/ PrepareSettlement \/ EndPrepare
            \/ EndDrain \/ EndMicrotasks \/ EndTick
  <2>1. UNCHANGED <<takenBack, mapped, native>>
    BY <1>18 DEF BeginTick, EndEvents, PrepareSettlement, EndPrepare, EndDrain, EndMicrotasks, EndTick
  <2> QED
    BY <1>1, <1>4, <1>18, <2>1, RecordedSteps
<1>19. CASE UNCHANGED vars
  BY <1>1, <1>4, <1>19, RecordedSteps DEF vars
<1> QED
  BY <1>8, <1>9, <1>10, <1>11, <1>12, <1>13, <1>14, <1>15, <1>16, <1>17, <1>18, <1>19
     DEF Next, Script, Tick, Backend

(* A grant is queued by a callback and leaves with the drain that follows. *)
LEMMA GrantedInDrainStep == MappingInv /\ CallInv /\ [Next]_vars => GrantedInDrain'
<1> SUFFICES ASSUME MappingInv, CallInv, [Next]_vars PROVE GrantedInDrain'
  OBVIOUS
<1> USE DEF bufferVars, queueVars, nativeVars
<1>1. TypeOK /\ GrantedInDrain
  BY DEF MappingInv, CallInv
<1>2. settlements \in Seq(Request) /\ batch \in Seq(Prepared)
  BY <1>1 DEF TypeOK
<1>3. CASE UNCHANGED <<settlements, batch, phase>>
  BY <1>1, <1>3 DEF GrantedInDrain
<1>4. ASSUME NEW b \in Buffers, NEW c \in Calls, NEW kind \in {"StartMap"} \cup Verdicts,
             Enqueue(kind, b, c), UNCHANGED <<batch, phase>>,
             kind = "Success" => phase = "events"
      PROVE  GrantedInDrain'
  <2> DEFINE r == [kind |-> kind, call |-> c, buffer |-> b]
  <2>1. settlements' = Append(settlements, r) /\ r.kind = kind
    BY <1>4 DEF Enqueue
  <2> HIDE DEF r
  <2>2. \A i \in DOMAIN settlements' :
           settlements'[i] = r \/ (i \in DOMAIN settlements /\ settlements'[i] = settlements[i])
    BY <1>2, <2>1
  <2> QED
    BY <1>1, <1>4, <2>1, <2>2 DEF GrantedInDrain
<1>5. ASSUME NEW b \in Buffers, NEW c \in Calls,
             MapAsyncDestroyed(b, c) \/ MapAsyncBusy(b, c) \/ MapAsyncAccepted(b, c)
      PROVE  GrantedInDrain'
  BY <1>3, <1>4, <1>5 DEF MapAsyncDestroyed, MapAsyncBusy, MapAsyncAccepted, Verdicts
<1>6. ASSUME NEW b \in Buffers,
             \/ Unmap(b) \/ UnmapDetachFails(b) \/ Destroy(b) \/ Finalize(b)
             \/ \E s \in Spans : GetMappedRange(b, s)
      PROVE  GrantedInDrain'
  BY <1>3, <1>6 DEF Unmap, UnmapDetachFails, Destroy, Finalize, GetMappedRange
<1>7. CASE DeviceDestroy \/ ReleaseBuffer
  BY <1>3, <1>7 DEF DeviceDestroy, ReleaseBuffer
<1>8. ASSUME NEW f \in futures, NEW status \in {"Success", "Error", "Aborted"}, CompleteMap(f, status)
      PROVE  GrantedInDrain'
  <2>1. f.call \in Calls /\ f.buffer \in Buffers
    BY <1>1 DEF TypeOK, Future
  <2>2. Settlement(pendingMap[f.buffer] # f.call, status) \in {"StartMap"} \cup Verdicts
    BY DEF Settlement, Verdicts
  <2>3. /\ Enqueue(Settlement(pendingMap[f.buffer] # f.call, status), f.buffer, f.call)
        /\ UNCHANGED <<batch, phase>> /\ phase = "events"
    BY <1>8 DEF CompleteMap, MapCallback
  <2> QED
    BY <1>4, <2>1, <2>2, <2>3
<1>9. CASE StartDeferredMap \/ PrepareSettlement
  <2>1. phase = "drain" /\ phase' = phase
    BY <1>9 DEF StartDeferredMap, PrepareSettlement
  <2> QED
    BY <2>1 DEF GrantedInDrain
<1>10. CASE EndPrepare
  BY <1>10 DEF EndPrepare, GrantedInDrain
<1>11. CASE SettlePromise
  <2>1. phase = "settle" /\ phase' = phase /\ settlements' = settlements
    BY <1>11 DEF SettlePromise
  <2> QED
    BY <1>1, <2>1 DEF GrantedInDrain
<1>12. CASE BeginTick \/ EndEvents \/ EndDrain \/ EndMicrotasks \/ EndTick
  BY <1>1, <1>12 DEF BeginTick, EndEvents, EndDrain, EndMicrotasks, EndTick, GrantedInDrain
<1>13. CASE UNCHANGED vars
  BY <1>3, <1>13 DEF vars
<1> QED
  BY <1>5, <1>6, <1>7, <1>8, <1>9, <1>10, <1>11, <1>12, <1>13 DEF Next, Script, Tick, Backend

(* The two invariants of the module hold together.                         *)
LEMMA AllInv == Spec => [](MappingInv /\ CallInv)
<1>1. Init => MappingInv /\ CallInv
  <2> SUFFICES ASSUME Init PROVE MappingInv /\ CallInv
    OBVIOUS
  <2>1. TypeOK
    BY TypeInit
  <2>2. MappingInv
    BY <2>1 DEF Init, MappingInv, MappedByBackend, RangesInForce, WaitingIsPending,
                ReleasedIsFinalized, RangesWhileMapped
  <2>3. Recorded = <<>> /\ settlements = <<>> /\ batch = <<>>
    BY DEF Init, Recorded
  <2> QED
    BY <2>2, <2>3 DEF Init, CallInv, OnePlace, PendingIsAsked, GrantedInForce, GrantedInDrain
<1>2. MappingInv /\ CallInv /\ [Next]_vars => MappingInv' /\ CallInv'
  BY MappingStep, OnePlaceStep, PendingIsAskedStep, GrantedInForceStep, GrantedInDrainStep
     DEF CallInv
<1> QED
  BY <1>1, <1>2, PTL DEF Spec

(* mapAsync's promise is fulfilled only while the buffer is mapped by that *)
(* very call, unless script running in the drain took the mapping back     *)
(* after it was granted: for any number of buffers and calls, no deferred  *)
(* start, late callback, finalizer or release ends it in between.          *)
THEOREM FulfilledMeansInForce == Spec => FulfilledInForce
<1> DEFINE Fulfils == \A c \in Calls \ takenBack :
                         promise[c] # "fulfilled" /\ promise'[c] = "fulfilled"
                         => /\ mapped[Head(batch).buffer]
                            /\ native[Head(batch).buffer] = [st |-> "mapped", by |-> c]
<1>1. MappingInv /\ CallInv /\ [Next]_vars => [Fulfils]_vars
  <2> SUFFICES ASSUME MappingInv, CallInv, Next, NEW c \in Calls \ takenBack,
                      promise[c] # "fulfilled", promise'[c] = "fulfilled"
               PROVE  /\ mapped[Head(batch).buffer]
                      /\ native[Head(batch).buffer] = [st |-> "mapped", by |-> c]
    BY DEF vars
  <2> USE DEF queueVars
  <2>1. TypeOK /\ GrantedInForce
    BY DEF MappingInv, CallInv
  <2>2. ASSUME NEW b \in Buffers, NEW d \in Calls,
               MapAsyncDestroyed(b, d) \/ MapAsyncBusy(b, d) \/ MapAsyncAccepted(b, d)
        PROVE  FALSE
    BY <2>1, <2>2 DEF MapAsyncDestroyed, MapAsyncBusy, MapAsyncAccepted, TypeOK
  <2>3. SettlePromise
    <3>1. CASE \E b \in Buffers : \/ Unmap(b) \/ UnmapDetachFails(b) \/ Destroy(b) \/ Finalize(b)
                                  \/ \E s \in Spans : GetMappedRange(b, s)
      BY <3>1 DEF Unmap, UnmapDetachFails, Destroy, Finalize, GetMappedRange
    <3>2. CASE DeviceDestroy \/ BeginTick \/ EndEvents \/ StartDeferredMap \/ PrepareSettlement
      BY <3>2 DEF DeviceDestroy, BeginTick, EndEvents, StartDeferredMap, PrepareSettlement
    <3>3. CASE EndPrepare \/ EndDrain \/ EndMicrotasks \/ ReleaseBuffer \/ EndTick \/ Backend
      BY <3>3 DEF EndPrepare, EndDrain, EndMicrotasks, ReleaseBuffer, EndTick, Backend, CompleteMap
    <3> QED
      BY <2>2, <3>1, <3>2, <3>3 DEF Next, Script, Tick
  <2>4. /\ batch # <<>> /\ Head(batch) \in Prepared
        /\ promise' = [promise EXCEPT ![Head(batch).call] =
                         IF Head(batch).kind = "Success" THEN "fulfilled" ELSE Head(batch).kind]
    BY <2>1, <2>3 DEF SettlePromise, TypeOK
  <2>5. c = Head(batch).call /\ Head(batch).kind = "Success"
    BY <2>1, <2>4 DEF TypeOK, Prepared, Verdicts
  <2>6. 1 \in DOMAIN batch /\ Head(batch) = batch[1]
    BY <2>1, <2>4 DEF TypeOK
  <2>7. 1 \in DOMAIN Recorded /\ Recorded[1] = Head(batch)
    BY <2>1, <2>6, RecordedType
  <2> QED
    BY <2>1, <2>5, <2>7 DEF GrantedInForce
<1> QED
  BY <1>1, AllInv, PTL DEF Spec, FulfilledInForce

----------------------------------------------------------------------------
(* The refinement of MapContract.                                          *)

(* FateOf with the state it reads spelled out, so that what is said of it  *)
(* can be said of the state before a step and of the state after.          *)
FateIn(promises, queue, pending, c) ==
    LET queued == {i \in DOMAIN queue : /\ queue[i].call = c
                                       /\ queue[i].kind # "StartMap"}
    IN  IF promises[c] # "pending" THEN promises[c]
        ELSE IF queued # {} THEN CASE queue[CHOOSE i \in queued : TRUE].kind = "Success"
                                        -> "granted"
                                   [] queue[CHOOSE i \in queued : TRUE].kind = "AbortError"
                                        -> "aborting"
                                   [] OTHER -> "failing"
        ELSE IF \E b \in Buffers : pending[b] = c THEN "asked" ELSE "aborting"

Verdict(kind) == CASE kind = "Success" -> "granted"
                   [] kind = "AbortError" -> "aborting"
                   [] OTHER -> "failing"

Decided(queue, c, kind) ==
    kind # "StartMap" /\ \E i \in DOMAIN queue : queue[i].call = c /\ queue[i].kind = kind

(* A call has one verdict at most: the first found is the one.             *)
LEMMA FateFacts ==
    ASSUME NEW promises, NEW queue, NEW pending, NEW c,
           \A i, j \in DOMAIN queue : queue[i].call = queue[j].call => i = j
    PROVE  /\ promises[c] # "pending" => FateIn(promises, queue, pending, c) = promises[c]
           /\ \A kind : promises[c] = "pending" /\ Decided(queue, c, kind)
                 => FateIn(promises, queue, pending, c) = Verdict(kind)
           /\ promises[c] = "pending" /\ (\A kind : ~Decided(queue, c, kind))
                 => FateIn(promises, queue, pending, c)
                      = IF \E b \in Buffers : pending[b] = c THEN "asked" ELSE "aborting"
<1> DEFINE queued == {i \in DOMAIN queue : queue[i].call = c /\ queue[i].kind # "StartMap"}
<1>1. promises[c] # "pending" => FateIn(promises, queue, pending, c) = promises[c]
  BY DEF FateIn
<1>2. ASSUME NEW kind, promises[c] = "pending", Decided(queue, c, kind)
      PROVE  FateIn(promises, queue, pending, c) = Verdict(kind)
  <2>1. PICK i \in queued : queue[i].kind = kind
    BY <1>2 DEF Decided
  <2>2. \A j \in queued : j = i
    BY <2>1
  <2>3. (CHOOSE j \in queued : TRUE) = i
    BY <2>2
  <2>4. queued # {}
    BY <2>1
  <2> HIDE DEF queued
  <2>5. FateIn(promises, queue, pending, c)
          = CASE queue[CHOOSE j \in queued : TRUE].kind = "Success" -> "granted"
              [] queue[CHOOSE j \in queued : TRUE].kind = "AbortError" -> "aborting"
              [] OTHER -> "failing"
    BY <1>2, <2>4 DEF FateIn, queued
  <2> QED
    BY <2>1, <2>3, <2>5 DEF Verdict
<1>3. ASSUME promises[c] = "pending", \A kind : ~Decided(queue, c, kind)
      PROVE  FateIn(promises, queue, pending, c)
               = IF \E b \in Buffers : pending[b] = c THEN "asked" ELSE "aborting"
  <2>1. queued = {}
    BY <1>3 DEF Decided
  <2> QED
    BY <1>3, <2>1 DEF FateIn
<1> QED
  BY <1>1, <1>2, <1>3

(* A call's fate is the same before and after a step that changes neither  *)
(* its promise, nor its verdict, nor whether a buffer is pending for it.   *)
LEMMA FateSame ==
    ASSUME OnePlace, OnePlace', NEW c \in Calls,
           promise'[c] = promise[c],
           \A kind : Decided(Recorded', c, kind) <=> Decided(Recorded, c, kind),
           \/ promise[c] # "pending"
           \/ \E kind : Decided(Recorded, c, kind)
           \/ (\E b \in Buffers : pendingMap'[b] = c) <=> (\E b \in Buffers : pendingMap[b] = c)
    PROVE  FateOf(c)' = FateOf(c)
<1>1. /\ \A i, j \in DOMAIN Recorded : Recorded[i].call = Recorded[j].call => i = j
      /\ \A i, j \in DOMAIN Recorded' : Recorded'[i].call = Recorded'[j].call => i = j
  BY DEF OnePlace
<1>2. FateOf(c) = FateIn(promise, Recorded, pendingMap, c)
  BY DEF FateOf, FateIn
<1>3. FateOf(c)' = FateIn(promise', Recorded', pendingMap', c)
  BY DEF FateOf, FateIn
<1>4. CASE promise[c] # "pending"
  BY <1>1, <1>2, <1>3, <1>4, FateFacts
<1>5. CASE promise[c] = "pending" /\ \E kind : Decided(Recorded, c, kind)
  <2>1. PICK kind : Decided(Recorded, c, kind)
    BY <1>5
  <2>2. FateIn(promise, Recorded, pendingMap, c) = Verdict(kind)
    BY <1>1, <1>5, <2>1, FateFacts
  <2>3. FateIn(promise', Recorded', pendingMap', c) = Verdict(kind)
    BY <1>1, <1>5, <2>1, FateFacts
  <2> QED
    BY <1>2, <1>3, <2>2, <2>3
<1>6. CASE promise[c] = "pending" /\ \A kind : ~Decided(Recorded, c, kind)
  <2>1. FateIn(promise, Recorded, pendingMap, c)
          = IF \E b \in Buffers : pendingMap[b] = c THEN "asked" ELSE "aborting"
    BY <1>1, <1>6, FateFacts
  <2>2. FateIn(promise', Recorded', pendingMap', c)
          = IF \E b \in Buffers : pendingMap'[b] = c THEN "asked" ELSE "aborting"
    BY <1>1, <1>6, FateFacts
  <2> QED
    BY <1>2, <1>3, <1>6, <2>1, <2>2
<1> QED
  BY <1>4, <1>5, <1>6

(* What queueing a record, or taking one, does to the verdicts.            *)
LEMMA DecidedAppend ==
    ASSUME TypeOK, NEW r, Recorded' = Append(Recorded, r), NEW c, NEW kind
    PROVE  Decided(Recorded', c, kind)
             <=> Decided(Recorded, c, kind) \/ (kind # "StartMap" /\ r.call = c /\ r.kind = kind)
BY QueueAppend DEF Decided

LEMMA DecidedTail ==
    ASSUME TypeOK, OnePlace, Recorded # <<>>, Recorded' = Tail(Recorded), NEW c, NEW kind
    PROVE  Decided(Recorded', c, kind)
             <=> Decided(Recorded, c, kind) /\ (c # Head(Recorded).call)
<1>1. /\ 1 \in DOMAIN Recorded /\ Head(Recorded) = Recorded[1]
      /\ \A i \in DOMAIN Recorded' :
            i + 1 \in DOMAIN Recorded \ {1} /\ Recorded'[i] = Recorded[i + 1]
      /\ \A i \in DOMAIN Recorded \ {1} :
            i - 1 \in DOMAIN Recorded' /\ Recorded'[i - 1] = Recorded[i]
  BY QueueTail
<1>2. \A i \in DOMAIN Recorded \ {1} : Recorded[i].call # Recorded[1].call
  BY <1>1 DEF OnePlace
<1>3. ASSUME Decided(Recorded', c, kind)
      PROVE  Decided(Recorded, c, kind) /\ c # Head(Recorded).call
  <2>1. PICK i \in DOMAIN Recorded' : Recorded'[i].call = c /\ Recorded'[i].kind = kind
    BY <1>3 DEF Decided
  <2> QED
    BY <1>1, <1>2, <1>3, <2>1 DEF Decided
<1>4. ASSUME Decided(Recorded, c, kind), c # Head(Recorded).call
      PROVE  Decided(Recorded', c, kind)
  <2>1. PICK i \in DOMAIN Recorded : Recorded[i].call = c /\ Recorded[i].kind = kind
    BY <1>4 DEF Decided
  <2>2. i - 1 \in DOMAIN Recorded' /\ Recorded'[i - 1] = Recorded[i]
    BY <1>1, <1>4, <2>1
  <2> QED
    BY <1>4, <2>1, <2>2 DEF Decided
<1> QED
  BY <1>3, <1>4

LEMMA DecidedStart ==
    ASSUME TypeOK, OnePlace, StartDeferredMap, NEW c, NEW kind
    PROVE  Decided(Recorded', c, kind) <=> Decided(Recorded, c, kind)
<1>1. PICK k \in DOMAIN Recorded :
         /\ Recorded[k] = Head(settlements)
         /\ \A i \in DOMAIN Recorded' : \E j \in DOMAIN Recorded : Recorded'[i] = Recorded[j]
         /\ \A j \in DOMAIN Recorded \ {k} : \E i \in DOMAIN Recorded' : Recorded'[i] = Recorded[j]
  BY RecordedStart DEF StartDeferredMap
<1>2. Recorded[k].kind = "StartMap"
  BY <1>1 DEF StartDeferredMap
<1> QED
  BY <1>1, <1>2 DEF Decided

(* Fates of the state after a step, from its queue and its pending maps.   *)
LEMMA FateAfter ==
    ASSUME OnePlace', NEW c \in Calls
    PROVE  /\ promise'[c] # "pending" => FateOf(c)' = promise'[c]
           /\ \A kind : promise'[c] = "pending" /\ Decided(Recorded', c, kind)
                 => FateOf(c)' = Verdict(kind)
           /\ promise'[c] = "pending" /\ (\A kind : ~Decided(Recorded', c, kind))
                 => FateOf(c)' = IF \E b \in Buffers : pendingMap'[b] = c THEN "asked" ELSE "aborting"
<1>1. \A i, j \in DOMAIN Recorded' : Recorded'[i].call = Recorded'[j].call => i = j
  BY DEF OnePlace
<1>2. FateOf(c)' = FateIn(promise', Recorded', pendingMap', c)
  BY DEF FateOf, FateIn
<1> QED
  BY <1>1, <1>2, FateFacts

(* And of the state before.                                                *)
LEMMA FateNow ==
    ASSUME OnePlace, NEW c \in Calls
    PROVE  /\ promise[c] # "pending" => FateOf(c) = promise[c]
           /\ \A kind : promise[c] = "pending" /\ Decided(Recorded, c, kind)
                 => FateOf(c) = Verdict(kind)
           /\ promise[c] = "pending" /\ (\A kind : ~Decided(Recorded, c, kind))
                 => FateOf(c) = IF \E b \in Buffers : pendingMap[b] = c THEN "asked" ELSE "aborting"
<1>1. \A i, j \in DOMAIN Recorded : Recorded[i].call = Recorded[j].call => i = j
  BY DEF OnePlace
<1>2. FateOf(c) = FateIn(promise, Recorded, pendingMap, c)
  BY DEF FateOf, FateIn
<1> QED
  BY <1>1, <1>2, FateFacts

(* Every step is one the contract allows, or one it does not see.          *)
LEMMA ContractStep == MappingInv /\ CallInv /\ CallInv' /\ [Next]_vars => [Contract!Next]_(Contract!vars)
<1> SUFFICES ASSUME MappingInv, CallInv, CallInv', [Next]_vars
             PROVE  Contract!Next \/ UNCHANGED Contract!vars
  OBVIOUS
<1> USE DEF bufferVars, queueVars, nativeVars
<1>1. TypeOK /\ OnePlace /\ OnePlace' /\ PendingIsAsked
  BY DEF MappingInv, CallInv
<1>2. ASSUME UNCHANGED <<pendingMap, mapped>>, \A c \in Calls : FateOf(c)' = FateOf(c)
      PROVE  UNCHANGED Contract!vars
  <2>1. MapState' = MapState
    BY <1>2 DEF MapState
  <2>2. [c \in Calls |-> FateOf(c)]' = [c \in Calls |-> FateOf(c)]
    BY <1>2
  <2> QED
    BY <1>2, <2>1, <2>2 DEF Contract!vars
<1>3. ASSUME UNCHANGED <<promise, Recorded, pendingMap, mapped>> PROVE UNCHANGED Contract!vars
  BY <1>2, <1>3 DEF FateOf
\* unmap(), destroy() and device.destroy() cancel what is pending.
<1>4. ASSUME NEW bs \in SUBSET Buffers, UNCHANGED <<promise, Recorded>>,
             pendingMap' = [b \in Buffers |-> IF b \in bs THEN None ELSE pendingMap[b]],
             \A b \in Buffers : mapped'[b] = (mapped[b] /\ b \notin bs)
      PROVE  Contract!Next
  <2>1. MapState' = [b \in Buffers |-> IF b \in bs THEN "unmapped" ELSE MapState[b]]
    BY <1>4 DEF MapState
  <2>2. ASSUME NEW c \in Calls, NEW b \in bs, pendingMap[b] = c PROVE FateOf(c)' = "aborting"
    <3>1. promise'[c] = "pending" /\ \A kind : ~Decided(Recorded', c, kind)
      BY <1>1, <1>4, <2>2, ConstantsAssumption DEF PendingIsAsked, Decided
    <3>2. \A d \in Buffers : pendingMap'[d] # c
      BY <1>1, <1>4, <2>2, ConstantsAssumption DEF PendingIsAsked
    <3> QED
      BY <1>1, <3>1, <3>2, FateAfter
  <2>3. ASSUME NEW c \in Calls, \A b \in bs : pendingMap[b] # c PROVE FateOf(c)' = FateOf(c)
    <3>1. (\E b \in Buffers : pendingMap'[b] = c) <=> (\E b \in Buffers : pendingMap[b] = c)
      BY <1>4, <2>3, ConstantsAssumption
    <3> QED
      BY <1>1, <1>4, <3>1, FateSame
  <2>4. [c \in Calls |-> FateOf(c)]'
          = [c \in Calls |-> IF \E b \in bs : pendingMap[b] = c THEN "aborting" ELSE [d \in Calls |-> FateOf(d)][c]]
    BY <2>2, <2>3
  <2>5. Contract!Cancel(bs)
    BY <1>4, <2>1, <2>4 DEF Contract!Cancel
  <2> QED
    BY <2>5 DEF Contract!Next
<1>5. ASSUME NEW b \in Buffers, Unmap(b) \/ UnmapDetachFails(b) \/ Destroy(b)
      PROVE  Contract!Next \/ UNCHANGED Contract!vars
  <2>1. pendingMap' = [pendingMap EXCEPT ![b] = None] /\ UNCHANGED <<promise, Recorded>>
    BY <1>1, <1>5, RecordedSteps DEF Unmap, UnmapDetachFails, Destroy, CancelPending
  <2>2. CASE mapped' = [mapped EXCEPT ![b] = FALSE]
    <3>1. pendingMap' = [d \in Buffers |-> IF d \in {b} THEN None ELSE pendingMap[d]]
      BY <1>1, <2>1 DEF TypeOK
    <3>2. \A d \in Buffers : mapped'[d] = (mapped[d] /\ d \notin {b})
      BY <1>1, <2>2 DEF TypeOK
    <3>3. {b} \in SUBSET Buffers
      OBVIOUS
    <3> QED
      BY <1>4, <2>1, <3>1, <3>2, <3>3
  \* A detach failed: the buffer was mapped, so nothing was pending.
  <2>3. CASE UNCHANGED mapped /\ mapped[b]
    <3>1. pendingMap[b] = None
      BY <1>1, <2>3 DEF PendingIsAsked
    <3>2. pendingMap' = pendingMap
      BY <1>1, <2>1, <3>1 DEF TypeOK
    <3> QED
      BY <1>3, <2>1, <2>3, <3>2
  <2>4. ranges[b] # {} => mapped[b]
    BY DEF MappingInv, RangesWhileMapped
  <2> QED
    BY <1>5, <2>2, <2>3, <2>4 DEF Unmap, UnmapDetachFails, Destroy
<1>6. CASE DeviceDestroy
  <2> DEFINE bs == {b \in Buffers : LiveState(b)}
  <2>0. UNCHANGED <<promise, Recorded>>
    BY <1>1, <1>6, RecordedSteps DEF DeviceDestroy
  <2>1. CASE UNCHANGED <<pendingMap, mapped>>
    BY <1>3, <2>0, <2>1
  <2>2. CASE /\ pendingMap' = [b \in Buffers |-> IF LiveState(b) THEN None ELSE pendingMap[b]]
             /\ mapped' = [b \in Buffers |-> mapped[b] /\ ~LiveState(b)]
    <3>1. pendingMap' = [b \in Buffers |-> IF b \in bs THEN None ELSE pendingMap[b]]
      BY <2>2
    <3>2. \A b \in Buffers : mapped'[b] = (mapped[b] /\ b \notin bs)
      BY <2>2
    <3>3. bs \in SUBSET Buffers
      OBVIOUS
    <3> QED
      BY <1>4, <2>0, <3>1, <3>2, <3>3
  <2> QED
    BY <1>6, <2>1, <2>2 DEF DeviceDestroy
\* A fresh call.
<1>7. ASSUME NEW b \in Buffers, NEW c \in Calls,
             MapAsyncDestroyed(b, c) \/ MapAsyncBusy(b, c) \/ MapAsyncAccepted(b, c)
      PROVE  Contract!Next
  <2>1. /\ promise[c] = "unused" /\ mapped' = mapped
        /\ \A d \in Calls \ {c} : promise'[d] = promise[d]
    BY <1>1, <1>7 DEF MapAsyncDestroyed, MapAsyncBusy, MapAsyncAccepted, TypeOK
  <2>2. FateOf(c) = "unused"
    BY <1>1, <2>1, FateNow
  <2>3. /\ \A kind : ~Decided(Recorded, c, kind)
        /\ \A d \in Buffers : pendingMap[d] # c
    BY <1>1, <2>1, ConstantsAssumption DEF OnePlace, PendingIsAsked, Decided
  <2>4. CASE MapAsyncBusy(b, c)
    <3>1. UNCHANGED <<Recorded, pendingMap>> /\ promise' = [promise EXCEPT ![c] = "OperationError"]
      BY <1>1, <2>4, RecordedSteps DEF MapAsyncBusy
    <3>2. FateOf(c)' = "OperationError"
      BY <1>1, <3>1, FateAfter DEF TypeOK
    <3>3. \A d \in Calls \ {c} : FateOf(d)' = FateOf(d)
      BY <1>1, <2>1, <3>1, FateSame
    <3>4. [d \in Calls |-> FateOf(d)]' = [[d \in Calls |-> FateOf(d)] EXCEPT ![c] = "OperationError"]
      BY <3>2, <3>3
    <3>5. MapState' = MapState /\ MapState[b] # "unmapped"
      BY <2>1, <2>4, <3>1 DEF MapState, MapAsyncBusy
    <3>6. Contract!Refuse(c)
      BY <2>2, <3>1, <3>4, <3>5 DEF Contract!Refuse
    <3> QED
      BY <3>6 DEF Contract!Next
  <2>5. CASE MapAsyncDestroyed(b, c)
    <3>1. /\ UNCHANGED pendingMap /\ promise' = [promise EXCEPT ![c] = "pending"]
          /\ Recorded' = Append(Recorded, [kind |-> "OperationError", call |-> c, buffer |-> b])
      BY <1>1, <2>5, RecordedSteps DEF MapAsyncDestroyed
    <3>2. \A d, kind : Decided(Recorded', d, kind)
             <=> Decided(Recorded, d, kind) \/ (d = c /\ kind = "OperationError")
      BY <1>1, <3>1, DecidedAppend
    <3>3. FateOf(c)' = "failing"
      <4>1. Verdict("OperationError") = "failing"
        BY DEF Verdict
      <4>2. promise'[c] = "pending"
        BY <1>1, <3>1 DEF TypeOK
      <4> QED
        BY <1>1, <3>2, <4>1, <4>2, FateAfter
    <3>4. \A d \in Calls \ {c} : FateOf(d)' = FateOf(d)
      BY <1>1, <2>1, <3>1, <3>2, FateSame
    <3>5. [d \in Calls |-> FateOf(d)]' = [[d \in Calls |-> FateOf(d)] EXCEPT ![c] = "failing"]
      BY <3>3, <3>4
    <3>6. MapState' = MapState
      BY <2>1, <3>1 DEF MapState
    <3>7. Contract!Refuse(c)
      BY <2>2, <3>1, <3>5, <3>6 DEF Contract!Refuse
    <3> QED
      BY <3>7 DEF Contract!Next
  <2>6. CASE MapAsyncAccepted(b, c)
    <3>1. /\ ~mapped[b] /\ pendingMap[b] = None
          /\ pendingMap' = [pendingMap EXCEPT ![b] = c]
          /\ promise' = [promise EXCEPT ![c] = "pending"]
      BY <2>6 DEF MapAsyncAccepted
    <3>2. \A d, kind : Decided(Recorded', d, kind) <=> Decided(Recorded, d, kind)
      <4>1. CASE Recorded' = Recorded
        BY <4>1
      <4>2. CASE Recorded' = Append(Recorded, [kind |-> "StartMap", call |-> c, buffer |-> b])
        BY <1>1, <4>2, DecidedAppend
      <4> QED
        BY <1>1, <2>6, <4>1, <4>2, RecordedSteps
    <3>3. FateOf(c)' = "asked"
      <4>1. promise'[c] = "pending" /\ pendingMap'[b] = c
        BY <1>1, <3>1 DEF TypeOK
      <4> QED
        BY <1>1, <2>3, <3>2, <4>1, FateAfter
    <3>4. ASSUME NEW d \in Calls \ {c} PROVE FateOf(d)' = FateOf(d)
      <4>1. (\E x \in Buffers : pendingMap'[x] = d) <=> (\E x \in Buffers : pendingMap[x] = d)
        BY <1>1, <3>1, ConstantsAssumption DEF TypeOK
      <4> QED
        BY <1>1, <2>1, <3>2, <4>1, FateSame
    <3>5. [d \in Calls |-> FateOf(d)]' = [[d \in Calls |-> FateOf(d)] EXCEPT ![c] = "asked"]
      BY <3>3, <3>4
    <3>6. MapState[b] = "unmapped" /\ MapState' = [MapState EXCEPT ![b] = "pending"]
      BY <1>1, <2>1, <3>1, ConstantsAssumption DEF MapState, TypeOK
    <3>7. Contract!Ask(b, c)
      BY <2>2, <3>1, <3>5, <3>6 DEF Contract!Ask
    <3> QED
      BY <3>7 DEF Contract!Next
  <2> QED
    BY <1>7, <2>4, <2>5, <2>6
\* The callback of a map decides it, unless it was cancelled before.
<1>8. ASSUME NEW f \in futures, NEW status \in {"Success", "Error", "Aborted"}, CompleteMap(f, status)
      PROVE  Contract!Next \/ UNCHANGED Contract!vars
  <2> DEFINE b == f.buffer
             c == f.call
             kind == Settlement(pendingMap[b] # c, status)
  <2>1. b \in Buffers /\ c \in Calls
    BY <1>1 DEF TypeOK, Future
  <2>2. /\ Recorded' = Append(Recorded, [kind |-> kind, call |-> c, buffer |-> b])
        /\ promise' = promise
    BY <1>1, <1>8, RecordedSteps DEF CompleteMap
  <2>3. kind \in {"Success", "OperationError", "AbortError"}
    BY DEF Settlement
  <2> HIDE DEF kind
  <2>4. \A d, k : Decided(Recorded', d, k) <=> Decided(Recorded, d, k) \/ (d = c /\ k = kind)
    BY <1>1, <2>2, <2>3, DecidedAppend
  <2>5. promise[c] = "pending" /\ \A k : ~Decided(Recorded, c, k)
    BY <1>1 DEF OnePlace, Decided
  <2>6. FateOf(c)' = Verdict(kind)
    BY <1>1, <2>1, <2>2, <2>4, <2>5, FateAfter
  <2>7. CASE pendingMap[b] # c
    <3>1. kind = "AbortError" /\ UNCHANGED <<pendingMap, mapped>>
      BY <1>1, <1>8, <2>1, <2>7 DEF kind, Settlement, CompleteMap, MapCallback, TypeOK
    <3>2. \A d \in Buffers : pendingMap[d] # c
      BY <1>1, <2>1, <2>7, ConstantsAssumption DEF PendingIsAsked
    <3>3. FateOf(c) = "aborting"
      BY <1>1, <2>1, <2>5, <3>2, FateNow
    <3>4. FateOf(c)' = "aborting"
      BY <2>6, <3>1 DEF Verdict
    <3>5. \A d \in Calls \ {c} : FateOf(d)' = FateOf(d)
      BY <1>1, <2>2, <2>4, <3>1, FateSame
    <3> QED
      BY <1>2, <3>1, <3>3, <3>4, <3>5
  <2>8. CASE pendingMap[b] = c
    <3>1. /\ pendingMap' = [pendingMap EXCEPT ![b] = None]
          /\ mapped' = [mapped EXCEPT ![b] = @ \/ status = "Success"]
          /\ kind = "Success" <=> status = "Success"
      BY <1>8, <2>8 DEF kind, Settlement, CompleteMap, MapCallback
    <3>2. ~mapped[b] /\ MapState[b] = "pending"
      BY <1>1, <2>1, <2>8, ConstantsAssumption DEF PendingIsAsked, MapState
    <3>3. MapState' = [MapState EXCEPT ![b] = IF status = "Success" THEN "mapped" ELSE "unmapped"]
      BY <1>1, <2>1, <3>1, <3>2 DEF MapState, TypeOK
    <3>4. ASSUME NEW d \in Calls \ {c} PROVE FateOf(d)' = FateOf(d)
      <4>1. (\E x \in Buffers : pendingMap'[x] = d) <=> (\E x \in Buffers : pendingMap[x] = d)
        BY <1>1, <2>1, <2>8, <3>1, ConstantsAssumption DEF TypeOK
      <4> QED
        BY <1>1, <2>2, <2>4, <4>1, FateSame
    <3>5. [d \in Calls |-> FateOf(d)]' = [[d \in Calls |-> FateOf(d)] EXCEPT ![pendingMap[b]] = Verdict(kind)]
      BY <2>6, <2>8, <3>4
    <3>6. CASE status = "Success"
      <4>1. Verdict(kind) = "granted"
        BY <3>1, <3>6 DEF Verdict
      <4>2. Contract!Decide(b)
        BY <3>1, <3>2, <3>3, <3>5, <3>6, <4>1 DEF Contract!Decide
      <4> QED
        BY <2>1, <4>2 DEF Contract!Next
    <3>7. CASE status # "Success"
      <4>1. Verdict(kind) \in {"failing", "aborting"}
        BY <2>3, <3>1, <3>7 DEF Verdict
      <4>2. Contract!Decide(b)
        BY <3>1, <3>2, <3>3, <3>5, <3>7, <4>1 DEF Contract!Decide
      <4> QED
        BY <2>1, <4>2 DEF Contract!Next
    <3> QED
      BY <3>6, <3>7
  <2> QED
    BY <2>7, <2>8
<1>9. CASE StartDeferredMap
  <2>1. \A c, kind : Decided(Recorded', c, kind) <=> Decided(Recorded, c, kind)
    BY <1>1, <1>9, DecidedStart
  <2>2. UNCHANGED <<promise, pendingMap, mapped>>
    BY <1>9 DEF StartDeferredMap
  <2>3. \A c \in Calls : FateOf(c)' = FateOf(c)
    BY <1>1, <2>1, <2>2, FateSame
  <2> QED
    BY <1>2, <2>2, <2>3
<1>10. CASE SettlePromise
  <2>0. Recorded # <<>> /\ Recorded' = Tail(Recorded) /\ Head(Recorded) = Head(batch)
    BY <1>1, <1>10, RecordedSteps
  <2>1. PICK c \in Calls, kind \in {"Success", "OperationError", "AbortError"} :
           /\ c = Head(batch).call /\ c = Head(Recorded).call /\ kind = Head(batch).kind
           /\ promise[c] = "pending" /\ Decided(Recorded, c, kind)
    <3>1. Head(batch) \in Prepared
      BY <1>1, <1>10 DEF SettlePromise, TypeOK
    <3>2. /\ Head(batch).call \in Calls
          /\ Head(batch).kind \in {"Success", "OperationError", "AbortError"}
      BY <3>1 DEF Prepared, Verdicts
    <3>3. 1 \in DOMAIN Recorded /\ Head(batch) = Recorded[1]
      BY <1>1, <2>0, QueueTail
    <3>4. /\ promise[Head(batch).call] = "pending"
          /\ Decided(Recorded, Head(batch).call, Head(batch).kind)
      BY <1>1, <3>2, <3>3 DEF OnePlace, Decided
    <3> QED
      BY <2>0, <3>2, <3>4
  <2>2. /\ UNCHANGED <<pendingMap, mapped>>
        /\ promise' = [promise EXCEPT ![c] = IF kind = "Success" THEN "fulfilled" ELSE kind]
        /\ Recorded # <<>> /\ Recorded' = Tail(Recorded)
    BY <1>10, <2>0, <2>1 DEF SettlePromise
  <2>3. FateOf(c) = Verdict(kind)
    BY <1>1, <2>1, FateNow
  <2>4. promise'[c] = IF kind = "Success" THEN "fulfilled" ELSE kind
    BY <1>1, <2>1, <2>2 DEF TypeOK
  <2>5. promise'[c] # "pending"
    BY <2>1, <2>4
  <2>6. FateOf(c)' = IF kind = "Success" THEN "fulfilled" ELSE kind
    BY <1>1, <2>1, <2>4, <2>5, FateAfter
  <2>7. ASSUME NEW d \in Calls \ {c} PROVE FateOf(d)' = FateOf(d)
    <3>1. promise'[d] = promise[d]
      BY <1>1, <2>2 DEF TypeOK
    <3>2. \A k : Decided(Recorded', d, k) <=> Decided(Recorded, d, k)
      BY <1>1, <2>1, <2>2, DecidedTail
    <3> QED
      BY <1>1, <2>2, <3>1, <3>2, FateSame
  <2>8. [d \in Calls |-> FateOf(d)]'
          = [[d \in Calls |-> FateOf(d)] EXCEPT ![c] = IF kind = "Success" THEN "fulfilled" ELSE kind]
    BY <2>6, <2>7
  <2>9. MapState' = MapState
    BY <2>2 DEF MapState
  <2>10. Contract!Settle(c)
    <3>1. [d \in Calls |-> FateOf(d)][c] = Verdict(kind)
      BY <2>1, <2>3
    <3> QED
      BY <2>1, <2>2, <2>8, <2>9, <3>1 DEF Contract!Settle, Verdict
  <2> QED
    BY <2>1, <2>10 DEF Contract!Next
<1>11. CASE BeginTick \/ EndEvents \/ PrepareSettlement \/ EndPrepare \/ EndDrain
            \/ EndMicrotasks \/ ReleaseBuffer \/ EndTick
  <2>1. UNCHANGED <<promise, pendingMap, mapped>>
    BY <1>11 DEF BeginTick, EndEvents, PrepareSettlement, EndPrepare, EndDrain, EndMicrotasks,
                 ReleaseBuffer, EndTick
  <2> QED
    BY <1>1, <1>3, <1>11, <2>1, RecordedSteps
<1>12. ASSUME NEW b \in Buffers, Finalize(b) \/ \E s \in Spans : GetMappedRange(b, s)
       PROVE  UNCHANGED Contract!vars
  <2>1. UNCHANGED <<promise, pendingMap, mapped>>
    BY <1>12 DEF Finalize, GetMappedRange
  <2> QED
    BY <1>1, <1>3, <1>12, <2>1, RecordedSteps
<1>13. CASE UNCHANGED vars
  BY <1>1, <1>3, <1>13, RecordedSteps DEF vars
<1> QED
  BY <1>5, <1>6, <1>7, <1>8, <1>9, <1>10, <1>11, <1>12, <1>13 DEF Next, Script, Tick, Backend

(* What script sees of mapAsync, unmap and destroy is what MapContract     *)
(* allows, for any number of buffers and calls: a request cancelled before *)
(* its callback ends in AbortError whatever the backend says, and every    *)
(* promise settles as its verdict says, once.                              *)
THEOREM ImplementsMapContract == Spec => KeepsMapContract
<1>1. Init => Contract!Init
  <2> SUFFICES ASSUME Init PROVE Contract!Init
    OBVIOUS
  <2>1. MapState \in [Buffers -> {"unmapped", "mapped"}]
    BY DEF Init, MapState
  <2>2. \A c \in Calls : FateOf(c) = "unused"
    BY DEF Init, FateOf
  <2> QED
    BY <2>1, <2>2 DEF Init, Contract!Init
<1>2. MappingInv /\ CallInv /\ (MappingInv /\ CallInv)' /\ [Next]_vars
        => [Contract!Next]_(Contract!vars)
  BY ContractStep
<1> QED
  BY <1>1, <1>2, AllInv, PTL DEF Spec, KeepsMapContract, Contract!Spec
=============================================================================
