------------------------ MODULE DeviceEvents_proofs ------------------------
(***************************************************************************)
(* Proofs about DeviceEvents, for any sets of wrappers, handles and        *)
(* pipelines and any bounds.                                               *)
(***************************************************************************)
EXTENDS DeviceEvents, TLAPS

(* A pipeline call whose result is awaited, queued or prepared is one      *)
(* script made, and the result carries its device.                         *)
Used(p) == p \in Pipelines /\ pipeline[p].promise # "unused"

ResultOfCall(r) == Used(r.pipe) /\ r.dev = pipeline[r.pipe].dev

QueuedRecord ==
    {r \in Record : IF r.kind = "Pipeline" THEN ResultOfCall(r) ELSE r.pipe = None}

Prepared ==
    {s \in Settlement : IF s.kind = "pipeline" THEN ResultOfCall(s) ELSE s.pipe = None}

CallsUsed ==
    /\ \A p \in Pipelines : Used(p) => pipeline[p].dev \in Devices
    /\ \A p \in futures \cap Pipelines : Used(p)
    /\ queue \in Seq(QueuedRecord)
    /\ retries \in Seq(QueuedRecord)
    /\ batch \in Seq(Prepared)

TypeInv == TypeOK /\ CallsUsed

(* One step keeps the types.                                               *)
LEMMA TypeStep == TypeInv /\ [Next]_vars => TypeOK'
<1> SUFFICES ASSUME TypeInv, [Next]_vars PROVE TypeOK'
  OBVIOUS
<1> USE ConstantsAssumption DEF TypeInv, CallsUsed, Used, TypeOK, Phases, PipelineCall,
        stateVars, wrapperVars, callVars, drainVars, hostVars
<1>1. ASSUME NEW k \in {"Device", "RequestFailed", "UncapturedError", "DeviceLost"},
             NEW d \in Devices
      PROVE  Append(queue, Event(k, d)) \in Seq(Record)
  <2>1. Event(k, d) \in Record
    BY DEF Event, Record
  <2> QED
    BY <2>1
<1>2. ASSUME NEW d \in Devices, NEW made \in BOOLEAN, Wrap(d, made)
      PROVE  /\ wrapper' \in [Devices -> {"none", "asked", "live", "finalized", "failed"}]
             /\ lostPromise' \in [Devices -> {"none", "pending", "taken", "resolved"}]
             /\ registered' \subseteq Devices
  BY <1>2 DEF Wrap
<1>3. ASSUME NEW d \in Devices, WrapDevice(d)
      PROVE  TypeOK'
  BY <1>3, <1>2 DEF WrapDevice
<1>4. ASSUME NEW d \in Devices, RequestDevice(d)
      PROVE  TypeOK'
  BY <1>4 DEF RequestDevice
<1>5. ASSUME NEW d \in Devices, NEW p \in Pipelines, CreatePipelineAsync(p, d)
      PROVE  TypeOK'
  BY <1>5 DEF CreatePipelineAsync
<1>6. ASSUME NEW d \in Devices, ScriptError(d)
      PROVE  TypeOK'
  BY <1>6, <1>1 DEF ScriptError
<1>7. ASSUME NEW d \in Devices, DestroyDevice(d)
      PROVE  TypeOK'
  BY <1>7 DEF DestroyDevice
<1>8. ASSUME NEW d \in Devices, Finalize(d)
      PROVE  TypeOK'
  <2>1. registered' \subseteq Devices /\ finalizing' \subseteq Devices
    BY <1>8 DEF Finalize
  <2>2. wrapper' \in [Devices -> {"none", "asked", "live", "finalized", "failed"}]
    BY <1>8 DEF Finalize
  <2> QED
    BY <1>8, <2>1, <2>2 DEF Finalize
<1>30. ASSUME NEW d \in Devices, Finalized(d)
       PROVE  TypeOK'
  BY <1>30 DEF Finalized
<1>9. ASSUME NEW n \in Natives, ReportError(n)
      PROVE  TypeOK'
  BY <1>9 DEF ReportError, Targets, Registered
<1>10. ASSUME NEW n \in Natives, ForwardLoss(n)
       PROVE  TypeOK'
  BY <1>10 DEF ForwardLoss, Registered
<1>11. ASSUME NEW d \in Devices, VisitState(d)
       PROVE  TypeOK'
  BY <1>11 DEF VisitState
<1>12. CASE EnqueueEvent
  BY <1>12, <1>1 DEF EnqueueEvent
<1>13. CASE ProducerDone
  BY <1>13 DEF ProducerDone
<1>14. ASSUME NEW n \in Natives, LoseDevice(n)
       PROVE  TypeOK'
  BY <1>14 DEF LoseDevice
<1>15. ASSUME NEW d \in Devices, NEW ok \in BOOLEAN, DeviceReady(d, ok)
       PROVE  TypeOK'
  BY <1>15, <1>1 DEF DeviceReady
<1>16. ASSUME NEW p \in Pipelines, NEW ok \in BOOLEAN, PipelineReady(p, ok)
       PROVE  TypeOK'
  <2>1. [kind |-> "Pipeline", dev |-> pipeline[p].dev, pipe |-> p, ok |-> ok] \in Record
    BY <1>16 DEF PipelineReady, Record
  <2>2. queue' \in Seq(Record)
    BY <1>16, <2>1 DEF PipelineReady
  <2> QED
    BY <1>16, <2>2 DEF PipelineReady
<1>17. ASSUME NEW d \in Devices, LossCallback(d)
       PROVE  TypeOK'
  BY <1>17, <1>1 DEF LossCallback
<1>18. CASE BeginTick \/ EndEvents \/ QueueEmpty \/ EndDrain \/ EndTick
  BY <1>18 DEF BeginTick, EndEvents, QueueEmpty, EndDrain, EndTick
<1>19. ASSUME NEW kind, Preparing(kind)
       PROVE  Head(queue) \in Record /\ queue' \in Seq(Record)
  BY <1>19 DEF Preparing
<1>20. ASSUME NEW kind \in {"device", "pipeline", "lost"}, NEW r \in Record,
              NEW result \in {"resolved", "rejected", "failed"}, Settle(kind, r, result)
       PROVE  batch' \in Seq(Settlement)
  <2>1. [kind |-> kind, dev |-> r.dev, pipe |-> r.pipe, result |-> result] \in Settlement
    BY DEF Settlement, Record
  <2> QED
    BY <1>20, <2>1 DEF Settle
<1>21. CASE PrepareDevice
  <2>1. Head(queue) \in Record /\ queue' \in Seq(Record) /\ Head(queue).dev \in Devices
    BY <1>21, <1>19 DEF PrepareDevice, Record
  <2>2. PICK made \in BOOLEAN :
          /\ Wrap(Head(queue).dev, made)
          /\ Settle("device", Head(queue), IF made THEN "resolved" ELSE "failed")
    BY <1>21 DEF PrepareDevice
  <2>3. batch' \in Seq(Settlement)
    BY <1>20, <2>1, <2>2
  <2> QED
    BY <1>21, <1>2, <2>1, <2>2, <2>3 DEF PrepareDevice
<1>22. CASE PrepareRequestFailed
  <2>1. Head(queue) \in Record /\ queue' \in Seq(Record) /\ Head(queue).dev \in Devices
    BY <1>22, <1>19 DEF PrepareRequestFailed, Record
  <2>2. batch' \in Seq(Settlement)
    BY <1>20, <1>22, <2>1 DEF PrepareRequestFailed
  <2> QED
    BY <1>22, <2>1, <2>2 DEF PrepareRequestFailed
<1>23. CASE RetryPipeline
  <2>1. Head(queue) \in Record /\ queue' \in Seq(Record)
    BY <1>23, <1>19 DEF RetryPipeline
  <2>2. retries' \in Seq(Record)
    BY <1>23, <2>1 DEF RetryPipeline
  <2> QED
    BY <1>23, <2>1, <2>2 DEF RetryPipeline
<1>24. CASE PreparePipeline
  <2>1. Head(queue) \in Record /\ queue' \in Seq(Record)
    BY <1>24, <1>19 DEF PreparePipeline
  <2>2. batch' \in Seq(Settlement)
    BY <1>20, <1>24, <2>1 DEF PreparePipeline
  <2> QED
    BY <1>24, <2>1, <2>2 DEF PreparePipeline
<1>25. CASE PrepareError
  <2>1. Head(queue) \in Record /\ queue' \in Seq(Record) /\ Head(queue).dev \in Devices
    BY <1>25, <1>19 DEF PrepareError, Record
  <2>2. events' \in Seq(Devices)
    BY <1>25, <2>1 DEF PrepareError
  <2> QED
    BY <1>25, <2>1, <2>2 DEF PrepareError
<1>26. CASE PrepareLoss
  <2>1. Head(queue) \in Record /\ queue' \in Seq(Record) /\ Head(queue).dev \in Devices
    BY <1>26, <1>19 DEF PrepareLoss, Record
  <2>2. batch' \in Seq(Settlement)
    BY <1>20, <1>26, <2>1 DEF PrepareLoss
  <2>3. registered' \subseteq Devices
    BY <1>26 DEF PrepareLoss
  <2>4. /\ lostPromise' \in [Devices -> {"none", "pending", "taken", "resolved"}]
        /\ lostSettled' \in [Devices -> BOOLEAN]
    BY <1>26, <2>1 DEF PrepareLoss
  <2> QED
    BY <1>26, <2>1, <2>2, <2>3, <2>4 DEF PrepareLoss
<1>27. CASE SettleBatch
  <2>1. queue' \in Seq(Record) /\ retries' \in Seq(Record) /\ batch' \in Seq(Settlement)
    BY <1>27 DEF SettleBatch
  <2>2. lostPromise' \in [Devices -> {"none", "pending", "taken", "resolved"}]
    BY <1>27 DEF SettleBatch
  <2>3. ASSUME NEW p \in Pipelines
        PROVE  pipeline'[p] \in PipelineCall
    <3>1. ASSUME NEW i \in DOMAIN batch
          PROVE  [pipeline[p] EXCEPT !.promise = batch[i].result]
                   \in [dev : Devices \cup {None}, lostAtStart : BOOLEAN,
                        promise : {"resolved", "rejected", "failed"}]
      <4>1. batch[i] \in Settlement
        OBVIOUS
      <4>2. batch[i].result \in {"resolved", "rejected", "failed"}
        BY <4>1 DEF Settlement
      <4>3. pipeline[p] \in PipelineCall
        OBVIOUS
      <4> HIDE DEF TypeInv, TypeOK, CallsUsed
      <4> QED
        BY <4>2, <4>3
    <3> QED
      BY <1>27, <3>1 DEF SettleBatch
  <2>4. pipeline' \in [Pipelines -> PipelineCall]
    BY <1>27, <2>3 DEF SettleBatch
  <2> QED
    BY <1>27, <2>1, <2>2, <2>3, <2>4 DEF SettleBatch
<1>28. CASE DispatchError
  BY <1>28 DEF DispatchError
<1>29. CASE UNCHANGED vars
  BY <1>29 DEF vars
<1> HIDE DEF TypeOK, TypeInv
<1>31. CASE Script
  BY <1>4, <1>5, <1>6, <1>7, <1>31 DEF Script
<1>32. CASE Collector
  BY <1>8, <1>30, <1>32 DEF Collector
<1>33. CASE Producer
  BY <1>9, <1>11, <1>12, <1>13, <1>33 DEF Producer
<1>34. CASE Backend
  BY <1>14, <1>15, <1>16, <1>17, <1>34 DEF Backend
<1>35. CASE Tick
  BY <1>18, <1>21, <1>22, <1>23, <1>24, <1>25, <1>26, <1>27, <1>28, <1>35 DEF Tick
<1> QED
  BY <1>3, <1>10, <1>29, <1>31, <1>32, <1>33, <1>34, <1>35 DEF Next

(* Settling a batch changes only the promises of calls that were made.     *)
LEMMA SettledCalls ==
    ASSUME TypeInv, SettleBatch, NEW p \in Pipelines
    PROVE  /\ pipeline'[p].dev = pipeline[p].dev
           /\ pipeline'[p].lostAtStart = pipeline[p].lostAtStart
           /\ pipeline'[p].promise # "unused" <=> Used(p)
<1>1. pipeline'[p] = pipeline[p] \/ \E i \in DOMAIN batch :
         batch[i].pipe = p /\ pipeline'[p] = [pipeline[p] EXCEPT !.promise = batch[i].result]
  BY DEF SettleBatch
<1>2. pipeline[p] \in PipelineCall
  BY DEF TypeInv, TypeOK
<1>3. ASSUME NEW i \in DOMAIN batch, batch[i].pipe = p
      PROVE  Used(p) /\ batch[i].result # "unused"
  <2>1. batch[i] \in Prepared
    BY DEF TypeInv, CallsUsed
  <2> QED
    BY <1>3, <2>1, ConstantsAssumption DEF Prepared, Settlement, ResultOfCall
<1>4. CASE pipeline'[p] = pipeline[p]
  BY <1>4 DEF Used
<1>5. ASSUME NEW i \in DOMAIN batch, batch[i].pipe = p,
             pipeline'[p] = [pipeline[p] EXCEPT !.promise = batch[i].result]
      PROVE  /\ pipeline'[p].dev = pipeline[p].dev
             /\ pipeline'[p].lostAtStart = pipeline[p].lostAtStart
             /\ pipeline'[p].promise # "unused" <=> Used(p)
  BY <1>2, <1>3, <1>5 DEF PipelineCall, Used
<1> QED
  BY <1>1, <1>4, <1>5

(* One step keeps pipeline results those of calls that were made.          *)
LEMMA CallsStep == TypeInv /\ [Next]_vars => CallsUsed'
<1> SUFFICES ASSUME TypeInv, [Next]_vars PROVE CallsUsed'
  OBVIOUS
<1> USE ConstantsAssumption DEF CallsUsed, Used
<1>0. TypeOK /\ CallsUsed
  BY DEF TypeInv
<1>1. ASSUME pipeline' = pipeline
      PROVE  QueuedRecord' = QueuedRecord /\ Prepared' = Prepared
  BY <1>1 DEF QueuedRecord, Prepared, ResultOfCall
<1>2. ASSUME UNCHANGED <<pipeline, queue, retries, batch>>, futures' \subseteq futures \cup Devices
      PROVE  CallsUsed'
  BY <1>0, <1>1, <1>2
<1>3. ASSUME NEW k \in {"Device", "RequestFailed", "UncapturedError", "DeviceLost"},
             NEW d \in Devices, queue' = Append(queue, Event(k, d)),
             UNCHANGED <<pipeline, retries, batch>>, futures' \subseteq futures
      PROVE  CallsUsed'
  <2>1. Event(k, d) \in QueuedRecord
    BY DEF Event, QueuedRecord, Record
  <2>2. queue' \in Seq(QueuedRecord)
    BY <1>0, <1>3, <2>1
  <2> QED
    BY <1>0, <1>1, <1>3, <2>2
<1>4. ASSUME NEW p \in Pipelines, NEW ok \in BOOLEAN, PipelineReady(p, ok)
      PROVE  CallsUsed'
  <2>1. [kind |-> "Pipeline", dev |-> pipeline[p].dev, pipe |-> p, ok |-> ok] \in QueuedRecord
    BY <1>0, <1>4 DEF PipelineReady, QueuedRecord, Record, ResultOfCall
  <2>2. queue' \in Seq(QueuedRecord)
    BY <1>0, <1>4, <2>1 DEF PipelineReady
  <2> QED
    BY <1>0, <1>1, <1>4, <2>2 DEF PipelineReady, drainVars
<1>5. ASSUME \A p \in Pipelines : Used(p) => /\ pipeline'[p].promise # "unused"
                                            /\ pipeline'[p].dev = pipeline[p].dev
      PROVE  /\ \A q : q \in Seq(QueuedRecord) => q \in Seq(QueuedRecord')
             /\ \A q : q \in Seq(Prepared) => q \in Seq(Prepared')
  <2>1. QueuedRecord \subseteq QueuedRecord' /\ Prepared \subseteq Prepared'
    BY <1>5 DEF QueuedRecord, Prepared, ResultOfCall
  <2> QED
    BY <2>1
<1>6. ASSUME NEW d \in Devices, NEW p \in Pipelines, CreatePipelineAsync(p, d)
      PROVE  CallsUsed'
  <2>1. pipeline' = [pipeline EXCEPT ![p] = [dev |-> d, lostAtStart |-> lost[d],
                                             promise |-> "pending"]]
    BY <1>6 DEF CreatePipelineAsync
  <2>2. /\ pipeline'[p].promise = "pending" /\ pipeline'[p].dev = d
        /\ \A q \in Pipelines \ {p} : pipeline'[q] = pipeline[q]
    BY <1>0, <2>1 DEF TypeOK
  <2>3. ~Used(p) /\ futures' = futures \cup {p} /\ UNCHANGED <<queue, retries, batch>>
    BY <1>6 DEF CreatePipelineAsync, drainVars
  <2> QED
    BY <1>0, <1>5, <2>2, <2>3
<1>7. ASSUME NEW kind, Preparing(kind)
      PROVE  Head(queue) \in QueuedRecord /\ queue' \in Seq(QueuedRecord)
  BY <1>0, <1>7 DEF Preparing
<1>8. ASSUME NEW kind \in {"device", "pipeline", "lost"}, NEW r \in QueuedRecord,
             NEW result \in {"resolved", "rejected", "failed"}, Settle(kind, r, result),
             kind = "pipeline" <=> r.kind = "Pipeline"
      PROVE  batch' \in Seq(Prepared)
  <2>1. [kind |-> kind, dev |-> r.dev, pipe |-> r.pipe, result |-> result] \in Prepared
    BY <1>8 DEF Settlement, Record, QueuedRecord, Prepared, ResultOfCall
  <2> QED
    BY <1>0, <1>8, <2>1 DEF Settle
<1>9. ASSUME queue' \in Seq(QueuedRecord), retries' \in Seq(QueuedRecord),
             batch' \in Seq(Prepared), UNCHANGED <<pipeline, futures>>
      PROVE  CallsUsed'
  BY <1>0, <1>1, <1>9
<1>10. CASE PrepareDevice
  <2>1. Head(queue) \in QueuedRecord /\ queue' \in Seq(QueuedRecord) /\ Head(queue).kind = "Device"
    BY <1>10, <1>7 DEF PrepareDevice, Preparing
  <2>2. batch' \in Seq(Prepared)
    BY <1>8, <1>10, <2>1 DEF PrepareDevice
  <2> QED
    BY <1>0, <1>9, <1>10, <2>1, <2>2 DEF PrepareDevice, callVars
<1>11. CASE PrepareRequestFailed
  <2>1. /\ Head(queue) \in QueuedRecord /\ queue' \in Seq(QueuedRecord)
        /\ Head(queue).kind = "RequestFailed"
    BY <1>11, <1>7 DEF PrepareRequestFailed, Preparing
  <2>2. batch' \in Seq(Prepared)
    BY <1>8, <1>11, <2>1 DEF PrepareRequestFailed
  <2> QED
    BY <1>0, <1>9, <1>11, <2>1, <2>2 DEF PrepareRequestFailed, callVars
<1>12. CASE RetryPipeline
  <2>1. Head(queue) \in QueuedRecord /\ queue' \in Seq(QueuedRecord)
    BY <1>12, <1>7 DEF RetryPipeline
  <2>2. retries' \in Seq(QueuedRecord)
    BY <1>0, <1>12, <2>1 DEF RetryPipeline
  <2> QED
    BY <1>0, <1>9, <1>12, <2>1, <2>2 DEF RetryPipeline, callVars
<1>13. CASE PreparePipeline
  <2>1. /\ Head(queue) \in QueuedRecord /\ queue' \in Seq(QueuedRecord)
        /\ Head(queue).kind = "Pipeline"
    BY <1>13, <1>7 DEF PreparePipeline, Preparing
  <2>2. batch' \in Seq(Prepared)
    BY <1>8, <1>13, <2>1 DEF PreparePipeline
  <2> QED
    BY <1>0, <1>9, <1>13, <2>1, <2>2 DEF PreparePipeline, callVars
<1>14. CASE PrepareError
  <2>1. queue' \in Seq(QueuedRecord)
    BY <1>14, <1>7 DEF PrepareError
  <2> QED
    BY <1>0, <1>9, <1>14, <2>1 DEF PrepareError, callVars
<1>15. CASE PrepareLoss
  <2>1. /\ Head(queue) \in QueuedRecord /\ queue' \in Seq(QueuedRecord)
        /\ Head(queue).kind = "DeviceLost"
    BY <1>15, <1>7 DEF PrepareLoss, Preparing
  <2>2. batch' \in Seq(Prepared)
    BY <1>0, <1>8, <1>15, <2>1 DEF PrepareLoss
  <2> QED
    BY <1>0, <1>9, <1>15, <2>1, <2>2 DEF PrepareLoss, callVars
<1>16. CASE SettleBatch
  <2>2. ASSUME NEW p \in Pipelines
        PROVE  pipeline'[p].dev = pipeline[p].dev /\ (pipeline'[p].promise # "unused" <=> Used(p))
    BY <1>16, SettledCalls
  <2>3. queue' \in Seq(QueuedRecord) /\ retries' = <<>> /\ batch' = <<>> /\ UNCHANGED futures
    BY <1>0, <1>16 DEF SettleBatch
  <2>4. queue' \in Seq(QueuedRecord')
    BY <1>5, <2>2, <2>3
  <2>5. retries' \in Seq(QueuedRecord') /\ batch' \in Seq(Prepared')
    BY <2>3
  <2> QED
    BY <1>0, <2>2, <2>3, <2>4, <2>5
<1> USE DEF stateVars, wrapperVars, callVars, drainVars, hostVars
<1>21. CASE Script
  <2>1. ASSUME NEW d \in Devices, RequestDevice(d) \/ DestroyDevice(d)
        PROVE  CallsUsed'
    BY <1>2, <2>1 DEF RequestDevice, DestroyDevice
  <2>2. ASSUME NEW d \in Devices, ScriptError(d)
        PROVE  CallsUsed'
    BY <1>3, <2>2 DEF ScriptError
  <2> QED
    BY <1>6, <1>21, <2>1, <2>2 DEF Script
<1>22. CASE Collector
  BY <1>2, <1>22 DEF Collector, Finalize, Finalized
<1>23. CASE Producer
  <2>1. CASE EnqueueEvent
    BY <1>0, <1>3, <2>1 DEF EnqueueEvent, TypeOK
  <2> QED
    BY <1>2, <1>23, <2>1 DEF Producer, ReportError, VisitState, ProducerDone
<1>24. CASE Backend
  <2>1. ASSUME NEW d \in Devices, NEW ok \in BOOLEAN, DeviceReady(d, ok)
        PROVE  CallsUsed'
    BY <1>3, <2>1 DEF DeviceReady
  <2>2. ASSUME NEW d \in Devices, LossCallback(d)
        PROVE  CallsUsed'
    BY <1>3, <2>2 DEF LossCallback
  <2>3. ASSUME NEW n \in Natives, LoseDevice(n)
        PROVE  CallsUsed'
    BY <1>2, <2>3 DEF LoseDevice
  <2> QED
    BY <1>4, <1>24, <2>1, <2>2, <2>3 DEF Backend
<1>25. CASE Tick
  <2>1. CASE BeginTick \/ EndEvents \/ QueueEmpty \/ DispatchError \/ EndDrain \/ EndTick
    BY <1>2, <2>1 DEF BeginTick, EndEvents, QueueEmpty, DispatchError, EndDrain, EndTick
  <2> QED
    BY <1>10, <1>11, <1>12, <1>13, <1>14, <1>15, <1>16, <1>25, <2>1 DEF Tick
<1>26. ASSUME NEW d \in Devices, WrapDevice(d)
       PROVE  CallsUsed'
  BY <1>2, <1>26 DEF WrapDevice
<1>27. ASSUME NEW n \in Natives, ForwardLoss(n)
       PROVE  CallsUsed'
  BY <1>2, <1>27 DEF ForwardLoss
<1>28. CASE UNCHANGED vars
  BY <1>2, <1>28 DEF vars
<1> QED
  BY <1>21, <1>22, <1>23, <1>24, <1>25, <1>26, <1>27, <1>28 DEF Next

(* The initial state has the types.                                        *)
LEMMA InitTypes == Init => TypeInv
<1> SUFFICES ASSUME Init PROVE TypeInv
  OBVIOUS
<1>1. queue = <<>> /\ retries = <<>> /\ batch = <<>> /\ events = <<>>
  BY DEF Init
<1>2. /\ queue \in Seq(Record) /\ retries \in Seq(Record)
      /\ batch \in Seq(Settlement) /\ events \in Seq(Devices)
  BY <1>1
<1>3. /\ queue \in Seq(QueuedRecord) /\ retries \in Seq(QueuedRecord)
      /\ batch \in Seq(Prepared)
  BY <1>1
<1>4. pipeline \in [Pipelines -> PipelineCall] /\ \A p \in Pipelines : ~Used(p)
  BY DEF Init, PipelineCall, Used
<1>5. native \in [Natives -> {"none", "alive", "lost", "reported"}] /\ adopted \subseteq Natives
  BY DEF Init
<1>6. forwards \in [Natives -> 0..MaxForwards]
  BY ConstantsAssumption DEF Init
<1>7. TypeOK
  BY <1>2, <1>4, <1>5, <1>6 DEF Init, TypeOK, Phases
<1> QED
  BY <1>3, <1>4, <1>7 DEF TypeInv, CallsUsed, Init

(* Every variable keeps its type, and every record its meaning.            *)
THEOREM TypeCorrect == Spec => []TypeOK
<1>1. TypeInv /\ [Next]_vars => TypeInv'
  BY TypeStep, CallsStep DEF TypeInv
<1>2. TypeInv => TypeOK
  BY DEF TypeInv
<1> QED
  BY InitTypes, <1>1, <1>2, PTL DEF Spec

----------------------------------------------------------------------------
(* Facts about the queue's three changes.                                  *)

(* The records of a queue are records, and name wrappers.                  *)
LEMMA RecordTypes ==
    ASSUME NEW q \in Seq(Record), NEW i \in DOMAIN q
    PROVE  q[i] \in Record /\ q[i].dev \in Devices
<1>1. q[i] \in Record
  OBVIOUS
<1> QED
  BY <1>1 DEF Record

(* What Append does to a sequence.                                         *)
LEMMA Appending ==
    ASSUME NEW S, NEW q \in Seq(S), NEW r \in S
    PROVE  /\ Len(q) \in Nat /\ DOMAIN q = 1..Len(q)
           /\ Append(q, r) \in Seq(S)
           /\ DOMAIN Append(q, r) = 1..(Len(q) + 1) /\ Len(Append(q, r)) = Len(q) + 1
           /\ \A i \in 1..Len(q) : Append(q, r)[i] = q[i]
           /\ Append(q, r)[Len(q) + 1] = r
  OBVIOUS

(* What Head and Tail do to a sequence.                                    *)
LEMMA Popping ==
    ASSUME NEW S, NEW q \in Seq(S), q # <<>>
    PROVE  /\ Len(q) \in Nat \ {0} /\ DOMAIN q = 1..Len(q)
           /\ Head(q) = q[1] /\ Head(q) \in S
           /\ Tail(q) \in Seq(S)
           /\ DOMAIN Tail(q) = 1..(Len(q) - 1) /\ Len(Tail(q)) = Len(q) - 1
           /\ \A i \in 1..(Len(q) - 1) : Tail(q)[i] = q[i + 1]
  OBVIOUS

(* The head of a queue is its first record, and names a wrapper.           *)
LEMMA HeadRecord ==
    ASSUME NEW q \in Seq(Record), q # <<>>
    PROVE  1 \in DOMAIN q /\ Head(q) = q[1] /\ Head(q) \in Record /\ Head(q).dev \in Devices
<1>1. 1 \in DOMAIN q /\ Head(q) = q[1] /\ Head(q) \in Record
  BY Popping
<1> QED
  BY <1>1 DEF Record

(* What concatenation does to two sequences.                               *)
LEMMA Joining ==
    ASSUME NEW S, NEW q \in Seq(S), NEW t \in Seq(S)
    PROVE  /\ Len(q) \in Nat /\ DOMAIN q = 1..Len(q) /\ Len(t) \in Nat /\ DOMAIN t = 1..Len(t)
           /\ DOMAIN (q \o t) = 1..(Len(q) + Len(t)) /\ Len(q \o t) = Len(q) + Len(t)
           /\ \A i \in 1..Len(q) : (q \o t)[i] = q[i]
           /\ \A i \in (Len(q) + 1)..(Len(q) + Len(t)) :
                 i - Len(q) \in 1..Len(t) /\ (q \o t)[i] = t[i - Len(q)]
  OBVIOUS

----------------------------------------------------------------------------
(* The invariant.                                                          *)

(* The locals of the drain are empty outside it, and it retries pipelines. *)
Idle ==
    /\ phase \notin {"drain", "settle"} => batch = <<>> /\ retries = <<>>
    /\ phase \notin {"drain", "settle", "dispatch", "listening"} => events = <<>>
    /\ \A i \in DOMAIN retries : retries[i].kind = "Pipeline"

(* Wherever a loss is on record, the state says lost.                      *)
KnownLost ==
    /\ \A d \in Devices : lostSettled[d] => lost[d]
    /\ \A i \in DOMAIN queue : queue[i].kind = "DeviceLost" => lost[queue[i].dev]
    /\ producer.op = "lost" /\ producer.at # None => lost[producer.at]
    /\ \A d \in lostBefore : lost[d]

Wrapped(d) == wrapper[d] \in {"live", "finalized"}

Answer(r) == r.kind \in {"Device", "RequestFailed"}

(* A request is answered once, and a wrapper is made from that answer.     *)
AnsweredOnce ==
    /\ \A i \in DOMAIN queue : Answer(queue[i]) => wrapper[queue[i].dev] = "asked"
    /\ \A i, j \in DOMAIN queue :
          Answer(queue[i]) /\ Answer(queue[j]) /\ queue[i].dev = queue[j].dev => i = j
    /\ \A d \in Devices \cap futures :
          /\ wrapper[d] = "asked"
          /\ \A i \in DOMAIN queue : Answer(queue[i]) => queue[i].dev # d

Made(d) == wrapper[d] \in {"live", "finalized", "failed"}

DeviceQueued(d, n) == \E i \in DOMAIN queue : i < n /\ queue[i].kind = "Device" /\ queue[i].dev = d

(* A loss is never told before its device: a requested device that exists  *)
(* is wrapped or its answer is queued, ahead of any loss.                  *)
DeviceBeforeLoss ==
    /\ \A d, e \in Devices : Handle[d] = Handle[e] /\ Handle[d] \notin adopted => d = e
    /\ \A d \in Devices :
          Handle[d] \notin adopted /\ native[Handle[d]] # "none"
          => Made(d) \/ DeviceQueued(d, Len(queue) + 1)
    /\ \A i \in DOMAIN queue :
          queue[i].kind = "DeviceLost" => Made(queue[i].dev) \/ DeviceQueued(queue[i].dev, i)

(* The forwarder only ever sees wrapped devices.                           *)
ForwardsToWrapped ==
    /\ \A d \in registered : Wrapped(d)
    /\ producer.op = "lost" => /\ \A d \in producer.todo : Wrapped(d)
                               /\ producer.at # None => Wrapped(producer.at)

(* The lost promise of a wrapper waits until its loss is told.             *)
LossTold ==
    \A d \in Devices :
       /\ wrapper[d] \in {"none", "asked"} => ~lostSettled[d]
       /\ Wrapped(d) <=> lostPromise[d] # "none"
       /\ Wrapped(d) /\ lostSettled[d] => lostPromise[d] # "pending"
       /\ lostPromise[d] \in {"taken", "resolved"} => lostSettled[d]
       /\ lostPromise[d] = "taken" =>
             \E i \in DOMAIN batch : batch[i].kind = "lost" /\ batch[i].dev = d

(* A pipeline call was made on a wrapped device.                           *)
CallsOnWrapped == \A p \in Pipelines : Used(p) => Wrapped(pipeline[p].dev)

(* A finalizer runs on a wrapper that is already marked finalized.         *)
Finalizing == \A d \in finalizing : wrapper[d] = "finalized"

LossInv ==
    /\ TypeInv
    /\ Idle
    /\ Finalizing
    /\ KnownLost
    /\ AnsweredOnce
    /\ DeviceBeforeLoss
    /\ ForwardsToWrapped
    /\ LossTold
    /\ CallsOnWrapped
    /\ LossSettledOnce
    /\ RegisteredWhileNeeded
    /\ PipelineAfterLoss
    /\ NoRejectionAfterLoss
    /\ QuietAfterLoss

----------------------------------------------------------------------------
(* What a step can do to the parts of the state.                           *)

(* Only tick() itself touches the locals of the drain.                     *)
LEMMA OutsideTick == [Next]_vars => Tick \/ UNCHANGED <<lostSettled, phase, drainVars>>
<1> SUFFICES ASSUME [Next]_vars, ~Tick PROVE UNCHANGED <<lostSettled, phase, drainVars>>
  OBVIOUS
<1> USE DEF stateVars
<1>1. CASE Script
  BY <1>1 DEF Script, RequestDevice, ScriptError, DestroyDevice, CreatePipelineAsync
<1>2. CASE Collector \/ Producer
  BY <1>2 DEF Collector, Producer, Finalize, Finalized, ReportError, VisitState, EnqueueEvent,
              ProducerDone
<1>3. CASE Backend
  BY <1>3 DEF Backend, LoseDevice, LossCallback, DeviceReady, PipelineReady
<1>4. CASE (\E d \in Devices : WrapDevice(d)) \/ \E n \in Natives : ForwardLoss(n)
  BY <1>4 DEF WrapDevice, ForwardLoss
<1> QED
  BY <1>1, <1>2, <1>3, <1>4 DEF Next, vars

(* A device known to be lost stays lost.                                   *)
LEMMA LostStays ==
    ASSUME TypeOK, [Next]_vars, NEW d \in Devices, lost[d] PROVE lost'[d]
<1> USE DEF stateVars
<1>1. CASE Script
  BY <1>1 DEF Script, RequestDevice, ScriptError, DestroyDevice, CreatePipelineAsync, TypeOK
<1>6. ASSUME NEW e \in Devices, VisitState(e)
      PROVE  lost'[d]
  <2>1. lost \in [Devices -> BOOLEAN] /\ lost' = [lost EXCEPT ![e] = @ \/ producer.op = "lost"]
    BY <1>6 DEF VisitState, TypeOK
  <2>2. lost'[e] = (lost[e] \/ producer.op = "lost") /\ (d # e => lost'[d] = lost[d])
    BY <2>1
  <2> QED
    BY <2>2, Zenon
<1>2. CASE Producer
  <2>1. (\E e \in Devices : VisitState(e)) \/ UNCHANGED lost
    BY <1>2 DEF Producer, ReportError, EnqueueEvent, ProducerDone
  <2>2. UNCHANGED lost => lost'[d]
    OBVIOUS
  <2> QED
    BY <1>6, <2>1, <2>2, Zenon
<1>7. CASE Collector
  BY <1>7 DEF Collector, Finalize, Finalized
<1>3. CASE Backend
  <2>1. (\E e \in Devices : lost' = [lost EXCEPT ![e] = TRUE]) \/ UNCHANGED lost
    BY <1>3 DEF Backend, LoseDevice, LossCallback, DeviceReady, PipelineReady
  <2>2. \A e \in Devices : lost' = [lost EXCEPT ![e] = TRUE] => lost'[d]
    BY DEF TypeOK
  <2>3. UNCHANGED lost => lost'[d]
    OBVIOUS
  <2> QED
    BY <2>1, <2>2, <2>3, Zenon
<1>4. CASE (\E e \in Devices : WrapDevice(e)) \/ \E n \in Natives : ForwardLoss(n)
  BY <1>4 DEF WrapDevice, ForwardLoss
<1>5. CASE Tick
  BY <1>5 DEF Tick, BeginTick, EndEvents, PrepareDevice, PrepareRequestFailed, PrepareError,
              PrepareLoss, RetryPipeline, PreparePipeline, QueueEmpty, SettleBatch,
              DispatchError, EndDrain, EndTick
<1> QED
  BY <1>1, <1>2, <1>3, <1>4, <1>5, <1>7 DEF Next, vars

(* The queue is popped by tick(), joined by the retries, and appended to   *)
(* by the rest.  A loss is appended by the forwarder that marked the state *)
(* or by the callback of a requested device that exists.                   *)
LossSource(d) ==
    \/ producer.op = "lost" /\ producer.at = d
    \/ Handle[d] \notin adopted /\ native[Handle[d]] = "lost"

Appends(r) ==
    /\ queue' = Append(queue, r)
    /\ UNCHANGED <<wrapper, lostPromise, lostSettled, drainVars, phase>>
    /\ futures' \subseteq futures
    /\ Answer(r) => r.dev \in futures \ futures'
    /\ r.kind = "DeviceLost" => lost'[r.dev] /\ LossSource(r.dev)

LEMMA QueueStep ==
    ASSUME TypeInv, KnownLost, [Next]_vars
    PROVE  \/ UNCHANGED queue
           \/ \E r \in Record : Appends(r)
           \/ Tick /\ queue # <<>> /\ queue' = Tail(queue)
           \/ SettleBatch
<1> USE DEF TypeInv
<1>1. ASSUME NEW k \in {"Device", "RequestFailed", "UncapturedError", "DeviceLost"}, NEW d \in Devices
      PROVE  /\ Event(k, d) \in Record
             /\ Event(k, d).kind = k /\ Event(k, d).dev = d
  BY <1>1 DEF Event, Record
<1> USE DEF stateVars, wrapperVars, callVars, hostVars
<1>2. CASE Script
  <2>1. ASSUME NEW d \in Devices, ScriptError(d)
        PROVE  Appends(Event("UncapturedError", d))
    BY <1>1, <2>1 DEF ScriptError, Appends, Answer
  <2> QED
    BY <1>1, <1>2, <2>1 DEF Script, RequestDevice, DestroyDevice, CreatePipelineAsync
<1>3. CASE Collector
  BY <1>3 DEF Collector, Finalize, Finalized
<1>4. CASE Producer
  <2>1. CASE EnqueueEvent
    <3>1. producer.at \in Devices
      BY <2>1 DEF EnqueueEvent, TypeOK
    <3>2. CASE producer.op = "lost"
      BY <1>1, <2>1, <3>1, <3>2
         DEF EnqueueEvent, Appends, LossSource, Answer, KnownLost
    <3>3. CASE producer.op # "lost"
      BY <1>1, <2>1, <3>1, <3>3 DEF EnqueueEvent, Appends, Answer
    <3> QED
      BY <3>2, <3>3
  <2> QED
    BY <1>4, <2>1 DEF Producer, ReportError, VisitState, ProducerDone
<1>5. CASE Backend
  <2>1. ASSUME NEW d \in Devices, NEW ok \in BOOLEAN, DeviceReady(d, ok)
        PROVE  \E r \in Record : Appends(r)
    <3> DEFINE r == Event(IF ok THEN "Device" ELSE "RequestFailed", d)
    <3>1. r \in Record /\ r.dev = d /\ r.kind \in {"Device", "RequestFailed"}
      BY <1>1
    <3> QED
      BY <2>1, <3>1 DEF DeviceReady, Appends, Answer
  <2>2. ASSUME NEW p \in Pipelines, NEW ok \in BOOLEAN, PipelineReady(p, ok)
        PROVE  \E r \in Record : Appends(r)
    <3> DEFINE r == [kind |-> "Pipeline", dev |-> pipeline[p].dev, pipe |-> p, ok |-> ok]
    <3>1. r \in Record
      BY <2>2 DEF PipelineReady, CallsUsed, Record
    <3> QED
      BY <2>2, <3>1 DEF PipelineReady, Appends, Answer
  <2>3. ASSUME NEW d \in Devices, LossCallback(d)
        PROVE  Appends(Event("DeviceLost", d))
    BY <1>1, <2>3 DEF LossCallback, Appends, Answer, LossSource, TypeOK
  <2> QED
    BY <1>1, <1>5, <2>1, <2>2, <2>3 DEF Backend, LoseDevice
<1>6. CASE Tick
  <2>1. ASSUME NEW kind, Preparing(kind)
        PROVE  queue # <<>> /\ queue' = Tail(queue)
    BY <2>1 DEF Preparing
  <2>2. CASE PrepareDevice \/ PrepareRequestFailed \/ PrepareError \/ PrepareLoss
             \/ RetryPipeline \/ PreparePipeline
    BY <1>6, <2>1, <2>2 DEF PrepareDevice, PrepareRequestFailed, PrepareError, PrepareLoss,
                       RetryPipeline, PreparePipeline
  <2> QED
    BY <1>6, <2>2 DEF Tick, BeginTick, EndEvents, QueueEmpty, DispatchError, EndDrain, EndTick
<1>7. CASE (\E d \in Devices : WrapDevice(d)) \/ \E n \in Natives : ForwardLoss(n)
  BY <1>7 DEF WrapDevice, ForwardLoss
<1> QED
  BY <1>2, <1>3, <1>4, <1>5, <1>6, <1>7 DEF Next, vars

(* A wrapper goes from none to asked to live to finalized.                 *)
Answering(d) == (PrepareDevice \/ PrepareRequestFailed) /\ Head(queue).dev = d

LEMMA WrapperStep ==
    ASSUME TypeInv, AnsweredOnce, [Next]_vars, NEW d \in Devices
    PROVE  \/ wrapper'[d] = wrapper[d]
           \/ wrapper[d] = "none" /\ wrapper'[d] = "asked" /\ RequestDevice(d)
           \/ wrapper[d] = "none" /\ wrapper'[d] \in {"live", "failed"} /\ WrapDevice(d)
           \/ wrapper[d] = "asked" /\ wrapper'[d] \in {"live", "failed"} /\ Answering(d)
           \/ wrapper[d] = "live" /\ wrapper'[d] = "finalized" /\ Finalize(d)
<1>1. wrapper \in [Devices -> {"none", "asked", "live", "finalized", "failed"}]
  BY DEF TypeInv, TypeOK
<1> USE DEF wrapperVars
<1>2. CASE Script
  BY <1>1, <1>2 DEF Script, RequestDevice, ScriptError, DestroyDevice, CreatePipelineAsync
<1>3. CASE Collector
  BY <1>1, <1>3 DEF Collector, Finalize, Finalized
<1>4. CASE Producer
  BY <1>4 DEF Producer, ReportError, VisitState, EnqueueEvent, ProducerDone
<1>5. CASE Backend
  BY <1>5 DEF Backend, LoseDevice, LossCallback, DeviceReady, PipelineReady
<1>6. CASE (\E e \in Devices : WrapDevice(e)) \/ \E n \in Natives : ForwardLoss(n)
  BY <1>1, <1>6 DEF WrapDevice, ForwardLoss, Wrap
<1>7. CASE PrepareDevice \/ PrepareRequestFailed
  <2>1. queue # <<>> /\ Answer(Head(queue))
    BY <1>7 DEF PrepareDevice, PrepareRequestFailed, Preparing, Answer
  <2>2. wrapper[Head(queue).dev] = "asked" /\ Head(queue).dev \in Devices
    <3>1. queue \in Seq(Record)
      BY DEF TypeInv, TypeOK
    <3>2. 1 \in DOMAIN queue /\ Head(queue) = queue[1] /\ Head(queue) \in Record
      BY <2>1, <3>1, Popping
    <3> QED
      BY <2>1, <3>2 DEF Record, AnsweredOnce
  <2>3. \E st \in {"live", "failed"} : wrapper' = [wrapper EXCEPT ![Head(queue).dev] = st]
    BY <1>7 DEF PrepareDevice, PrepareRequestFailed, Wrap
  <2> QED
    BY <1>1, <1>7, <2>2, <2>3 DEF Answering
<1>8. CASE BeginTick \/ EndEvents \/ PrepareError \/ PrepareLoss \/ RetryPipeline
           \/ PreparePipeline \/ QueueEmpty \/ SettleBatch \/ DispatchError \/ EndDrain \/ EndTick
  BY <1>8 DEF BeginTick, EndEvents, PrepareError, PrepareLoss, RetryPipeline, PreparePipeline,
              QueueEmpty, SettleBatch, DispatchError, EndDrain, EndTick
<1> QED
  BY <1>2, <1>3, <1>4, <1>5, <1>6, <1>7, <1>8 DEF Next, Tick, vars

(* A wrapped device stays wrapped, an answered one answered.               *)
LEMMA WrappedStays ==
    ASSUME TypeInv, AnsweredOnce, [Next]_vars, NEW d \in Devices
    PROVE  (Wrapped(d) => Wrapped(d)') /\ (Made(d) => Made(d)')
  BY WrapperStep DEF Wrapped, Made

(* The backend's devices are made by the answer to a request.              *)
LEMMA NativeStep ==
    ASSUME TypeInv, [Next]_vars
    PROVE  /\ adopted' = adopted
           /\ \A n \in Natives :
                 \/ native'[n] = native[n]
                 \/ native[n] # "none"
                 \/ \E d \in Devices : DeviceReady(d, TRUE) /\ n = Handle[d]
<1>1. native \in [Natives -> {"none", "alive", "lost", "reported"}]
  BY DEF TypeInv, TypeOK
<1> USE ConstantsAssumption DEF hostVars
<1>2. CASE Script
  BY <1>1, <1>2 DEF Script, RequestDevice, ScriptError, DestroyDevice, CreatePipelineAsync
<1>3. CASE Collector \/ Producer
  BY <1>3 DEF Collector, Finalize, Finalized, Producer, ReportError, VisitState, EnqueueEvent,
              ProducerDone
<1>4. CASE Backend
  BY <1>1, <1>4 DEF Backend, LoseDevice, LossCallback, DeviceReady, PipelineReady
<1>5. CASE (\E e \in Devices : WrapDevice(e)) \/ \E n \in Natives : ForwardLoss(n)
  BY <1>5 DEF WrapDevice, ForwardLoss
<1>6. CASE Tick
  BY <1>6 DEF Tick, BeginTick, EndEvents, PrepareDevice, PrepareRequestFailed, PrepareError,
              PrepareLoss, RetryPipeline, PreparePipeline, QueueEmpty, SettleBatch,
              DispatchError, EndDrain, EndTick
<1> QED
  BY <1>2, <1>3, <1>4, <1>5, <1>6 DEF Next, vars

(* A settlement joins the batch, or the batch is settled.                  *)
LEMMA BatchStep ==
    ASSUME [Next]_vars
    PROVE  \/ UNCHANGED batch
           \/ SettleBatch /\ batch' = <<>>
           \/ /\ PrepareDevice \/ PrepareRequestFailed
              /\ \E result \in {"resolved", "rejected", "failed"} : Settle("device", Head(queue), result)
           \/ /\ PreparePipeline
              /\ \E result \in {"resolved", "rejected", "failed"} :
                    /\ Settle("pipeline", Head(queue), result)
                    /\ (result = "rejected") = PipelineFails(Head(queue))
           \/ PrepareLoss /\ lostPromise[Head(queue).dev] = "pending"
                          /\ Settle("lost", Head(queue), "resolved")
<1>1. CASE Tick
  <2>1. CASE PrepareDevice
    BY <2>1 DEF PrepareDevice
  <2>2. CASE PrepareRequestFailed
    BY <2>2 DEF PrepareRequestFailed
  <2>3. CASE PreparePipeline
    BY <2>3, Zenon DEF PreparePipeline
  <2>4. CASE PrepareLoss
    BY <2>4 DEF PrepareLoss
  <2> QED
    BY <1>1, <2>1, <2>2, <2>3, <2>4
       DEF Tick, BeginTick, EndEvents, PrepareError, RetryPipeline, QueueEmpty, SettleBatch,
           DispatchError, EndDrain, EndTick, drainVars
<1> QED
  BY <1>1, OutsideTick DEF drainVars

(* Only the preparation of a loss settles it.                              *)
LEMMA SettledStep == [Next]_vars => PrepareLoss \/ UNCHANGED lostSettled
<1>1. Tick => PrepareLoss \/ UNCHANGED lostSettled
  BY DEF Tick, BeginTick, EndEvents, PrepareDevice, PrepareRequestFailed, PrepareError,
         RetryPipeline, PreparePipeline, QueueEmpty, SettleBatch, DispatchError, EndDrain,
         EndTick, stateVars
<1> QED
  BY <1>1, OutsideTick

(* The history variable changes only as a drain begins and a tick ends.    *)
LEMMA LostBeforeStep == [Next]_vars => EndEvents \/ EndTick \/ UNCHANGED lostBefore
<1>1. Tick => EndEvents \/ EndTick \/ UNCHANGED lostBefore
  BY DEF Tick, BeginTick, PrepareDevice, PrepareRequestFailed, PrepareError, PrepareLoss,
         RetryPipeline, PreparePipeline, QueueEmpty, SettleBatch, DispatchError, EndDrain, drainVars
<1> QED
  BY <1>1, OutsideTick DEF drainVars

(* The forwarder visits one of the states it looked up, or is not at one.  *)
LEMMA ProducerStep ==
    ASSUME TypeOK, [Next]_vars
    PROVE  \/ UNCHANGED producer
           \/ \E d \in Devices : VisitState(d)
           \/ \E n \in Natives : /\ ForwardLoss(n)
                                 /\ producer' = [op |-> "lost", todo |-> Registered(n), at |-> None]
           \/ producer'.op # "lost"
           \/ producer'.op = "lost" /\ producer'.todo = producer.todo /\ producer'.at = None
                                    /\ producer.op = "lost"
<1> USE DEF hostVars
<1>1. CASE Script
  BY <1>1 DEF Script, RequestDevice, ScriptError, DestroyDevice, CreatePipelineAsync
<1>2. CASE Collector
  BY <1>2 DEF Collector, Finalize, Finalized
<1>3. CASE Producer
  <2>1. CASE EnqueueEvent
    BY <2>1 DEF EnqueueEvent, TypeOK
  <2>2. CASE ProducerDone
    BY <2>2 DEF ProducerDone, TypeOK
  <2>3. ASSUME NEW n \in Natives, ReportError(n)
        PROVE  producer'.op # "lost"
    BY <2>3 DEF ReportError
  <2> QED
    BY <1>3, <2>1, <2>2, <2>3 DEF Producer
<1>4. CASE Backend
  BY <1>4 DEF Backend, LoseDevice, LossCallback, DeviceReady, PipelineReady
<1>5. CASE (\E e \in Devices : WrapDevice(e)) \/ \E n \in Natives : ForwardLoss(n)
  BY <1>5 DEF WrapDevice, ForwardLoss
<1>6. CASE Tick
  BY <1>6 DEF Tick, BeginTick, EndEvents, PrepareDevice, PrepareRequestFailed, PrepareError,
              PrepareLoss, RetryPipeline, PreparePipeline, QueueEmpty, SettleBatch,
              DispatchError, EndDrain, EndTick
<1> QED
  BY <1>1, <1>2, <1>3, <1>4, <1>5, <1>6 DEF Next, vars

(* What is awaited is only ever asked for by script.                       *)
LEMMA FuturesStep ==
    [Next]_vars =>
       \/ futures' \subseteq futures
       \/ \E d \in Devices : RequestDevice(d)
       \/ \E p \in Pipelines, d \in Devices : CreatePipelineAsync(p, d)
<1> USE DEF callVars
<1>1. CASE Script
  BY <1>1 DEF Script, ScriptError, DestroyDevice
<1>2. CASE Collector \/ Producer
  BY <1>2 DEF Collector, Finalize, Finalized, Producer, ReportError, VisitState, EnqueueEvent,
              ProducerDone
<1>3. CASE Backend
  BY <1>3 DEF Backend, LoseDevice, LossCallback, DeviceReady, PipelineReady
<1>4. CASE (\E e \in Devices : WrapDevice(e)) \/ \E n \in Natives : ForwardLoss(n)
  BY <1>4 DEF WrapDevice, ForwardLoss
<1>5. CASE Tick
  BY <1>5 DEF Tick, BeginTick, EndEvents, PrepareDevice, PrepareRequestFailed, PrepareError,
              PrepareLoss, RetryPipeline, PreparePipeline, QueueEmpty, SettleBatch,
              DispatchError, EndDrain, EndTick
<1> QED
  BY <1>1, <1>2, <1>3, <1>4, <1>5 DEF Next, vars

(* A pipeline call keeps its device, and is only ever made by script.      *)
LEMMA CallStep ==
    ASSUME TypeInv, [Next]_vars, NEW p \in Pipelines
    PROVE  \/ /\ Used(p)' <=> Used(p)
              /\ pipeline'[p].dev = pipeline[p].dev
              /\ pipeline'[p].lostAtStart = pipeline[p].lostAtStart
           \/ /\ ~Used(p)
              /\ \E d \in Devices : CreatePipelineAsync(p, d) /\ pipeline'[p].dev = d
<1> USE DEF callVars
<1>1. CASE UNCHANGED pipeline
  BY <1>1 DEF Used
<1>2. CASE SettleBatch
  BY <1>2, SettledCalls DEF Used
<1>3. ASSUME NEW d \in Devices, NEW q \in Pipelines, CreatePipelineAsync(q, d)
      PROVE  \/ /\ Used(p)' <=> Used(p)
                /\ pipeline'[p].dev = pipeline[p].dev
                /\ pipeline'[p].lostAtStart = pipeline[p].lostAtStart
             \/ ~Used(p) /\ CreatePipelineAsync(p, d) /\ pipeline'[p].dev = d
  BY <1>3 DEF CreatePipelineAsync, Used, TypeInv, TypeOK
<1>4. CASE Script
  BY <1>1, <1>3, <1>4 DEF Script, RequestDevice, ScriptError, DestroyDevice
<1>5. CASE Collector \/ Producer
  BY <1>1, <1>5 DEF Collector, Finalize, Finalized, Producer, ReportError, VisitState,
                    EnqueueEvent, ProducerDone
<1>6. CASE Backend
  BY <1>1, <1>6 DEF Backend, LoseDevice, LossCallback, DeviceReady, PipelineReady
<1>7. CASE (\E e \in Devices : WrapDevice(e)) \/ \E n \in Natives : ForwardLoss(n)
  BY <1>1, <1>7 DEF WrapDevice, ForwardLoss
<1>8. CASE Tick
  BY <1>1, <1>2, <1>8
     DEF Tick, BeginTick, EndEvents, PrepareDevice, PrepareRequestFailed, PrepareError,
         PrepareLoss, RetryPipeline, PreparePipeline, QueueEmpty, DispatchError, EndDrain, EndTick
<1> QED
  BY <1>1, <1>4, <1>5, <1>6, <1>7, <1>8 DEF Next, vars

----------------------------------------------------------------------------
(* Each part of the invariant is kept.                                     *)

(* The locals of the drain are empty outside it.                           *)
LEMMA IdleStep ==
    ASSUME LossInv, [Next]_vars PROVE Idle'
<1> USE DEF Idle
<1>0. Idle /\ TypeInv
  BY DEF LossInv
<1>1. CASE UNCHANGED <<phase, drainVars>>
  BY <1>0, <1>1 DEF drainVars
<1>2. CASE RetryPipeline
  <2>1. queue \in Seq(Record) /\ queue # <<>> /\ Head(queue).kind = "Pipeline"
    BY <1>0, <1>2 DEF RetryPipeline, Preparing, TypeInv, TypeOK
  <2>2. retries \in Seq(Record) /\ Head(queue) \in Record
    BY <1>0, <2>1, Popping DEF TypeInv, TypeOK
  <2>3. retries' = Append(retries, Head(queue)) /\ UNCHANGED <<phase, batch, events>>
    BY <1>2 DEF RetryPipeline
  <2>4. phase = "drain"
    BY <1>2 DEF RetryPipeline, Preparing
  <2>5. \A i \in DOMAIN retries' : retries'[i].kind = "Pipeline"
    BY <1>0, <2>1, <2>2, <2>3, Appending
  <2> QED
    BY <1>0, <2>3, <2>4, <2>5
<1>3. CASE Tick
  <2>1. CASE BeginTick \/ EndEvents \/ QueueEmpty \/ EndDrain \/ EndTick \/ DispatchError
    BY <1>0, <2>1 DEF BeginTick, EndEvents, QueueEmpty, EndDrain, EndTick, DispatchError, drainVars
  <2>2. CASE SettleBatch
    BY <1>0, <2>2 DEF SettleBatch
  <2>3. CASE PrepareDevice \/ PrepareRequestFailed \/ PrepareError \/ PrepareLoss \/ PreparePipeline
    BY <1>0, <2>3 DEF PrepareDevice, PrepareRequestFailed, PrepareError, PrepareLoss,
                      PreparePipeline, Preparing
  <2> QED
    BY <1>2, <1>3, <2>1, <2>2, <2>3 DEF Tick
<1> QED
  BY <1>1, <1>3, OutsideTick

(* A recorded loss is one the state knows of.                              *)
LEMMA KnownLostStep ==
    ASSUME LossInv, [Next]_vars PROVE KnownLost'
<1>0. KnownLost /\ Idle /\ TypeInv /\ TypeOK
  BY DEF LossInv, TypeInv
<1>1. /\ queue \in Seq(Record) /\ retries \in Seq(Record)
      /\ lostSettled \in [Devices -> BOOLEAN]
  BY <1>0 DEF TypeOK
<1>2. ASSUME NEW i \in DOMAIN queue, queue[i].kind = "DeviceLost"
      PROVE  lost'[queue[i].dev]
  <2>1. queue[i].dev \in Devices
    BY <1>1, RecordTypes
  <2> QED
    BY <1>0, <1>2, <2>1, LostStays DEF KnownLost
<1>3. ASSUME NEW d \in Devices, lostSettled'[d]
      PROVE  lost'[d]
  <2>1. CASE PrepareLoss
    <3>1. queue # <<>> /\ Head(queue).kind = "DeviceLost"
      BY <2>1 DEF PrepareLoss, Preparing
    <3>2. 1 \in DOMAIN queue /\ Head(queue) = queue[1]
      BY <1>1, <3>1, Popping
    <3>3. d # Head(queue).dev => lostSettled[d]
      BY <1>1, <1>3, <2>1 DEF PrepareLoss
    <3> QED
      BY <1>0, <1>2, <3>1, <3>2, <3>3, LostStays DEF KnownLost
  <2>2. CASE UNCHANGED lostSettled
    BY <1>0, <1>3, <2>2, LostStays DEF KnownLost
  <2> QED
    BY <2>1, <2>2, SettledStep, Zenon
<1>4. \A i \in DOMAIN queue' : queue'[i].kind = "DeviceLost" => lost'[queue'[i].dev]
  <2>1. CASE UNCHANGED queue
    BY <1>2, <2>1
  <2>2. ASSUME NEW r \in Record, Appends(r)
        PROVE  \A i \in DOMAIN queue' : queue'[i].kind = "DeviceLost" => lost'[queue'[i].dev]
    BY <1>1, <1>2, <2>2, Appending DEF Appends
  <2>3. CASE queue # <<>> /\ queue' = Tail(queue)
    <3>1. ASSUME NEW i \in DOMAIN queue'
          PROVE  i + 1 \in DOMAIN queue /\ queue'[i] = queue[i + 1]
      BY <1>1, <2>3, Popping
    <3> QED
      BY <1>2, <3>1
  <2>4. CASE SettleBatch
    <3>1. queue' = queue \o retries
      BY <2>4 DEF SettleBatch
    <3>2. \A i \in DOMAIN queue' :
             \/ i \in DOMAIN queue /\ queue'[i] = queue[i]
             \/ queue'[i].kind = "Pipeline"
      BY <1>0, <1>1, <3>1, Joining DEF Idle
    <3> QED
      BY <1>2, <3>2
  <2> QED
    BY <1>0, <2>1, <2>2, <2>3, <2>4, QueueStep
<1>5. producer'.op = "lost" /\ producer'.at # None => lost'[producer'.at]
  <2>1. producer.at \in Devices \cup {None}
    BY <1>0 DEF TypeOK
  <2>2. CASE UNCHANGED producer
    BY <1>0, <2>1, <2>2, LostStays DEF KnownLost
  <2>3. ASSUME NEW d \in Devices, VisitState(d), producer'.op = "lost"
        PROVE  lost'[producer'.at]
    <3>1. producer.op = "lost" /\ producer'.at = d
      BY <1>0, <2>3 DEF VisitState, TypeOK
    <3>2. lost' = [lost EXCEPT ![d] = @ \/ TRUE] /\ lost \in [Devices -> BOOLEAN]
      BY <1>0, <2>3, <3>1 DEF VisitState, TypeOK
    <3> QED
      BY <3>1, <3>2
  <2>4. ASSUME producer'.at = None \/ producer'.op # "lost"
        PROVE  producer'.op = "lost" /\ producer'.at # None => lost'[producer'.at]
    BY <2>4
  <2>5. (\E d \in Devices : VisitState(d)) \/ UNCHANGED producer
           \/ producer'.at = None \/ producer'.op # "lost"
    BY <1>0, ProducerStep
  <2> QED
    BY <2>2, <2>3, <2>4, <2>5
<1>6. ASSUME NEW d \in lostBefore'
      PROVE  lost'[d]
  <2>1. CASE EndEvents
    BY <1>0, <1>6, <2>1 DEF EndEvents, stateVars
  <2>2. CASE EndTick
    BY <1>6, <2>2 DEF EndTick
  <2>3. CASE UNCHANGED lostBefore
    BY <1>0, <1>6, <2>3, LostStays DEF KnownLost, TypeOK
  <2> QED
    BY <2>1, <2>2, <2>3, LostBeforeStep
<1> QED
  BY <1>3, <1>4, <1>5, <1>6 DEF KnownLost

(* A request is answered once.                                             *)
LEMMA AnsweredOnceStep ==
    ASSUME LossInv, [Next]_vars PROVE AnsweredOnce'
<1>0. AnsweredOnce /\ KnownLost /\ Idle /\ TypeInv
  BY DEF LossInv
<1>1. queue \in Seq(Record) /\ retries \in Seq(Record)
  BY <1>0 DEF TypeInv, TypeOK
<1>2. ASSUME NEW i \in DOMAIN queue, Answer(queue[i]), ~Answering(queue[i].dev)
      PROVE  wrapper'[queue[i].dev] = "asked"
  <2>1. queue[i].dev \in Devices /\ wrapper[queue[i].dev] = "asked"
    BY <1>0, <1>1, <1>2, RecordTypes DEF AnsweredOnce
  <2> QED
    BY <1>0, <1>2, <2>1, WrapperStep
<1>3. ASSUME NEW d \in Devices, d \in futures, ~Answering(d)
      PROVE  wrapper'[d] = "asked" /\ \A i \in DOMAIN queue : Answer(queue[i]) => queue[i].dev # d
  BY <1>0, <1>3, WrapperStep DEF AnsweredOnce
<1>4. ASSUME UNCHANGED queue
      PROVE  \A d : ~Answering(d)
  BY <1>1, <1>4, Popping DEF Answering, PrepareDevice, PrepareRequestFailed, Preparing
<1>5. CASE UNCHANGED queue /\ futures' \subseteq futures
  BY <1>0, <1>2, <1>3, <1>4, <1>5 DEF AnsweredOnce
<1>6. ASSUME NEW d \in Devices, RequestDevice(d)
      PROVE  AnsweredOnce'
  <2>1. UNCHANGED queue /\ futures' = futures \cup {d} /\ wrapper[d] = "none" /\ wrapper'[d] = "asked"
    BY <1>0, <1>6 DEF RequestDevice, TypeInv, TypeOK
  <2>2. \A i \in DOMAIN queue : Answer(queue[i]) => queue[i].dev # d
    BY <1>0, <2>1 DEF AnsweredOnce
  <2> QED
    BY <1>0, <1>2, <1>3, <1>4, <2>1, <2>2 DEF AnsweredOnce
<1>7. ASSUME NEW p \in Pipelines, NEW d \in Devices, CreatePipelineAsync(p, d)
      PROVE  AnsweredOnce'
  <2>1. UNCHANGED queue /\ futures' = futures \cup {p} /\ p \notin Devices
    BY <1>7, ConstantsAssumption DEF CreatePipelineAsync
  <2> QED
    BY <1>0, <1>2, <1>3, <1>4, <2>1 DEF AnsweredOnce
<1>8. ASSUME NEW r \in Record, Appends(r)
      PROVE  AnsweredOnce'
  <2>1. /\ DOMAIN queue' = 1..(Len(queue) + 1) /\ DOMAIN queue = 1..Len(queue) /\ Len(queue) \in Nat
        /\ \A i \in DOMAIN queue : queue'[i] = queue[i]
        /\ queue'[Len(queue) + 1] = r
    BY <1>1, <1>8, Appending DEF Appends
  <2>2. wrapper' = wrapper /\ futures' \subseteq futures
    BY <1>8 DEF Appends
  <2>3. r.dev \in Devices
    BY DEF Record
  <2>4. Answer(r) => /\ wrapper[r.dev] = "asked" /\ r.dev \notin futures'
                     /\ \A i \in DOMAIN queue : Answer(queue[i]) => queue[i].dev # r.dev
    BY <1>0, <1>8, <2>3 DEF Appends, AnsweredOnce
  <2>5. \A i \in DOMAIN queue' : i \in DOMAIN queue \/ i = Len(queue) + 1
    BY <2>1
  <2> QED
    BY <1>0, <2>1, <2>2, <2>4, <2>5 DEF AnsweredOnce
<1>9. CASE Tick /\ queue # <<>> /\ queue' = Tail(queue)
  <2>1. futures' = futures
    BY <1>9 DEF Tick, BeginTick, EndEvents, PrepareDevice, PrepareRequestFailed, PrepareError,
                PrepareLoss, RetryPipeline, PreparePipeline, QueueEmpty, SettleBatch,
                DispatchError, EndDrain, EndTick, callVars
  <2>2. ASSUME NEW i \in DOMAIN queue'
        PROVE  i + 1 \in DOMAIN queue /\ queue'[i] = queue[i + 1] /\ i \in Nat /\ i + 1 # 1
    BY <1>1, <1>9, Popping
  <2>3. 1 \in DOMAIN queue /\ Head(queue) = queue[1]
    BY <1>1, <1>9, Popping
  <2>4. ASSUME NEW i \in DOMAIN queue', Answer(queue'[i])
        PROVE  wrapper'[queue'[i].dev] = "asked"
    <3>1. \A d : Answering(d) => Answer(queue[1]) /\ queue[1].dev = d
      BY <2>3 DEF Answering, PrepareDevice, PrepareRequestFailed, Preparing, Answer
    <3>2. ~Answering(queue[i + 1].dev)
      BY <1>0, <2>2, <2>3, <2>4, <3>1 DEF AnsweredOnce
    <3> QED
      BY <1>2, <2>2, <2>4, <3>2
  <2>5. ASSUME NEW d \in Devices, d \in futures
        PROVE  ~Answering(d)
    BY <1>0, <2>3, <2>5
       DEF AnsweredOnce, Answering, PrepareDevice, PrepareRequestFailed, Preparing, Answer
  <2>6. ASSUME NEW i \in DOMAIN queue', NEW j \in DOMAIN queue',
               Answer(queue'[i]), Answer(queue'[j]), queue'[i].dev = queue'[j].dev
        PROVE  i = j
    <3>1. i + 1 = j + 1
      BY <1>0, <2>2, <2>6 DEF AnsweredOnce
    <3> QED
      BY <2>2, <3>1
  <2> QED
    BY <1>3, <2>1, <2>2, <2>4, <2>5, <2>6 DEF AnsweredOnce
<1>10. CASE SettleBatch
  <2>1. queue' = queue \o retries /\ UNCHANGED <<futures, wrapper>>
    BY <1>10 DEF SettleBatch, wrapperVars
  <2>2. \A i \in DOMAIN queue' :
             \/ i \in DOMAIN queue /\ queue'[i] = queue[i]
             \/ queue'[i].kind = "Pipeline"
    BY <1>0, <1>1, <2>1, Joining DEF Idle
  <2> QED
    BY <1>0, <2>1, <2>2 DEF AnsweredOnce, Answer
<1> QED
  BY <1>0, <1>5, <1>6, <1>7, <1>8, <1>9, <1>10, QueueStep, FuturesStep

(* A queued device stays queued, or is wrapped.                            *)
LEMMA QueuedStays ==
    ASSUME LossInv, [Next]_vars, NEW d \in Devices, NEW i \in DOMAIN queue,
           queue[i].kind = "Device", queue[i].dev = d
    PROVE  \/ Made(d)'
           \/ /\ UNCHANGED queue \/ (\E r \in Record : Appends(r)) \/ SettleBatch
              /\ i \in DOMAIN queue' /\ queue'[i] = queue[i]
           \/ /\ Tick /\ queue # <<>> /\ queue' = Tail(queue)
              /\ i - 1 \in DOMAIN queue' /\ queue'[i - 1] = queue[i]
<1>0. KnownLost /\ Idle /\ TypeInv
  BY DEF LossInv
<1>1. queue \in Seq(Record) /\ retries \in Seq(Record)
  BY <1>0 DEF TypeInv, TypeOK
<1>2. ASSUME NEW r \in Record, Appends(r)
      PROVE  i \in DOMAIN queue' /\ queue'[i] = queue[i]
  BY <1>1, <1>2, Appending DEF Appends
<1>3. CASE SettleBatch
  <2>1. queue' = queue \o retries
    BY <1>3 DEF SettleBatch
  <2>2. i \in DOMAIN queue' /\ queue'[i] = queue[i]
    BY <1>1, <2>1, Joining
  <2> QED
    BY <1>3, <2>2
<1>4. CASE Tick /\ queue # <<>> /\ queue' = Tail(queue)
  <2>1. CASE i = 1
    <3>1. Head(queue).kind = "Device" /\ Head(queue).dev = d
      BY <1>1, <1>4, <2>1, Popping
    <3>2. queue' # queue
      BY <1>1, <1>4, Popping
    <3>3. PrepareDevice \/ SettleBatch
      BY <1>4, <3>1, <3>2
         DEF Tick, BeginTick, EndEvents, PrepareRequestFailed, PrepareError, PrepareLoss,
             RetryPipeline, PreparePipeline, QueueEmpty, DispatchError, EndDrain, EndTick, Preparing
    <3>4. PrepareDevice => Made(d)'
      BY <1>0, <3>1 DEF PrepareDevice, Wrap, Made, TypeInv, TypeOK
    <3> QED
      BY <1>3, <3>3, <3>4
  <2>2. CASE i # 1
    BY <1>1, <1>4, <2>2, Popping
  <2> QED
    BY <2>1, <2>2
<1> QED
  BY <1>0, <1>2, <1>3, <1>4, QueueStep

(* A loss is never told before its device.                                 *)
LEMMA DeviceBeforeLossStep ==
    ASSUME LossInv, [Next]_vars PROVE DeviceBeforeLoss'
<1>0. TypeInv /\ AnsweredOnce /\ KnownLost /\ Idle /\ ForwardsToWrapped /\ DeviceBeforeLoss
  BY DEF LossInv
<1>1. queue \in Seq(Record) /\ retries \in Seq(Record) /\ queue' \in Seq(Record)
  BY <1>0, TypeStep DEF TypeInv, TypeOK
<1>2. adopted' = adopted
  BY <1>0, NativeStep
<1>3. \A d, e \in Devices : Handle[d] = Handle[e] /\ Handle[d] \notin adopted' => d = e
  BY <1>0, <1>2 DEF DeviceBeforeLoss
<1>4. ASSUME NEW d \in Devices, Made(d)
      PROVE  Made(d)'
  BY <1>0, <1>4, WrappedStays
<1>5. ASSUME NEW d \in Devices, Handle[d] \notin adopted', native'[Handle[d]] # "none"
      PROVE  (Made(d) \/ DeviceQueued(d, Len(queue) + 1))'
  <2>0. Len(queue') \in Nat /\ DOMAIN queue' = 1..Len(queue')
    BY <1>1
  <2>1. CASE Made(d)
    BY <1>4, <2>1
  <2>2. ASSUME NEW i \in DOMAIN queue, queue[i].kind = "Device", queue[i].dev = d
        PROVE  (Made(d) \/ DeviceQueued(d, Len(queue) + 1))'
    <3>1. Made(d)' \/ \E j \in DOMAIN queue' : queue'[j] = queue[i]
      BY <2>2, QueuedStays
    <3> QED
      BY <2>0, <2>2, <3>1 DEF DeviceQueued
  <2>3. ASSUME native[Handle[d]] = "none"
        PROVE  (Made(d) \/ DeviceQueued(d, Len(queue) + 1))'
    <3>1. Handle[d] \in Natives
      BY ConstantsAssumption
    <3>2. PICK e \in Devices : DeviceReady(e, TRUE) /\ Handle[d] = Handle[e]
      BY <1>0, <1>5, <2>3, <3>1, NativeStep
    <3>3. e = d
      BY <1>2, <1>3, <1>5, <3>2
    <3>4. queue' = Append(queue, Event("Device", d))
      BY <3>2, <3>3 DEF DeviceReady
    <3>5. Event("Device", d) \in Record /\ Event("Device", d).kind = "Device" /\ Event("Device", d).dev = d
      BY DEF Event, Record
    <3>6. \E i \in DOMAIN queue' : queue'[i].kind = "Device" /\ queue'[i].dev = d
      BY <1>1, <3>4, <3>5, Appending
    <3> QED
      BY <2>0, <3>6 DEF DeviceQueued
  <2> QED
    BY <1>0, <1>2, <1>5, <2>1, <2>2, <2>3 DEF DeviceBeforeLoss, DeviceQueued
<1>6. ASSUME NEW i \in DOMAIN queue', NEW d, queue'[i].kind = "DeviceLost", queue'[i].dev = d
      PROVE  (Made(d) \/ DeviceQueued(d, i))'
  <2>0. d \in Devices /\ i \in Nat
    BY <1>1, <1>6, RecordTypes
  <2>1. ASSUME i \in DOMAIN queue, queue'[i] = queue[i],
               \A j \in DOMAIN queue : j < i => j \in DOMAIN queue' /\ queue'[j] = queue[j]
        PROVE  (Made(d) \/ DeviceQueued(d, i))'
    <3>1. Made(d) \/ DeviceQueued(d, i)
      BY <1>0, <1>6, <2>1 DEF DeviceBeforeLoss
    <3>2. DeviceQueued(d, i) => DeviceQueued(d, i)'
      BY <2>1 DEF DeviceQueued
    <3> QED
      BY <1>4, <2>0, <3>1, <3>2 DEF DeviceQueued
  <2>2. CASE UNCHANGED queue
    BY <1>6, <2>1, <2>2
  <2>3. ASSUME NEW r \in Record, Appends(r)
        PROVE  (Made(d) \/ DeviceQueued(d, i))'
    <3>1. /\ DOMAIN queue = 1..Len(queue) /\ Len(queue) \in Nat
          /\ DOMAIN queue' = 1..(Len(queue) + 1)
          /\ \A j \in DOMAIN queue : queue'[j] = queue[j]
          /\ queue'[Len(queue) + 1] = r
      BY <1>1, <2>3, Appending DEF Appends
    <3>2. CASE i \in DOMAIN queue
      BY <2>1, <3>1, <3>2
    <3>3. CASE i = Len(queue) + 1
      <4>1. LossSource(d) /\ r.dev = d
        BY <1>6, <2>3, <3>1, <3>3 DEF Appends
      <4>2. CASE producer.op = "lost" /\ producer.at = d
        <5>1. Wrapped(d)
          BY <1>0, <2>0, <4>2, ConstantsAssumption DEF ForwardsToWrapped
        <5> QED
          BY <1>4, <2>0, <5>1 DEF Wrapped, Made
      <4>3. CASE Handle[d] \notin adopted /\ native[Handle[d]] = "lost"
        <5>1. Made(d) \/ DeviceQueued(d, Len(queue) + 1)
          BY <1>0, <2>0, <4>3 DEF DeviceBeforeLoss
        <5>2. DeviceQueued(d, Len(queue) + 1) => DeviceQueued(d, i)'
          BY <3>1, <3>3 DEF DeviceQueued
        <5> QED
          BY <1>4, <2>0, <5>1, <5>2 DEF DeviceQueued
      <4> QED
        BY <4>1, <4>2, <4>3 DEF LossSource
    <3> QED
      BY <1>6, <3>1, <3>2, <3>3
  <2>4. CASE Tick /\ queue # <<>> /\ queue' = Tail(queue)
    <3>1. i + 1 \in DOMAIN queue /\ queue[i + 1] = queue'[i] /\ DOMAIN queue \subseteq Nat
      BY <1>1, <1>6, <2>4, Popping
    <3>2. CASE Made(d)
      BY <1>4, <2>0, <3>2
    <3>3. ASSUME NEW j \in DOMAIN queue, j < i + 1, queue[j].kind = "Device", queue[j].dev = d
          PROVE  (Made(d) \/ DeviceQueued(d, i))'
      <4>1. \/ Made(d)'
            \/ j \in DOMAIN queue' /\ queue'[j] = queue[j]
            \/ j - 1 \in DOMAIN queue' /\ queue'[j - 1] = queue[j]
        BY <2>0, <3>3, QueuedStays
      <4>2. CASE j \in DOMAIN queue' /\ queue'[j] = queue[j]
        <5>1. j # i
          BY <1>6, <3>3, <4>2
        <5>2. j < i
          BY <2>0, <3>1, <3>3, <5>1
        <5> QED
          BY <3>3, <4>2, <5>2 DEF DeviceQueued
      <4>3. CASE j - 1 \in DOMAIN queue' /\ queue'[j - 1] = queue[j]
        <5>1. j - 1 < i
          BY <2>0, <3>1, <3>3
        <5> QED
          BY <3>3, <4>3, <5>1 DEF DeviceQueued
      <4> QED
        BY <4>1, <4>2, <4>3
    <3> QED
      BY <1>0, <1>6, <3>1, <3>2, <3>3 DEF DeviceBeforeLoss, DeviceQueued
  <2>5. CASE SettleBatch
    <3>1. queue' = queue \o retries
      BY <2>5 DEF SettleBatch
    <3>2. i \in DOMAIN queue /\ \A j \in DOMAIN queue : j \in DOMAIN queue' /\ queue'[j] = queue[j]
      BY <1>0, <1>1, <1>6, <3>1, Joining DEF Idle
    <3> QED
      BY <2>1, <3>2
  <2> QED
    BY <1>0, <2>2, <2>3, <2>4, <2>5, QueueStep
<1> QED
  BY <1>3, <1>5, <1>6 DEF DeviceBeforeLoss


(* A wrapper is registered as it is made, and pruned once it is finalized  *)
(* and its loss settled.                                                   *)
LEMMA RegisteredStep ==
    ASSUME TypeInv, Finalizing, AnsweredOnce, [Next]_vars, NEW d \in Devices
    PROVE  /\ d \in registered' => d \in registered \/ wrapper'[d] = "live"
           /\ d \in registered /\ d \notin registered'
              => wrapper'[d] = "finalized" /\ lostSettled'[d]
<1>1. /\ wrapper \in [Devices -> {"none", "asked", "live", "finalized", "failed"}]
      /\ lostSettled \in [Devices -> BOOLEAN]
  BY DEF TypeInv, TypeOK
<1> USE DEF wrapperVars, stateVars
<1>2. CASE UNCHANGED registered
  BY <1>2
<1>3. ASSUME NEW e \in Devices, NEW made \in BOOLEAN, Wrap(e, made)
      PROVE  /\ d \in registered' => d \in registered \/ wrapper'[d] = "live"
             /\ registered \subseteq registered'
  BY <1>1, <1>3 DEF Wrap
<1>4. ASSUME NEW e \in Devices, WrapDevice(e)
      PROVE  /\ d \in registered' => d \in registered \/ wrapper'[d] = "live"
             /\ registered \subseteq registered'
  BY <1>3, <1>4 DEF WrapDevice
<1>5. CASE PrepareDevice
  <2>1. queue \in Seq(Record) /\ queue # <<>>
    BY <1>5 DEF PrepareDevice, Preparing, TypeInv, TypeOK
  <2>2. Head(queue).dev \in Devices
    BY <2>1, HeadRecord
  <2>3. \E made \in BOOLEAN : Wrap(Head(queue).dev, made)
    BY <1>5 DEF PrepareDevice
  <2> QED
    BY <1>3, <2>2, <2>3
<1>6. ASSUME NEW e \in Devices, Finalize(e)
      PROVE  /\ registered' \subseteq registered
             /\ d \in registered /\ d \notin registered'
                => wrapper'[d] = "finalized" /\ lostSettled'[d]
  <2>1. /\ registered' = IF lostSettled[e] THEN registered \ {e} ELSE registered
        /\ wrapper' = [wrapper EXCEPT ![e] = "finalized"] /\ lostSettled' = lostSettled
    BY <1>6 DEF Finalize
  <2>2. d \in registered /\ d \notin registered' => d = e /\ lostSettled[e]
    BY <2>1
  <2>3. wrapper'[e] = "finalized"
    BY <1>1, <2>1
  <2>4. d = e /\ lostSettled[e] => wrapper'[d] = "finalized" /\ lostSettled'[d]
    BY <2>1, <2>3, Zenon
  <2>5. registered' \subseteq registered
    BY <2>1
  <2> QED
    BY <2>2, <2>4, <2>5, Zenon
<1>7. CASE PrepareLoss
  <2>1. queue \in Seq(Record) /\ queue # <<>>
    BY <1>7 DEF PrepareLoss, Preparing, TypeInv, TypeOK
  <2>2. Head(queue).dev \in Devices
    BY <2>1, HeadRecord
  <2> DEFINE e == Head(queue).dev
  <2>3. PICK seen \in IF e \in finalizing THEN BOOLEAN ELSE {wrapper[e] = "finalized"} :
           registered' = IF seen THEN registered \ {e} ELSE registered
    BY <1>7 DEF PrepareLoss
  <2>4. seen => wrapper[e] = "finalized"
    BY <2>3 DEF Finalizing
  <2>5. wrapper' = wrapper /\ lostSettled' = [lostSettled EXCEPT ![e] = TRUE]
    BY <1>7 DEF PrepareLoss
  <2>6. lostSettled'[e]
    BY <1>1, <2>2, <2>5
  <2> QED
    BY <2>3, <2>4, <2>5, <2>6
<1>8. CASE Script \/ Producer \/ Backend
  BY <1>2, <1>8
     DEF Script, RequestDevice, ScriptError, DestroyDevice, CreatePipelineAsync, Producer,
         ReportError, VisitState, EnqueueEvent, ProducerDone, Backend, LoseDevice, LossCallback,
         DeviceReady, PipelineReady
<1>9. CASE BeginTick \/ EndEvents \/ PrepareRequestFailed \/ PrepareError \/ RetryPipeline
           \/ PreparePipeline \/ QueueEmpty \/ SettleBatch \/ DispatchError \/ EndDrain \/ EndTick
  BY <1>2, <1>9
     DEF BeginTick, EndEvents, PrepareRequestFailed, PrepareError, RetryPipeline, PreparePipeline,
         QueueEmpty, SettleBatch, DispatchError, EndDrain, EndTick
<1>10. CASE Collector
  BY <1>2, <1>6, <1>10 DEF Collector, Finalized
<1>11. CASE \E n \in Natives : ForwardLoss(n)
  BY <1>2, <1>11 DEF ForwardLoss
<1> QED
  BY <1>2, <1>4, <1>5, <1>7, <1>8, <1>9, <1>10, <1>11 DEF Next, Tick, vars

(* A running finalizer's wrapper is marked.                                *)
LEMMA FinalizingStep ==
    ASSUME LossInv, [Next]_vars PROVE Finalizing'
<1>0. TypeInv /\ AnsweredOnce /\ Finalizing
  BY DEF LossInv
<1>1. ASSUME NEW d \in finalizing
      PROVE  wrapper'[d] = "finalized"
  <2>1. d \in Devices /\ wrapper[d] = "finalized"
    BY <1>0 DEF Finalizing, TypeInv, TypeOK
  <2> QED
    BY <1>0, <2>1, WrapperStep
<1>2. ASSUME NEW d \in Devices, Finalize(d)
      PROVE  finalizing' = finalizing \cup {d} /\ wrapper'[d] = "finalized"
  BY <1>0, <1>2 DEF Finalize, TypeInv, TypeOK
<1>3. (\E d \in Devices : Finalize(d)) \/ finalizing' \subseteq finalizing
  <2> USE DEF wrapperVars
  <2>1. CASE Script \/ Producer \/ Backend
    BY <2>1
       DEF Script, RequestDevice, ScriptError, DestroyDevice, CreatePipelineAsync, Producer,
           ReportError, VisitState, EnqueueEvent, ProducerDone, Backend, LoseDevice, LossCallback,
           DeviceReady, PipelineReady
  <2>2. CASE Tick
    BY <2>2 DEF Tick, BeginTick, EndEvents, PrepareDevice, PrepareRequestFailed, PrepareError,
                PrepareLoss, RetryPipeline, PreparePipeline, QueueEmpty, SettleBatch,
                DispatchError, EndDrain, EndTick
  <2>3. CASE Collector
    BY <2>3 DEF Collector, Finalized
  <2>4. CASE (\E e \in Devices : WrapDevice(e)) \/ \E n \in Natives : ForwardLoss(n)
    BY <2>4 DEF WrapDevice, ForwardLoss
  <2> QED
    BY <2>1, <2>2, <2>3, <2>4 DEF Next, vars
<1> QED
  BY <1>1, <1>2, <1>3 DEF Finalizing

(* The forwarder only sees wrapped devices.                                *)
LEMMA ForwardsToWrappedStep ==
    ASSUME LossInv, [Next]_vars PROVE ForwardsToWrapped'
<1>0. TypeInv /\ TypeOK /\ AnsweredOnce /\ Finalizing /\ ForwardsToWrapped
  BY DEF LossInv, TypeInv
<1>1. /\ registered \subseteq Devices /\ registered' \subseteq Devices
      /\ producer \in [op : {"idle", "error", "lost"}, todo : SUBSET Devices,
                       at : Devices \cup {None}]
  BY <1>0, TypeStep DEF TypeOK
<1>2. ASSUME NEW d \in Devices, Wrapped(d)
      PROVE  Wrapped(d)'
  BY <1>0, <1>2, WrappedStays
<1>3. ASSUME NEW d \in registered'
      PROVE  Wrapped(d)'
  BY <1>0, <1>1, <1>2, <1>3, RegisteredStep DEF ForwardsToWrapped, Wrapped
<1>4. ASSUME producer'.op = "lost"
      PROVE  /\ \A d \in producer'.todo : Wrapped(d)'
             /\ producer'.at # None => Wrapped(producer.at)'
  <2>1. CASE UNCHANGED producer
    BY <1>0, <1>1, <1>2, <1>4, <2>1 DEF ForwardsToWrapped
  <2>2. ASSUME NEW d \in Devices, VisitState(d)
        PROVE  /\ \A e \in producer'.todo : Wrapped(e)'
               /\ producer'.at # None => Wrapped(producer.at)'
    <3>1. /\ producer.op = "lost" /\ d \in producer.todo
          /\ producer'.todo \subseteq producer.todo /\ producer'.at = d
      BY <1>1, <1>4, <2>2 DEF VisitState
    <3>2. \A e \in producer.todo : Wrapped(e)'
      BY <1>0, <1>1, <1>2, <3>1 DEF ForwardsToWrapped
    <3>3. Wrapped(producer.at)'
      BY <3>1, <3>2 DEF Wrapped
    <3> QED
      BY <3>1, <3>2, <3>3
  <2>3. ASSUME NEW n \in Natives,
               producer' = [op |-> "lost", todo |-> Registered(n), at |-> None]
        PROVE  /\ \A e \in producer'.todo : Wrapped(e)'
               /\ producer'.at # None => Wrapped(producer.at)'
    BY <1>0, <1>1, <1>2, <2>3 DEF ForwardsToWrapped, Registered
  <2>4. CASE producer'.todo = producer.todo /\ producer'.at = None /\ producer.op = "lost"
    BY <1>0, <1>1, <1>2, <2>4 DEF ForwardsToWrapped
  <2> QED
    BY <1>0, <1>4, <2>1, <2>2, <2>3, <2>4, ProducerStep
<1> QED
  BY <1>3, <1>4 DEF ForwardsToWrapped


(* What can change a lost promise, and the batch that settles it.          *)
PromiseUnchanged == UNCHANGED <<wrapper, lostSettled, lostPromise, batch>>

LEMMA PromiseActions ==
    ASSUME [Next]_vars
    PROVE  \/ PromiseUnchanged
           \/ \E d \in Devices : RequestDevice(d) \/ WrapDevice(d) \/ Finalize(d)
           \/ PrepareDevice \/ PrepareRequestFailed \/ PreparePipeline \/ PrepareLoss
           \/ SettleBatch
<1> USE DEF wrapperVars, stateVars, drainVars, PromiseUnchanged
<1>1. CASE Script
  BY <1>1 DEF Script, ScriptError, DestroyDevice, CreatePipelineAsync
<1>2. CASE Collector \/ Producer
  BY <1>2 DEF Collector, Finalized, Producer, ReportError, VisitState, EnqueueEvent, ProducerDone
<1>3. CASE Backend
  BY <1>3 DEF Backend, LoseDevice, LossCallback, DeviceReady, PipelineReady
<1>4. CASE \E n \in Natives : ForwardLoss(n)
  BY <1>4 DEF ForwardLoss
<1>5. CASE Tick
  BY <1>5 DEF Tick, BeginTick, EndEvents, PrepareError, RetryPipeline, QueueEmpty, DispatchError,
              EndDrain, EndTick
<1> QED
  BY <1>1, <1>2, <1>3, <1>4, <1>5 DEF Next, vars

(* A lost promise is made with its wrapper, taken by the loss and settled  *)
(* with the batch.                                                         *)
LEMMA PromiseStep ==
    ASSUME LossInv, [Next]_vars, NEW d \in Devices
    PROVE  \/ lostPromise'[d] = lostPromise[d]
           \/ lostPromise[d] = "none" /\ lostPromise'[d] = "pending"
           \/ /\ PrepareLoss /\ Head(queue).dev = d
              /\ lostPromise[d] = "pending" /\ lostPromise'[d] = "taken"
           \/ SettleBatch /\ lostPromise[d] = "taken" /\ lostPromise'[d] = "resolved"
<1>0. TypeInv /\ AnsweredOnce /\ LossTold
  BY DEF LossInv
<1>1. /\ wrapper \in [Devices -> {"none", "asked", "live", "finalized", "failed"}]
      /\ lostPromise \in [Devices -> {"none", "pending", "taken", "resolved"}]
      /\ queue \in Seq(Record)
  BY <1>0 DEF TypeInv, TypeOK
<1> USE DEF stateVars, wrapperVars
<1>2. ASSUME NEW e \in Devices, NEW made \in BOOLEAN, Wrap(e, made), wrapper[e] \in {"none", "asked"}
      PROVE  \/ lostPromise'[d] = lostPromise[d]
             \/ lostPromise[d] = "none" /\ lostPromise'[d] = "pending"
  <2>1. lostPromise[e] = "none"
    BY <1>0, <1>2 DEF LossTold, Wrapped
  <2> QED
    BY <1>1, <1>2, <2>1 DEF Wrap
<1>3. ASSUME NEW e \in Devices, WrapDevice(e)
      PROVE  \/ lostPromise'[d] = lostPromise[d]
             \/ lostPromise[d] = "none" /\ lostPromise'[d] = "pending"
  BY <1>2, <1>3 DEF WrapDevice
<1>4. CASE PrepareDevice
  <2>1. queue # <<>> /\ Head(queue).kind = "Device"
    BY <1>4 DEF PrepareDevice, Preparing
  <2>2. Head(queue).dev \in Devices /\ wrapper[Head(queue).dev] = "asked"
    BY <1>0, <1>1, <2>1, HeadRecord DEF AnsweredOnce, Answer
  <2>3. \E made \in BOOLEAN : Wrap(Head(queue).dev, made)
    BY <1>4 DEF PrepareDevice
  <2> QED
    BY <1>2, <2>2, <2>3
<1>5. CASE PrepareLoss
  BY <1>1, <1>5 DEF PrepareLoss
<1>6. CASE SettleBatch
  BY <1>1, <1>6 DEF SettleBatch
<1>7. CASE PromiseUnchanged \/ PrepareRequestFailed \/ PreparePipeline
           \/ \E e \in Devices : RequestDevice(e) \/ Finalize(e)
  BY <1>7 DEF PromiseUnchanged, PrepareRequestFailed, PreparePipeline, RequestDevice, Finalize
<1> QED
  BY <1>3, <1>4, <1>5, <1>6, <1>7, PromiseActions

(* A batch only grows until it is settled.                                 *)
LEMMA BatchGrows ==
    ASSUME TypeInv, [Next]_vars
    PROVE  \/ UNCHANGED batch
           \/ SettleBatch /\ batch' = <<>>
           \/ /\ Len(batch) \in Nat /\ DOMAIN batch = 1..Len(batch)
              /\ DOMAIN batch' = 1..(Len(batch) + 1)
              /\ \A i \in DOMAIN batch : batch'[i] = batch[i]
              /\ queue # <<>> /\ Head(queue) \in QueuedRecord /\ Head(queue).dev \in Devices
              /\ batch'[Len(batch) + 1].dev = Head(queue).dev
              /\ batch'[Len(batch) + 1].pipe = Head(queue).pipe
              /\ LET s == batch'[Len(batch) + 1] IN
                 \/ s.kind = "device" /\ (PrepareDevice \/ PrepareRequestFailed)
                 \/ /\ s.kind = "pipeline" /\ PreparePipeline
                    /\ (s.result = "rejected") = PipelineFails(Head(queue))
                 \/ /\ s.kind = "lost" /\ PrepareLoss
                    /\ lostPromise[Head(queue).dev] = "pending"
<1>1. batch \in Seq(Settlement) /\ queue \in Seq(QueuedRecord) /\ queue \in Seq(Record)
  BY DEF TypeInv, TypeOK, CallsUsed
<1>2. ASSUME queue # <<>>
      PROVE  Head(queue) \in QueuedRecord /\ Head(queue).dev \in Devices /\ Head(queue) \in Record
  BY <1>1, <1>2, HeadRecord, Popping
<1>3. PrepareDevice \/ PrepareRequestFailed \/ PreparePipeline \/ PrepareLoss => queue # <<>>
  BY DEF PrepareDevice, PrepareRequestFailed, PreparePipeline, PrepareLoss, Preparing
<1>4. ASSUME NEW k \in {"device", "pipeline", "lost"}, NEW result \in {"resolved", "rejected", "failed"},
             queue # <<>>, Settle(k, Head(queue), result)
      PROVE  /\ Len(batch) \in Nat /\ DOMAIN batch = 1..Len(batch)
             /\ DOMAIN batch' = 1..(Len(batch) + 1)
             /\ \A i \in DOMAIN batch : batch'[i] = batch[i]
             /\ Head(queue) \in QueuedRecord /\ Head(queue).dev \in Devices
             /\ batch'[Len(batch) + 1] =
                   [kind |-> k, dev |-> Head(queue).dev, pipe |-> Head(queue).pipe, result |-> result]
  <2>1. [kind |-> k, dev |-> Head(queue).dev, pipe |-> Head(queue).pipe, result |-> result]
           \in Settlement
    BY <1>2, <1>4 DEF Record, Settlement
  <2> QED
    BY <1>1, <1>2, <1>4, <2>1, Appending DEF Settle
<1>5. CASE PrepareDevice \/ PrepareRequestFailed
  <2>1. CASE \E result \in {"resolved", "rejected", "failed"} : Settle("device", Head(queue), result)
    BY <1>3, <1>4, <1>5, <2>1
  <2> QED
    BY <1>5, <2>1 DEF PrepareDevice, PrepareRequestFailed
<1>6. CASE PreparePipeline
  <2>1. PICK result \in {"resolved", "rejected", "failed"} :
           /\ (result = "rejected") = PipelineFails(Head(queue))
           /\ Settle("pipeline", Head(queue), result)
    BY <1>6, Zenon DEF PreparePipeline
  <2> QED
    BY <1>3, <1>4, <1>6, <2>1
<1>7. CASE PrepareLoss /\ lostPromise[Head(queue).dev] = "pending"
                       /\ Settle("lost", Head(queue), "resolved")
  BY <1>3, <1>4, <1>7
<1> QED
  BY <1>5, <1>6, <1>7, BatchStep


(* The state of a loss that is told is that of a wrapper already made.     *)
LEMMA LossOnMade ==
    ASSUME LossInv, PrepareLoss
    PROVE  /\ Head(queue).dev \in Devices /\ Made(Head(queue).dev)
           /\ lost[Head(queue).dev]
<1>0. TypeInv /\ DeviceBeforeLoss /\ KnownLost
  BY DEF LossInv
<1>1. queue \in Seq(Record) /\ queue # <<>> /\ Head(queue).kind = "DeviceLost"
  BY <1>0 DEF PrepareLoss, Preparing, TypeInv, TypeOK
<1>2. 1 \in DOMAIN queue /\ Head(queue) = queue[1] /\ Head(queue).dev \in Devices
  BY <1>1, HeadRecord
<1>3. DOMAIN queue = 1..Len(queue) /\ Len(queue) \in Nat
  BY <1>1
<1>4. Made(queue[1].dev) \/ DeviceQueued(queue[1].dev, 1)
  BY <1>0, <1>1, <1>2 DEF DeviceBeforeLoss
<1>5. ~DeviceQueued(queue[1].dev, 1)
  BY <1>3 DEF DeviceQueued
<1>6. lost[queue[1].dev]
  BY <1>0, <1>1, <1>2 DEF KnownLost
<1> QED
  BY <1>2, <1>4, <1>5, <1>6

(* The lost promise of a wrapper waits until its loss is told.             *)
LEMMA LossToldStep ==
    ASSUME LossInv, [Next]_vars PROVE LossTold'
<1>0. TypeInv /\ AnsweredOnce /\ LossTold
  BY DEF LossInv
<1>1. /\ wrapper \in [Devices -> {"none", "asked", "live", "finalized", "failed"}]
      /\ lostPromise \in [Devices -> {"none", "pending", "taken", "resolved"}]
      /\ lostSettled \in [Devices -> BOOLEAN]
      /\ queue \in Seq(Record)
  BY <1>0 DEF TypeInv, TypeOK
<1> USE DEF stateVars, wrapperVars, drainVars
<1>2. ASSUME NEW d \in Devices
      PROVE  /\ wrapper[d] \in {"none", "asked"} => ~lostSettled[d]
             /\ Wrapped(d) <=> lostPromise[d] # "none"
             /\ Wrapped(d) /\ lostSettled[d] => lostPromise[d] # "pending"
             /\ lostPromise[d] \in {"taken", "resolved"} => lostSettled[d]
             /\ lostPromise[d] = "taken" =>
                   \E i \in DOMAIN batch : batch[i].kind = "lost" /\ batch[i].dev = d
  BY <1>0 DEF LossTold
<1>3. ASSUME NEW d \in Devices, lostPromise'[d] = "taken", ~PrepareLoss
      PROVE  \E i \in DOMAIN batch' : batch'[i].kind = "lost" /\ batch'[i].dev = d
  <2>1. lostPromise[d] = "taken" /\ ~SettleBatch
    BY <1>1, <1>3, PromiseStep DEF SettleBatch
  <2>2. PICK i \in DOMAIN batch : batch[i].kind = "lost" /\ batch[i].dev = d
    BY <1>2, <2>1
  <2>3. i \in DOMAIN batch' /\ batch'[i] = batch[i]
    BY <1>0, <2>1, BatchGrows
  <2> QED
    BY <2>2, <2>3
<1>4. ASSUME NEW d \in Devices, UNCHANGED <<wrapper, lostSettled, lostPromise>>
      PROVE  /\ wrapper'[d] \in {"none", "asked"} => ~lostSettled'[d]
             /\ Wrapped(d)' <=> lostPromise'[d] # "none"
             /\ Wrapped(d)' /\ lostSettled'[d] => lostPromise'[d] # "pending"
             /\ lostPromise'[d] \in {"taken", "resolved"} => lostSettled'[d]
  BY <1>2, <1>4 DEF Wrapped
<1>5. ASSUME ~PrepareLoss,
             \A d \in Devices :
                /\ wrapper'[d] \in {"none", "asked"} => ~lostSettled'[d]
                /\ Wrapped(d)' <=> lostPromise'[d] # "none"
                /\ Wrapped(d)' /\ lostSettled'[d] => lostPromise'[d] # "pending"
                /\ lostPromise'[d] \in {"taken", "resolved"} => lostSettled'[d]
      PROVE  LossTold'
  BY <1>3, <1>5 DEF LossTold
<1>6. CASE PrepareLoss
  <2>0. PICK e \in Devices : e = Head(queue).dev
    BY <1>6, LossOnMade
  <2>1. Made(e) /\ wrapper' = wrapper
    BY <1>6, <2>0, LossOnMade DEF PrepareLoss
  <2>2. lostSettled'[e] /\ \A d \in Devices \ {e} : lostSettled'[d] = lostSettled[d]
    BY <1>1, <1>6, <2>0 DEF PrepareLoss
  <2>3. ASSUME NEW d \in Devices, d # e
        PROVE  lostPromise'[d] = lostPromise[d]
    BY <1>1, <1>6, <2>0, <2>3 DEF PrepareLoss
  <2>4. \/ lostPromise[e] = "pending" /\ lostPromise'[e] = "taken"
        \/ lostPromise[e] # "pending" /\ lostPromise' = lostPromise
    BY <1>1, <1>6, <2>0 DEF PrepareLoss
  <2>5. /\ \A i \in DOMAIN batch : i \in DOMAIN batch' /\ batch'[i] = batch[i]
        /\ lostPromise[e] = "pending" =>
              \E i \in DOMAIN batch' : batch'[i].kind = "lost" /\ batch'[i].dev = e
    <3>1. CASE lostPromise[e] # "pending"
      BY <1>6, <2>0, <3>1 DEF PrepareLoss
    <3>2. CASE lostPromise[e] = "pending"
      <4>1. batch' = Append(batch, [kind |-> "lost", dev |-> e, pipe |-> Head(queue).pipe,
                                    result |-> "resolved"])
        BY <1>6, <2>0, <3>2 DEF PrepareLoss, Settle
      <4>2. batch \in Seq(Settlement) /\ batch' \in Seq(Settlement)
        BY <1>0, TypeStep DEF TypeInv, TypeOK
      <4> QED
        BY <4>1, <4>2
    <3> QED
      BY <3>1, <3>2
  <2>6. ASSUME NEW d \in Devices, d # e
        PROVE  /\ wrapper'[d] \in {"none", "asked"} => ~lostSettled'[d]
               /\ Wrapped(d)' <=> lostPromise'[d] # "none"
               /\ Wrapped(d)' /\ lostSettled'[d] => lostPromise'[d] # "pending"
               /\ lostPromise'[d] \in {"taken", "resolved"} => lostSettled'[d]
               /\ lostPromise'[d] = "taken" =>
                     \E i \in DOMAIN batch' : batch'[i].kind = "lost" /\ batch'[i].dev = d
    <3>1. /\ wrapper'[d] = wrapper[d] /\ lostSettled'[d] = lostSettled[d]
          /\ lostPromise'[d] = lostPromise[d]
      BY <2>1, <2>2, <2>3, <2>6
    <3>2. lostPromise[d] = "taken" =>
             \E i \in DOMAIN batch' : batch'[i].kind = "lost" /\ batch'[i].dev = d
      BY <1>2, <2>5
    <3> QED
      BY <1>2, <3>1, <3>2 DEF Wrapped
  <2>7. /\ wrapper'[e] \notin {"none", "asked"}
        /\ Wrapped(e)' <=> lostPromise'[e] # "none"
        /\ lostPromise'[e] # "pending"
        /\ lostPromise'[e] = "taken" =>
              \E i \in DOMAIN batch' : batch'[i].kind = "lost" /\ batch'[i].dev = e
    <3>1. wrapper'[e] \notin {"none", "asked"}
      BY <2>1 DEF Made
    <3>2. lostPromise[e] = "taken" =>
             \E i \in DOMAIN batch' : batch'[i].kind = "lost" /\ batch'[i].dev = e
      BY <1>2, <2>1, <2>5
    <3> QED
      BY <1>2, <2>1, <2>4, <2>5, <3>1, <3>2 DEF Wrapped
  <2> QED
    BY <2>2, <2>6, <2>7 DEF LossTold, Wrapped
<1>7. ASSUME NEW e \in Devices, RequestDevice(e)
      PROVE  LossTold'
  <2>1. /\ wrapper[e] = "none" /\ UNCHANGED <<lostSettled, lostPromise, batch>>
        /\ wrapper' = [wrapper EXCEPT ![e] = "asked"]
    BY <1>7 DEF RequestDevice
  <2> QED
    BY <1>1, <1>2, <2>1 DEF LossTold, Wrapped
<1>8. ASSUME NEW e \in Devices, Finalize(e)
      PROVE  LossTold'
  <2>1. /\ wrapper[e] = "live" /\ UNCHANGED <<lostSettled, lostPromise, batch>>
        /\ wrapper' = [wrapper EXCEPT ![e] = "finalized"]
    BY <1>8 DEF Finalize
  <2> QED
    BY <1>1, <1>2, <2>1 DEF LossTold, Wrapped
<1>9. ASSUME NEW e \in Devices, NEW made \in BOOLEAN, Wrap(e, made), UNCHANGED lostSettled,
             wrapper[e] \in {"none", "asked"}
      PROVE  \A d \in Devices :
                /\ wrapper'[d] \in {"none", "asked"} => ~lostSettled'[d]
                /\ Wrapped(d)' <=> lostPromise'[d] # "none"
                /\ Wrapped(d)' /\ lostSettled'[d] => lostPromise'[d] # "pending"
                /\ lostPromise'[d] \in {"taken", "resolved"} => lostSettled'[d]
  <2>1. ~lostSettled'[e]
    BY <1>2, <1>9
  <2>2. /\ wrapper'[e] \in {"live", "failed"}
        /\ wrapper'[e] = "live" <=> lostPromise'[e] = "pending"
        /\ lostPromise'[e] \in {"pending", "none"}
        /\ \A d \in Devices \ {e} : wrapper'[d] = wrapper[d] /\ lostPromise'[d] = lostPromise[d]
    BY <1>1, <1>9 DEF Wrap
  <2> QED
    BY <1>2, <1>9, <2>1, <2>2 DEF Wrapped
<1>10. ASSUME NEW e \in Devices, WrapDevice(e)
       PROVE  LossTold'
  <2>1. UNCHANGED <<lostSettled, batch>> /\ wrapper[e] = "none"
    BY <1>10 DEF WrapDevice
  <2>2. \E made \in BOOLEAN : Wrap(e, made)
    BY <1>10 DEF WrapDevice
  <2> QED
    BY <1>5, <1>6, <1>9, <2>1, <2>2
<1>11. CASE PrepareDevice
  <2>1. queue # <<>> /\ Head(queue).kind = "Device" /\ UNCHANGED lostSettled
    BY <1>11 DEF PrepareDevice, Preparing
  <2>2. Head(queue).dev \in Devices /\ wrapper[Head(queue).dev] = "asked"
    BY <1>0, <1>1, <2>1, HeadRecord DEF AnsweredOnce, Answer
  <2>3. \E made \in BOOLEAN : Wrap(Head(queue).dev, made)
    BY <1>11 DEF PrepareDevice
  <2> QED
    BY <1>5, <1>6, <1>9, <2>1, <2>2, <2>3
<1>12. CASE PrepareRequestFailed
  <2>1. /\ queue # <<>> /\ Head(queue).kind = "RequestFailed"
        /\ UNCHANGED <<lostSettled, lostPromise>>
        /\ wrapper' = [wrapper EXCEPT ![Head(queue).dev] = "failed"]
    BY <1>12 DEF PrepareRequestFailed, Preparing
  <2>2. Head(queue).dev \in Devices /\ wrapper[Head(queue).dev] = "asked"
    BY <1>0, <1>1, <2>1, HeadRecord DEF AnsweredOnce, Answer
  <2>3. wrapper'[Head(queue).dev] = "failed" /\ lostPromise[Head(queue).dev] = "none"
    BY <1>1, <1>2, <2>1, <2>2 DEF Wrapped
  <2>4. \A d \in Devices \ {Head(queue).dev} : wrapper'[d] = wrapper[d]
    BY <1>1, <2>1
  <2> QED
    BY <1>2, <1>5, <1>6, <2>1, <2>2, <2>3, <2>4 DEF Wrapped
<1>13. CASE PreparePipeline
  BY <1>4, <1>5, <1>6, <1>13 DEF PreparePipeline
<1>14. CASE SettleBatch
  <2>1. UNCHANGED <<wrapper, lostSettled>>
    BY <1>14 DEF SettleBatch
  <2>2. \A d \in Devices :
           lostPromise'[d] = IF lostPromise[d] = "taken" THEN "resolved" ELSE lostPromise[d]
    BY <1>14 DEF SettleBatch
  <2> QED
    BY <1>2, <1>5, <1>6, <2>1, <2>2 DEF Wrapped
<1>15. CASE PromiseUnchanged
  BY <1>4, <1>5, <1>6, <1>15 DEF PromiseUnchanged
<1> QED
  BY <1>6, <1>7, <1>8, <1>10, <1>11, <1>12, <1>13, <1>14, <1>15, PromiseActions

(* Pipelines are asked of wrapped devices.                                 *)
LEMMA CallsOnWrappedStep ==
    ASSUME LossInv, [Next]_vars PROVE CallsOnWrapped'
<1>0. TypeInv /\ AnsweredOnce /\ CallsOnWrapped
  BY DEF LossInv
<1>1. ASSUME NEW p \in Pipelines, Used(p), pipeline'[p].dev = pipeline[p].dev
      PROVE  Wrapped(pipeline[p].dev)'
  <2>1. pipeline[p].dev \in Devices /\ Wrapped(pipeline[p].dev)
    BY <1>0, <1>1 DEF TypeInv, CallsUsed, CallsOnWrapped
  <2>2. \A d \in Devices : Wrapped(d) => Wrapped(d)'
    BY <1>0, WrappedStays
  <2> QED
    BY <1>1, <2>1, <2>2 DEF Wrapped
<1>2. ASSUME NEW p \in Pipelines, NEW d \in Devices, CreatePipelineAsync(p, d),
             pipeline'[p].dev = d
      PROVE  Wrapped(pipeline[p].dev)'
  BY <1>2 DEF CreatePipelineAsync, CanCall, Wrapped, wrapperVars
<1> QED
  BY <1>0, <1>1, <1>2, CallStep DEF CallsOnWrapped, Used


----------------------------------------------------------------------------
(* The safety properties are kept.                                         *)

(* What is before an entry of the batch does not change while the batch    *)
(* is not settled.                                                         *)
LEMMA LossBeforeStays ==
    ASSUME LossInv, [Next]_vars, ~SettleBatch, NEW d \in Devices,
           NEW n \in Nat, n \in 1..(Len(batch) + 1)
    PROVE  LossBefore(d, n)' <=> LossBefore(d, n)
<1>0. TypeInv /\ batch \in Seq(Settlement)
  BY DEF LossInv, TypeInv, TypeOK
<1>1. lostPromise'[d] = "resolved" <=> lostPromise[d] = "resolved"
  BY PromiseStep
<1>2. \A i \in 1..(n - 1) : batch'[i] = batch[i]
  <2>1. DOMAIN batch = 1..Len(batch) /\ Len(batch) \in Nat
    BY <1>0
  <2> QED
    BY <1>0, <2>1, BatchGrows
<1> QED
  BY <1>1, <1>2 DEF LossBefore

(* The lost promise is settled once.                                       *)
LEMMA LossSettledOnceStep ==
    ASSUME LossInv, [Next]_vars PROVE LossSettledOnce'
<1>0. TypeInv /\ LossSettledOnce /\ LossTold
  BY DEF LossInv
<1>1. /\ batch \in Seq(Settlement)
      /\ lostPromise \in [Devices -> {"none", "pending", "taken", "resolved"}]
  BY <1>0 DEF TypeInv, TypeOK
<1>2. \A i \in DOMAIN batch : batch[i].dev \in Devices
  <2>1. \A i \in DOMAIN batch : batch[i] \in Settlement
    BY <1>1
  <2> QED
    BY <2>1 DEF Settlement
<1>3. CASE batch' = <<>>
  BY <1>3 DEF LossSettledOnce
<1>4. ASSUME ~SettleBatch, NEW i \in DOMAIN batch, batch[i].kind = "lost"
      PROVE  lostPromise'[batch[i].dev] = "taken"
  <2>1. lostPromise[batch[i].dev] = "taken"
    BY <1>0, <1>4 DEF LossSettledOnce
  <2> QED
    BY <1>2, <1>4, <2>1, PromiseStep
<1>5. CASE UNCHANGED batch /\ ~SettleBatch
  BY <1>0, <1>4, <1>5 DEF LossSettledOnce
<1>6. ASSUME ~SettleBatch,
             Len(batch) \in Nat /\ DOMAIN batch = 1..Len(batch),
             DOMAIN batch' = 1..(Len(batch) + 1),
             \A i \in DOMAIN batch : batch'[i] = batch[i],
             batch'[Len(batch) + 1].dev = Head(queue).dev,
             \/ batch'[Len(batch) + 1].kind # "lost"
             \/ PrepareLoss /\ lostPromise[Head(queue).dev] = "pending"
      PROVE  LossSettledOnce'
  <2>1. ASSUME batch'[Len(batch) + 1].kind = "lost"
        PROVE  /\ lostPromise'[Head(queue).dev] = "taken"
               /\ \A i \in DOMAIN batch : batch[i].kind = "lost" => batch[i].dev # Head(queue).dev
    <3>1. PrepareLoss /\ lostPromise[Head(queue).dev] = "pending"
      BY <1>6, <2>1
    <3>2. Head(queue).dev \in Devices
      BY <3>1, LossOnMade
    <3> QED
      BY <1>0, <1>1, <3>1, <3>2 DEF PrepareLoss, LossSettledOnce
  <2> QED
    BY <1>0, <1>4, <1>6, <2>1 DEF LossSettledOnce
<1>7. SettleBatch => batch' = <<>>
  BY DEF SettleBatch
<1> QED
  BY <1>0, <1>3, <1>5, <1>6, <1>7, BatchGrows

(* A wrapper is registered while the host's forwards must find it.         *)
LEMMA RegisteredWhileNeededStep ==
    ASSUME LossInv, [Next]_vars PROVE RegisteredWhileNeeded'
<1>0. TypeInv /\ AnsweredOnce /\ Finalizing /\ LossTold /\ RegisteredWhileNeeded
  BY DEF LossInv
<1>1. LossTold'
  BY LossToldStep
<1>2. ASSUME NEW d \in Devices,
             wrapper'[d] = "live" \/ (wrapper'[d] = "finalized" /\ lostPromise'[d] = "pending"),
             wrapper[d] \in {"live", "finalized"}
      PROVE  d \in registered'
  <2>1. lostPromise[d] # "none" /\ lostPromise'[d] = "pending" => lostPromise[d] = "pending"
    BY PromiseStep
  <2>2. wrapper[d] = "live" \/ lostPromise[d] = "pending"
    <3>1. wrapper[d] = "finalized" => wrapper'[d] = "finalized" /\ lostPromise[d] # "none"
      BY <1>0, WrapperStep DEF LossTold, Wrapped
    <3> QED
      BY <1>2, <2>1, <3>1
  <2>3. d \in registered
    BY <1>0, <1>2, <2>2 DEF RegisteredWhileNeeded
  <2>4. ~(wrapper'[d] = "finalized" /\ lostSettled'[d])
    BY <1>1, <1>2 DEF LossTold, Wrapped
  <2> QED
    BY <1>0, <2>3, <2>4, RegisteredStep
<1>3. ASSUME NEW d \in Devices, NEW e \in Devices, NEW made \in BOOLEAN, Wrap(e, made),
             wrapper'[d] = "live", wrapper[d] # "live"
      PROVE  d \in registered'
  BY <1>0, <1>3 DEF Wrap, TypeInv, TypeOK
<1>4. ASSUME NEW d \in Devices, wrapper'[d] = "live", wrapper[d] \notin {"live", "finalized"}
      PROVE  d \in registered'
  <2>1. WrapDevice(d) \/ Answering(d)
    BY <1>0, <1>4, WrapperStep
  <2>2. CASE WrapDevice(d)
    BY <1>3, <1>4, <2>2 DEF WrapDevice
  <2>3. CASE PrepareDevice /\ Head(queue).dev = d
    BY <1>3, <1>4, <2>3 DEF PrepareDevice
  <2>4. CASE PrepareRequestFailed
    BY <1>0, <1>4, <2>4 DEF PrepareRequestFailed, TypeInv, TypeOK
  <2> QED
    BY <2>1, <2>2, <2>3, <2>4 DEF Answering
<1>5. \A d \in Devices : wrapper'[d] = "finalized" => wrapper[d] \in {"live", "finalized"}
  BY <1>0, WrapperStep
<1> QED
  BY <1>2, <1>4, <1>5 DEF RegisteredWhileNeeded

(* The pipeline of an entry of the batch is one script made.               *)
LEMMA PipelineEntry ==
    ASSUME TypeInv, [Next]_vars, NEW s \in Prepared, s.kind = "pipeline"
    PROVE  /\ s.dev \in Devices /\ s.pipe \in Pipelines
           /\ Used(s.pipe) /\ pipeline[s.pipe].dev = s.dev
           /\ pipeline'[s.pipe].lostAtStart = pipeline[s.pipe].lostAtStart
  BY CallStep DEF Prepared, ResultOfCall, Used, Settlement

(* The loss is told before the pipelines.                                  *)
LEMMA PipelineAfterLossStep ==
    ASSUME LossInv, [Next]_vars PROVE PipelineAfterLoss'
<1>0. /\ TypeInv /\ Idle /\ KnownLost /\ LossTold /\ CallsOnWrapped
      /\ PipelineAfterLoss
  BY DEF LossInv
<1>1. batch \in Seq(Prepared)
  BY <1>0 DEF TypeInv, CallsUsed
<1>2. CASE batch' = <<>>
  BY <1>2 DEF PipelineAfterLoss
<1>3. ASSUME ~SettleBatch, lostBefore' \subseteq lostBefore,
             NEW j \in DOMAIN batch, batch'[j] = batch[j],
             batch[j].kind = "pipeline", batch[j].dev \in lostBefore',
             ~pipeline'[batch[j].pipe].lostAtStart
      PROVE  LossBefore(batch[j].dev, j)'
  <2>1. batch[j] \in Prepared /\ j \in Nat /\ j \in 1..(Len(batch) + 1)
    BY <1>1
  <2>2. LossBefore(batch[j].dev, j)
    BY <1>0, <1>3, <2>1, PipelineEntry DEF PipelineAfterLoss
  <2>3. PICK d \in Devices : d = batch[j].dev
    BY <1>0, <1>3, <2>1, PipelineEntry
  <2>4. LossBefore(d, j)'
    BY <1>3, <2>1, <2>2, <2>3, LossBeforeStays
  <2> QED
    BY <1>3, <2>3, <2>4 DEF LossBefore
<1>4. ASSUME PreparePipeline, ~SettleBatch, Head(queue) \in QueuedRecord,
             Head(queue).dev \in lostBefore', lostBefore' \subseteq lostBefore,
             ~pipeline'[Head(queue).pipe].lostAtStart,
             NEW d \in Devices, d = Head(queue).dev,
             Len(batch) \in Nat, NEW n, n = Len(batch) + 1
      PROVE  LossBefore(d, n)'
  <2> DEFINE p == Head(queue).pipe
  <2>1. Head(queue).kind = "Pipeline" /\ ~Waits(Head(queue)) /\ pipeline' = pipeline
    BY <1>4 DEF PreparePipeline, Preparing, callVars
  <2>2. Used(p) /\ d = pipeline[p].dev
    BY <1>4, <2>1 DEF QueuedRecord, ResultOfCall
  <2>3. lost[d] /\ ~pipeline[p].lostAtStart
    BY <1>0, <1>4, <2>1 DEF KnownLost
  <2>4. lostSettled[d]
    BY <1>4, <2>1, <2>3 DEF Waits
  <2>5. Wrapped(d)
    BY <1>0, <2>2 DEF CallsOnWrapped, Used
  <2>6. lostPromise[d] \in {"taken", "resolved"}
    BY <1>0, <2>4, <2>5 DEF LossTold, TypeInv, TypeOK
  <2>7. LossBefore(d, n)
    <3>1. lostPromise[d] = "taken" =>
             \E i \in DOMAIN batch : batch[i].kind = "lost" /\ batch[i].dev = d
      BY <1>0 DEF LossTold
    <3>2. DOMAIN batch = 1..Len(batch)
      BY <1>1
    <3> QED
      BY <1>4, <2>6, <3>1, <3>2 DEF LossBefore
  <2>8. n \in Nat /\ n \in 1..(Len(batch) + 1)
    BY <1>4
  <2> QED
    BY <1>4, <2>7, <2>8, LossBeforeStays
<1>5. CASE EndEvents
  <2>1. batch' = <<>>
    BY <1>0, <1>5 DEF EndEvents, Idle
  <2> QED
    BY <1>2, <2>1
<1>6. CASE SettleBatch
  BY <1>2, <1>6 DEF SettleBatch
<1>7. CASE ~SettleBatch /\ lostBefore' \subseteq lostBefore
  <2>1. CASE UNCHANGED batch
    BY <1>3, <1>7, <2>1 DEF PipelineAfterLoss, LossBefore
  <2>2. ASSUME Len(batch) \in Nat /\ DOMAIN batch = 1..Len(batch),
               DOMAIN batch' = 1..(Len(batch) + 1),
               \A i \in DOMAIN batch : batch'[i] = batch[i],
               Head(queue) \in QueuedRecord, Head(queue).dev \in Devices,
               batch'[Len(batch) + 1].dev = Head(queue).dev,
               batch'[Len(batch) + 1].pipe = Head(queue).pipe,
               batch'[Len(batch) + 1].kind # "pipeline" \/ PreparePipeline
        PROVE  PipelineAfterLoss'
    <3>1. ASSUME NEW j \in DOMAIN batch',
                 batch'[j].kind = "pipeline", batch'[j].dev \in lostBefore',
                 ~pipeline'[batch'[j].pipe].lostAtStart
          PROVE  LossBefore(batch[j].dev, j)'
      <4>1. CASE j \in DOMAIN batch
        <5>1. batch'[j] = batch[j]
          BY <2>2, <4>1
        <5>2. LossBefore(batch[j].dev, j)'
          BY <1>3, <1>7, <3>1, <4>1, <5>1
        <5> QED
          BY <5>2
      <4>2. CASE j = Len(batch) + 1
        <5>1. PICK d \in Devices : d = Head(queue).dev
          BY <2>2
        <5>2. LossBefore(d, j)'
          BY <1>4, <1>7, <2>2, <3>1, <4>2, <5>1
        <5> QED
          BY <2>2, <4>2, <5>1, <5>2 DEF LossBefore
      <4> QED
        BY <2>2, <3>1, <4>1, <4>2
    <3> QED
      BY <3>1 DEF PipelineAfterLoss
  <2> QED
    BY <1>0, <1>7, <2>1, <2>2, BatchGrows
<1> QED
  BY <1>5, <1>6, <1>7, LostBeforeStep DEF EndTick


(* A pipeline is not rejected after its loss.                              *)
LEMMA NoRejectionAfterLossStep ==
    ASSUME LossInv, [Next]_vars PROVE NoRejectionAfterLoss'
<1>0. TypeInv /\ KnownLost /\ LossTold /\ LossSettledOnce /\ NoRejectionAfterLoss
  BY DEF LossInv
<1>1. batch \in Seq(Prepared) /\ DOMAIN batch = 1..Len(batch) /\ Len(batch) \in Nat
  BY <1>0 DEF TypeInv, CallsUsed
<1>2. CASE batch' = <<>>
  BY <1>2 DEF NoRejectionAfterLoss
<1>3. ASSUME ~SettleBatch, NEW j \in DOMAIN batch,
             batch[j].kind = "pipeline", batch[j].result = "rejected"
      PROVE  \A d : d = batch[j].dev => ~LossBefore(d, j)'
  <2>1. batch[j] \in Prepared /\ j \in Nat /\ j \in 1..(Len(batch) + 1)
    BY <1>1
  <2>2. batch[j].dev \in Devices
    BY <1>0, <1>3, <2>1, PipelineEntry
  <2>3. ~LossBefore(batch[j].dev, j)
    BY <1>0, <1>3 DEF NoRejectionAfterLoss
  <2> QED
    BY <1>3, <2>1, <2>2, <2>3, LossBeforeStays
<1>4. ASSUME ~SettleBatch, PipelineFails(Head(queue)), Head(queue).dev \in Devices,
             NEW n, n = Len(batch) + 1
      PROVE  \A d : d = Head(queue).dev => ~LossBefore(d, n)'
  <2>1. n \in Nat /\ n \in 1..(Len(batch) + 1) /\ 1..(n - 1) = DOMAIN batch
    BY <1>1, <1>4
  <2>2. ASSUME NEW d \in Devices, d = Head(queue).dev, LossBefore(d, n)
        PROVE  FALSE
    <3>1. lostPromise[d] \in {"taken", "resolved"}
      BY <1>0, <2>1, <2>2 DEF LossBefore, LossSettledOnce
    <3>2. lostSettled[d]
      BY <1>0, <3>1 DEF LossTold
    <3>3. lost[d]
      BY <1>0, <3>2 DEF KnownLost
    <3> QED
      BY <1>4, <2>2, <3>2, <3>3 DEF PipelineFails
  <2> QED
    BY <1>4, <2>1, <2>2, LossBeforeStays
<1>5. CASE UNCHANGED batch /\ ~SettleBatch
  <2>1. ASSUME NEW j \in DOMAIN batch', batch'[j].kind = "pipeline", batch'[j].result = "rejected"
        PROVE  \A d : d = batch'[j].dev => ~LossBefore(d, j)'
    BY <1>3, <1>5, <2>1
  <2> QED
    BY <2>1 DEF NoRejectionAfterLoss, LossBefore
<1>6. ASSUME ~SettleBatch,
             DOMAIN batch' = 1..(Len(batch) + 1),
             \A i \in DOMAIN batch : batch'[i] = batch[i],
             Head(queue).dev \in Devices,
             batch'[Len(batch) + 1].dev = Head(queue).dev,
             \/ batch'[Len(batch) + 1].kind # "pipeline"
             \/ (batch'[Len(batch) + 1].result = "rejected") = PipelineFails(Head(queue))
      PROVE  NoRejectionAfterLoss'
  <2>1. ASSUME NEW j \in DOMAIN batch', batch'[j].kind = "pipeline", batch'[j].result = "rejected"
        PROVE  \A d : d = batch'[j].dev => ~LossBefore(d, j)'
    <3>1. CASE j \in DOMAIN batch
      <4>1. batch'[j] = batch[j]
        BY <1>6, <3>1
      <4> QED
        BY <1>3, <1>6, <2>1, <3>1, <4>1
    <3>2. CASE j = Len(batch) + 1
      <4>1. PipelineFails(Head(queue))
        BY <1>6, <2>1, <3>2
      <4> QED
        BY <1>4, <1>6, <3>2, <4>1
    <3> QED
      BY <1>1, <1>6, <2>1, <3>1, <3>2
  <2> QED
    BY <2>1 DEF NoRejectionAfterLoss, LossBefore
<1>7. SettleBatch => batch' = <<>>
  BY DEF SettleBatch
<1> QED
  BY <1>0, <1>2, <1>5, <1>6, <1>7, BatchGrows

(* Errors of devices known to be lost are dropped as they are prepared.    *)
LEMMA QuietAfterLossStep ==
    ASSUME LossInv, [Next]_vars PROVE QuietAfterLoss'
<1>0. TypeInv /\ Idle /\ KnownLost /\ QuietAfterLoss
  BY DEF LossInv
<1>1. events \in Seq(Devices) /\ queue \in Seq(Record)
  BY <1>0 DEF TypeInv, TypeOK
<1>2. CASE EndEvents
  <2>1. events' = <<>>
    BY <1>0, <1>2 DEF EndEvents, Idle
  <2> QED
    BY <2>1 DEF QuietAfterLoss
<1>3. CASE EndTick
  BY <1>3 DEF EndTick, QuietAfterLoss
<1>4. CASE UNCHANGED lostBefore
  <2>1. CASE UNCHANGED events
    BY <1>0, <1>4, <2>1 DEF QuietAfterLoss
  <2>2. CASE PrepareError /\ events' # events
    <3>1. queue # <<>> /\ ~lost[Head(queue).dev] /\ events' = Append(events, Head(queue).dev)
      BY <2>2 DEF PrepareError, Preparing
    <3>2. Head(queue).dev \in Devices
      BY <1>1, <3>1, HeadRecord
    <3>3. Head(queue).dev \notin lostBefore
      BY <1>0, <3>1 DEF KnownLost
    <3>4. \A i \in DOMAIN events' : \/ i \in DOMAIN events /\ events'[i] = events[i]
                                    \/ events'[i] = Head(queue).dev
      BY <1>1, <3>1, <3>2, Appending
    <3> QED
      BY <1>0, <1>4, <3>3, <3>4 DEF QuietAfterLoss
  <2>3. CASE DispatchError
    <3>1. events # <<>> /\ events' = Tail(events)
      BY <2>3 DEF DispatchError
    <3>2. \A i \in DOMAIN events' : i + 1 \in DOMAIN events /\ events'[i] = events[i + 1]
      BY <1>1, <3>1, Popping
    <3> QED
      BY <1>0, <1>4, <3>2 DEF QuietAfterLoss
  <2>4. Tick => UNCHANGED events \/ PrepareError \/ DispatchError
    BY DEF Tick, BeginTick, EndEvents, PrepareDevice, PrepareRequestFailed, PrepareLoss,
           RetryPipeline, PreparePipeline, QueueEmpty, SettleBatch, EndDrain, EndTick, drainVars
  <2>5. ~Tick => UNCHANGED events
    BY OutsideTick DEF drainVars
  <2> QED
    BY <2>1, <2>2, <2>3, <2>4, <2>5
<1> QED
  BY <1>2, <1>3, <1>4, LostBeforeStep

(* The initial state is one of the invariant.                              *)
LEMMA InitLossInv == Init => LossInv
<1> SUFFICES ASSUME Init PROVE LossInv
  OBVIOUS
<1>1. /\ queue = <<>> /\ retries = <<>> /\ batch = <<>> /\ events = <<>>
      /\ futures = {} /\ finalizing = {} /\ registered = {} /\ lostBefore = {}
      /\ producer = [op |-> "idle", todo |-> {}, at |-> None]
  BY DEF Init
<1>2. \A d \in Devices : ~lost[d] /\ ~lostSettled[d] /\ lostPromise[d] = "none" /\ wrapper[d] = "none"
  BY DEF Init
<1>3. TypeInv
  BY InitTypes
<1>4. Idle /\ KnownLost /\ AnsweredOnce /\ Finalizing
  BY <1>1, <1>2 DEF Idle, KnownLost, AnsweredOnce, Finalizing
<1>5. DeviceBeforeLoss
  <2>1. ASSUME NEW d \in Devices, Handle[d] \notin adopted
        PROVE  native[Handle[d]] = "none"
    BY <2>1, ConstantsAssumption DEF Init
  <2>2. \A d, e \in Devices : Handle[d] = Handle[e] /\ Handle[d] \notin adopted => d = e
    BY DEF Init
  <2> QED
    BY <1>1, <2>1, <2>2 DEF DeviceBeforeLoss
<1>6. ForwardsToWrapped /\ LossTold
  BY <1>1, <1>2 DEF ForwardsToWrapped, LossTold, Wrapped
<1>7. CallsOnWrapped
  BY DEF Init, CallsOnWrapped, Used
<1>8. LossSettledOnce /\ RegisteredWhileNeeded /\ PipelineAfterLoss /\ NoRejectionAfterLoss
      /\ QuietAfterLoss
  BY <1>1, <1>2 DEF LossSettledOnce, RegisteredWhileNeeded, PipelineAfterLoss,
                    NoRejectionAfterLoss, QuietAfterLoss
<1> QED
  BY <1>3, <1>4, <1>5, <1>6, <1>7, <1>8 DEF LossInv

(* One step keeps the invariant, part by part.                             *)
LEMMA LossInvStep == LossInv /\ [Next]_vars => LossInv'
<1> SUFFICES ASSUME LossInv, [Next]_vars PROVE LossInv'
  OBVIOUS
<1>1. TypeInv'
  BY TypeStep, CallsStep DEF LossInv, TypeInv
<1>2. Idle' /\ Finalizing' /\ KnownLost' /\ AnsweredOnce'
  BY IdleStep, FinalizingStep, KnownLostStep, AnsweredOnceStep
<1>3. DeviceBeforeLoss' /\ ForwardsToWrapped' /\ LossTold' /\ CallsOnWrapped'
  BY DeviceBeforeLossStep, ForwardsToWrappedStep, LossToldStep, CallsOnWrappedStep
<1>4. LossSettledOnce' /\ RegisteredWhileNeeded' /\ PipelineAfterLoss'
  BY LossSettledOnceStep, RegisteredWhileNeededStep, PipelineAfterLossStep
<1>5. NoRejectionAfterLoss' /\ QuietAfterLoss'
  BY NoRejectionAfterLossStep, QuietAfterLossStep
<1> QED
  BY <1>1, <1>2, <1>3, <1>4, <1>5 DEF LossInv

(* The lost promise is settled once and before the pipelines it concerns,  *)
(* no pipeline is rejected after it, no listener hears of an error a drain *)
(* found lost, and the registry holds every wrapper that must be told.     *)
THEOREM LossOrdering ==
    Spec => [](LossSettledOnce /\ RegisteredWhileNeeded /\ PipelineAfterLoss
               /\ NoRejectionAfterLoss /\ QuietAfterLoss)
<1>1. LossInv => /\ LossSettledOnce /\ RegisteredWhileNeeded /\ PipelineAfterLoss
                 /\ NoRejectionAfterLoss /\ QuietAfterLoss
  BY DEF LossInv
<1> QED
  BY InitLossInv, LossInvStep, <1>1, PTL DEF Spec

(* The registry the host's forwards look in holds every wrapper that is    *)
(* still to be told of its loss.                                           *)
THEOREM RegistryKept == Spec => []RegisteredWhileNeeded
BY LossOrdering, PTL

(* A pipeline in flight when its device is lost is settled after the lost  *)
(* promise ...                                                             *)
THEOREM LossBeforePipelines == Spec => []PipelineAfterLoss
BY LossOrdering, PTL

(* ... and is not rejected once script knows of the loss.                  *)
THEOREM LossExcusesPipelines == Spec => []NoRejectionAfterLoss
BY LossOrdering, PTL

----------------------------------------------------------------------------
(* The contract of a loss.  The result of a pipeline call is in one place  *)
(* at a time - awaited from the backend, queued, put back for a retry, or  *)
(* in the batch - and until it is there its promise is pending.            *)
Has(q, p) == \E i \in DOMAIN q : q[i].pipe = p

Once(q, p) == \A i, j \in DOMAIN q : q[i].pipe = p /\ q[j].pipe = p => i = j

InOnePlace(p) ==
    /\ p \in futures \/ Has(queue, p) \/ Has(retries, p) \/ Has(batch, p)
         => pipeline[p].promise = "pending"
    /\ p \in futures => ~Has(queue, p) /\ ~Has(retries, p) /\ ~Has(batch, p)
    /\ Has(queue, p) => ~Has(retries, p) /\ ~Has(batch, p)
    /\ Has(retries, p) => ~Has(batch, p)
    /\ Once(queue, p) /\ Once(retries, p)

OnePlace == \A p \in Pipelines : InOnePlace(p)

(* A call is at its place in a queue once more, or once less.              *)
LEMMA HasAppend ==
    ASSUME NEW S, NEW q \in Seq(S), NEW r \in S, NEW p
    PROVE  /\ Has(Append(q, r), p) <=> Has(q, p) \/ r.pipe = p
           /\ Once(q, p) /\ (r.pipe = p => ~Has(q, p)) => Once(Append(q, r), p)
<1>1. /\ Len(q) \in Nat /\ DOMAIN q = 1..Len(q) /\ DOMAIN Append(q, r) = 1..(Len(q) + 1)
      /\ \A i \in 1..Len(q) : Append(q, r)[i] = q[i]
      /\ Append(q, r)[Len(q) + 1] = r
  BY Appending
<1>2. \A i \in 1..(Len(q) + 1) : i \in 1..Len(q) \/ i = Len(q) + 1
  BY <1>1
<1>3. 1..Len(q) \subseteq 1..(Len(q) + 1) /\ Len(q) + 1 \in 1..(Len(q) + 1)
  BY <1>1
<1>4. Has(Append(q, r), p) <=> Has(q, p) \/ r.pipe = p
  BY <1>1, <1>2, <1>3 DEF Has
<1>5. ASSUME Once(q, p), r.pipe = p => ~Has(q, p)
      PROVE  Once(Append(q, r), p)
  BY <1>1, <1>2, <1>3, <1>5 DEF Has, Once
<1> QED
  BY <1>4, <1>5

LEMMA HasTail ==
    ASSUME NEW S, NEW q \in Seq(S), q # <<>>, NEW p, Once(q, p)
    PROVE  /\ Has(Tail(q), p) <=> Has(q, p) /\ Head(q).pipe # p
           /\ Head(q).pipe = p => Has(q, p)
           /\ Once(Tail(q), p)
<1>1. /\ Len(q) \in Nat \ {0} /\ DOMAIN q = 1..Len(q) /\ Head(q) = q[1]
      /\ DOMAIN Tail(q) = 1..(Len(q) - 1)
      /\ \A i \in 1..(Len(q) - 1) : Tail(q)[i] = q[i + 1]
  BY Popping
<1>2. \A i \in 1..Len(q) : i = 1 \/ (i - 1 \in 1..(Len(q) - 1) /\ Tail(q)[i - 1] = q[i])
  BY <1>1
<1>3. \A i \in 1..(Len(q) - 1) : i + 1 \in 1..Len(q) /\ i + 1 # 1
  BY <1>1
<1>4. 1 \in 1..Len(q)
  BY <1>1
<1>5. Has(Tail(q), p) => Has(q, p) /\ Head(q).pipe # p
  BY <1>1, <1>3, <1>4 DEF Has, Once
<1>6. Has(q, p) /\ Head(q).pipe # p => Has(Tail(q), p)
  BY <1>1, <1>2 DEF Has
<1>7. Once(Tail(q), p)
  <2> SUFFICES ASSUME NEW i \in 1..(Len(q) - 1), NEW j \in 1..(Len(q) - 1),
                      Tail(q)[i].pipe = p, Tail(q)[j].pipe = p
               PROVE  i = j
    BY <1>1 DEF Once
  <2>1. i + 1 = j + 1
    BY <1>1, <1>3 DEF Once
  <2> QED
    BY <1>1, <2>1
<1> QED
  BY <1>1, <1>4, <1>5, <1>6, <1>7 DEF Has

LEMMA HasJoin ==
    ASSUME NEW S, NEW q \in Seq(S), NEW t \in Seq(S), NEW p
    PROVE  /\ Has(q \o t, p) <=> Has(q, p) \/ Has(t, p)
           /\ Once(q, p) /\ Once(t, p) /\ (Has(q, p) => ~Has(t, p)) => Once(q \o t, p)
<1> DEFINE n == Len(q)
           m == Len(t)
<1>1. /\ n \in Nat /\ DOMAIN q = 1..n /\ m \in Nat /\ DOMAIN t = 1..m
      /\ DOMAIN (q \o t) = 1..(n + m)
      /\ \A i \in 1..n : (q \o t)[i] = q[i]
      /\ \A i \in (n + 1)..(n + m) : i - n \in 1..m /\ (q \o t)[i] = t[i - n]
  BY Joining
<1> HIDE DEF n, m
<1>2. \A i \in 1..(n + m) : i \in 1..n \/ i \in (n + 1)..(n + m)
  BY <1>1
<1>3. /\ 1..n \subseteq 1..(n + m) /\ (n + 1)..(n + m) \subseteq 1..(n + m)
      /\ \A k \in 1..m : k + n \in (n + 1)..(n + m) /\ (k + n) - n = k
  BY <1>1
<1>4. Has(q \o t, p) => Has(q, p) \/ Has(t, p)
  BY <1>1, <1>2 DEF Has
<1>5. Has(q, p) => Has(q \o t, p)
  BY <1>1, <1>3 DEF Has
<1>6. ASSUME NEW k \in 1..m, t[k].pipe = p
      PROVE  Has(q \o t, p)
  <2>1. (q \o t)[k + n] = t[k] /\ k + n \in 1..(n + m)
    BY <1>1, <1>3
  <2> QED
    BY <1>1, <1>6, <2>1 DEF Has
<1>7. ASSUME Once(q, p), Once(t, p), Has(q, p) => ~Has(t, p),
             NEW i \in 1..(n + m), NEW j \in 1..(n + m),
             (q \o t)[i].pipe = p, (q \o t)[j].pipe = p
      PROVE  i = j
  <2>1. CASE i \in 1..n /\ j \in 1..n
    BY <1>1, <1>7, <2>1 DEF Once
  <2>2. CASE i \in (n + 1)..(n + m) /\ j \in (n + 1)..(n + m)
    <3>1. i - n = j - n
      BY <1>1, <1>7, <2>2 DEF Once
    <3> QED
      BY <1>1, <2>2, <3>1
  <2>3. CASE (i \in 1..n /\ j \in (n + 1)..(n + m)) \/ (j \in 1..n /\ i \in (n + 1)..(n + m))
    BY <1>1, <1>7, <2>3 DEF Has
  <2> QED
    BY <1>2, <2>1, <2>2, <2>3
<1>8. ASSUME Once(q, p), Once(t, p), Has(q, p) => ~Has(t, p)
      PROVE  Once(q \o t, p)
  <2>1. \A i, j \in 1..(n + m) : (q \o t)[i].pipe = p /\ (q \o t)[j].pipe = p => i = j
    BY <1>7, <1>8
  <2> QED
    BY <1>1, <2>1 DEF Once
<1>9. Has(t, p) => Has(q \o t, p)
  BY <1>1, <1>6 DEF Has
<1> QED
  BY <1>4, <1>5, <1>8, <1>9

(* Preparing a record takes it off the queue, and it is put back for a     *)
(* retry, joins the batch, or is done with.                                *)
Preparation == PrepareDevice \/ PrepareRequestFailed \/ PrepareError \/ PrepareLoss
                 \/ RetryPipeline \/ PreparePipeline

LEMMA PreparedGoesOn ==
    ASSUME TypeInv, Preparation
    PROVE  /\ queue # <<>> /\ queue' = Tail(queue) /\ Head(queue) \in QueuedRecord
           /\ UNCHANGED callVars
           /\ \/ UNCHANGED <<retries, batch>>
              \/ retries' = Append(retries, Head(queue)) /\ UNCHANGED batch
              \/ /\ UNCHANGED retries
                 /\ \E s \in Settlement : batch' = Append(batch, s) /\ s.pipe = Head(queue).pipe
<1>1. queue # <<>> /\ queue' = Tail(queue)
  BY DEF Preparation, PrepareDevice, PrepareRequestFailed, PrepareError, PrepareLoss,
         RetryPipeline, PreparePipeline, Preparing
<1>2. Head(queue) \in QueuedRecord /\ Head(queue) \in Record
  BY <1>1 DEF TypeInv, CallsUsed, QueuedRecord
<1>3. ASSUME NEW k \in {"device", "pipeline", "lost"},
             NEW result \in {"resolved", "rejected", "failed"}, Settle(k, Head(queue), result)
      PROVE  \E s \in Settlement : batch' = Append(batch, s) /\ s.pipe = Head(queue).pipe
  <2> DEFINE s == [kind |-> k, dev |-> Head(queue).dev, pipe |-> Head(queue).pipe,
                   result |-> result]
  <2>1. s \in Settlement /\ s.pipe = Head(queue).pipe
    BY <1>2 DEF Record, Settlement
  <2>2. batch' = Append(batch, s)
    BY <1>3 DEF Settle
  <2> QED
    BY <2>1, <2>2
<1>4. CASE PrepareDevice \/ PrepareRequestFailed
  BY <1>1, <1>2, <1>3, <1>4 DEF PrepareDevice, PrepareRequestFailed
<1>5. CASE PrepareError \/ RetryPipeline
  BY <1>1, <1>2, <1>5 DEF PrepareError, RetryPipeline
<1>6. CASE PrepareLoss
  BY <1>1, <1>2, <1>3, <1>6 DEF PrepareLoss
<1>7. CASE PreparePipeline
  <2>1. PICK result \in {"resolved", "rejected", "failed"} : Settle("pipeline", Head(queue), result)
    BY <1>7, Zenon DEF PreparePipeline
  <2>2. UNCHANGED <<callVars, retries>>
    BY <1>7 DEF PreparePipeline
  <2> QED
    BY <1>1, <1>2, <1>3, <2>1, <2>2
<1> QED
  BY <1>4, <1>5, <1>6, <1>7 DEF Preparation

(* One step moves a result to its next place.                              *)
LEMMA OnePlaceStep ==
    ASSUME TypeInv, OnePlace, [Next]_vars, NEW p \in Pipelines
    PROVE  InOnePlace(p)'
<1>0. /\ InOnePlace(p) /\ None \notin Pipelines /\ Devices \cap Pipelines = {}
      /\ queue \in Seq(Record) /\ retries \in Seq(Record) /\ batch \in Seq(Settlement)
      /\ pipeline \in [Pipelines -> PipelineCall]
  BY ConstantsAssumption DEF OnePlace, TypeInv, TypeOK
<1> USE DEF callVars, drainVars
\* The promise is as it was, and the result where it was.
<1>1. ASSUME UNCHANGED <<pipeline, retries, batch>>, p \in futures' <=> p \in futures,
             UNCHANGED queue \/ \E r \in Record : r.pipe # p /\ queue' = Append(queue, r)
      PROVE  InOnePlace(p)'
  <2>1. (Has(queue, p)' <=> Has(queue, p)) /\ Once(queue, p)'
    <3>1. CASE UNCHANGED queue
      BY <1>0, <3>1 DEF InOnePlace, Has, Once
    <3>2. ASSUME NEW r \in Record, r.pipe # p, queue' = Append(queue, r)
          PROVE  (Has(queue', p) <=> Has(queue, p)) /\ Once(queue', p)
      BY <1>0, <3>2, HasAppend DEF InOnePlace
    <3>3. (Has(queue, p)' <=> Has(queue', p)) /\ (Once(queue, p)' <=> Once(queue', p))
      BY DEF Has, Once
    <3> QED
      BY <1>1, <3>1, <3>2, <3>3
  <2>2. /\ Has(retries, p)' <=> Has(retries, p)
        /\ Has(batch, p)' <=> Has(batch, p)
        /\ Once(retries, p)' <=> Once(retries, p)
    BY <1>1 DEF Has, Once
  <2> QED
    BY <1>0, <1>1, <2>1, <2>2 DEF InOnePlace
\* Script makes the call.
<1>2. ASSUME NEW q \in Pipelines, NEW d \in Devices, CreatePipelineAsync(q, d)
      PROVE  InOnePlace(p)'
  <2>1. /\ UNCHANGED <<queue, retries, batch>> /\ futures' = futures \cup {q}
        /\ pipeline[q].promise = "unused"
        /\ pipeline'[q].promise = "pending"
        /\ p # q => pipeline'[p] = pipeline[p]
    BY <1>0, <1>2 DEF CreatePipelineAsync
  <2>2. /\ Has(queue, p)' <=> Has(queue, p)
        /\ Has(retries, p)' <=> Has(retries, p)
        /\ Has(batch, p)' <=> Has(batch, p)
        /\ Once(queue, p)' <=> Once(queue, p)
        /\ Once(retries, p)' <=> Once(retries, p)
    BY <2>1 DEF Has, Once
  <2>3. p # q => (p \in futures' <=> p \in futures)
    BY <2>1
  <2> QED
    BY <1>0, <2>1, <2>2, <2>3 DEF InOnePlace
\* The backend answers.
<1>3. ASSUME NEW q \in Pipelines, NEW ok \in BOOLEAN, PipelineReady(q, ok)
      PROVE  InOnePlace(p)'
  <2> DEFINE r == [kind |-> "Pipeline", dev |-> pipeline[q].dev, pipe |-> q, ok |-> ok]
  <2>1. /\ q \in futures /\ futures' = futures \ {q}
        /\ queue' = Append(queue, r) /\ UNCHANGED <<pipeline, retries, batch>>
    BY <1>3 DEF PipelineReady
  <2>2. r \in Record
    BY <2>1 DEF TypeInv, CallsUsed, Record
  <2>3. CASE p # q
    BY <1>1, <2>1, <2>2, <2>3
  <2>4. CASE p = q
    <3>1. Has(queue', p) /\ Once(queue', p)
      BY <1>0, <2>1, <2>2, <2>4, HasAppend DEF InOnePlace
    <3>2. p \notin futures' /\ pipeline'[p].promise = "pending"
      BY <1>0, <2>1, <2>4 DEF InOnePlace
    <3>3. ~Has(retries', p) /\ ~Has(batch', p) /\ Once(retries', p)
      BY <1>0, <2>1, <2>4 DEF InOnePlace
    <3>4. /\ Has(queue, p)' <=> Has(queue', p)
          /\ Has(retries, p)' <=> Has(retries', p)
          /\ Has(batch, p)' <=> Has(batch', p)
          /\ Once(queue, p)' <=> Once(queue', p)
          /\ Once(retries, p)' <=> Once(retries', p)
      BY DEF Has, Once
    <3> QED
      BY <3>1, <3>2, <3>3, <3>4 DEF InOnePlace
  <2> QED
    BY <2>3, <2>4
\* tick() prepares a record: at most this result moves, from the queue.
<1>4. CASE Preparation
  <2>1. /\ queue # <<>> /\ queue' = Tail(queue) /\ Head(queue) \in Record
        /\ UNCHANGED <<pipeline, futures>>
        /\ \/ UNCHANGED <<retries, batch>>
           \/ retries' = Append(retries, Head(queue)) /\ UNCHANGED batch
           \/ /\ UNCHANGED retries
              /\ \E s \in Settlement : batch' = Append(batch, s) /\ s.pipe = Head(queue).pipe
    BY <1>4, PreparedGoesOn DEF QueuedRecord
  <2> DEFINE here == Head(queue).pipe = p
  <2>2. /\ Has(queue', p) <=> Has(queue, p) /\ ~here
        /\ here => Has(queue, p)
        /\ Once(queue', p)
    BY <1>0, <2>1, HasTail DEF InOnePlace
  <2>3. /\ Has(retries, p)' <=> Has(retries', p)
        /\ Has(batch, p)' <=> Has(batch', p)
        /\ Has(queue, p)' <=> Has(queue', p)
        /\ Once(queue, p)' <=> Once(queue', p)
        /\ Once(retries, p)' <=> Once(retries', p)
    BY DEF Has, Once
  <2>4. CASE UNCHANGED <<retries, batch>>
    BY <1>0, <2>1, <2>2, <2>3, <2>4 DEF InOnePlace
  <2>5. CASE retries' = Append(retries, Head(queue)) /\ UNCHANGED batch
    <3>1. /\ Has(retries', p) <=> Has(retries, p) \/ here
          /\ Once(retries, p) /\ (here => ~Has(retries, p)) => Once(retries', p)
      BY <1>0, <2>1, <2>5, HasAppend
    <3> QED
      BY <1>0, <2>1, <2>2, <2>3, <2>5, <3>1 DEF InOnePlace
  <2>6. ASSUME NEW s \in Settlement, batch' = Append(batch, s), s.pipe = Head(queue).pipe,
               UNCHANGED retries
        PROVE  InOnePlace(p)'
    <3>1. Has(batch', p) <=> Has(batch, p) \/ here
      BY <1>0, <2>6, HasAppend
    <3> QED
      BY <1>0, <2>1, <2>2, <2>3, <2>6, <3>1 DEF InOnePlace
  <2> QED
    BY <2>1, <2>4, <2>5, <2>6
\* The batch is settled, and the retries go back.
<1>5. CASE SettleBatch
  <2>1. queue' = queue \o retries /\ retries' = <<>> /\ batch' = <<>> /\ UNCHANGED futures
    BY <1>5 DEF SettleBatch
  <2>2. (Has(queue', p) <=> Has(queue, p) \/ Has(retries, p)) /\ Once(queue', p)
    BY <1>0, <2>1, HasJoin DEF InOnePlace
  <2>3. ~Has(retries', p) /\ ~Has(batch', p) /\ Once(retries', p)
    BY <2>1 DEF Has, Once
  <2>4. ~Has(batch, p) => pipeline'[p] = pipeline[p]
    BY <1>5 DEF SettleBatch, Has
  <2>5. /\ Has(retries, p)' <=> Has(retries', p)
        /\ Has(batch, p)' <=> Has(batch', p)
        /\ Has(queue, p)' <=> Has(queue', p)
        /\ Once(queue, p)' <=> Once(queue', p)
        /\ Once(retries, p)' <=> Once(retries', p)
    BY DEF Has, Once
  <2> QED
    BY <1>0, <2>1, <2>2, <2>3, <2>4, <2>5 DEF InOnePlace
<1>6. ASSUME NEW k \in {"Device", "RequestFailed", "UncapturedError", "DeviceLost"}, NEW d \in Devices
      PROVE  Event(k, d) \in Record /\ Event(k, d).pipe # p
  BY <1>0 DEF Event, Record
<1>7. CASE Script
  <2>1. ASSUME NEW d \in Devices, ScriptError(d)
        PROVE  InOnePlace(p)'
    BY <1>1, <1>6, <2>1 DEF ScriptError
  <2>2. ASSUME NEW d \in Devices, RequestDevice(d) \/ DestroyDevice(d)
        PROVE  InOnePlace(p)'
    BY <1>0, <1>1, <2>2 DEF RequestDevice, DestroyDevice
  <2> QED
    BY <1>2, <1>7, <2>1, <2>2 DEF Script
<1>8. CASE Collector
  BY <1>1, <1>8 DEF Collector, Finalize, Finalized
<1>9. CASE Producer
  <2>1. CASE EnqueueEvent
    <3>1. producer.at \in Devices
      BY <2>1 DEF EnqueueEvent, TypeInv, TypeOK
    <3> QED
      BY <1>1, <1>6, <2>1, <3>1 DEF EnqueueEvent
  <2> QED
    BY <1>1, <1>9, <2>1 DEF Producer, ReportError, VisitState, ProducerDone
<1>10. CASE Backend
  <2>1. ASSUME NEW d \in Devices, NEW ok \in BOOLEAN, DeviceReady(d, ok)
        PROVE  InOnePlace(p)'
    BY <1>0, <1>1, <1>6, <2>1 DEF DeviceReady
  <2>2. ASSUME NEW d \in Devices, LossCallback(d)
        PROVE  InOnePlace(p)'
    BY <1>1, <1>6, <2>2 DEF LossCallback
  <2>3. ASSUME NEW n \in Natives, LoseDevice(n)
        PROVE  InOnePlace(p)'
    BY <1>1, <2>3 DEF LoseDevice
  <2> QED
    BY <1>3, <1>10, <2>1, <2>2, <2>3 DEF Backend
<1>11. CASE Tick
  BY <1>1, <1>4, <1>5, <1>11
     DEF Tick, Preparation, BeginTick, EndEvents, QueueEmpty, DispatchError, EndDrain, EndTick
<1>12. CASE (\E d \in Devices : WrapDevice(d)) \/ \E n \in Natives : ForwardLoss(n)
  BY <1>1, <1>12 DEF WrapDevice, ForwardLoss
<1> QED
  BY <1>1, <1>7, <1>8, <1>9, <1>10, <1>11, <1>12 DEF Next, vars

LEMMA InitOnePlace == Init => OnePlace
<1> SUFFICES ASSUME Init, NEW p \in Pipelines PROVE InOnePlace(p)
  BY DEF OnePlace
<1>1. queue = <<>> /\ retries = <<>> /\ batch = <<>> /\ futures = {}
  BY DEF Init
<1> QED
  BY <1>1 DEF InOnePlace, Has, Once

(* The verdict on a call that has none, and on one that gets it.           *)
LEMMA VerdictIs ==
    /\ \A p \in Pipelines : ~Has(batch, p) => Verdict(p) = "none"
    /\ \A p \in Pipelines : Has(batch, p) =>
          \E i \in DOMAIN batch : batch[i].pipe = p /\ Verdict(p) = batch[i].result
BY DEF Verdict, Has

(* Another entry of the batch is no verdict on this call.                  *)
LEMMA VerdictSame ==
    ASSUME NEW p \in Pipelines, batch \in Seq(Settlement),
           NEW s \in Settlement, batch' = Append(batch, s)
    PROVE  /\ s.pipe # p => Verdict(p)' = Verdict(p)
           /\ s.pipe = p /\ ~Has(batch, p) => Verdict(p)' = s.result
<1> DEFINE n == Len(batch)
           at(i) == i \in DOMAIN batch /\ batch[i].pipe = p
           at1(i) == i \in DOMAIN batch' /\ batch'[i].pipe = p
<1>1. /\ n \in Nat /\ DOMAIN batch = 1..n /\ DOMAIN batch' = 1..(n + 1)
      /\ \A i \in 1..n : batch'[i] = batch[i]
      /\ batch'[n + 1] = s
  BY Appending
<1> HIDE DEF n
<1>2. \A i : i \in 1..(n + 1) <=> i \in 1..n \/ i = n + 1
  BY <1>1
<1>3. ASSUME s.pipe # p
      PROVE  Verdict(p)' = Verdict(p)
  <2> DEFINE some == \E i : at(i)
             some1 == \E i : at1(i)
             result == batch[CHOOSE i : at(i)].result
             result1 == batch'[CHOOSE i : at1(i)].result
  <2>1. \A i : at1(i) <=> at(i)
    BY <1>1, <1>2, <1>3
  <2>2. (CHOOSE i : at1(i)) = (CHOOSE i : at(i))
    BY <2>1
  <2>3. some1 <=> some
    BY <2>1
  <2>4. ASSUME some PROVE result1 = result
    <3>1. at(CHOOSE i : at(i))
      BY <2>4
    <3> QED
      BY <1>1, <2>2, <3>1
  <2>5. Verdict(p) = IF some THEN result ELSE "none"
    BY DEF Verdict
  <2>6. Verdict(p)' = IF some1 THEN result1 ELSE "none"
    <3>1. Verdict(p)' = IF \E i \in DOMAIN batch' : batch'[i].pipe = p
                        THEN batch'[CHOOSE i \in DOMAIN batch' : batch'[i].pipe = p].result
                        ELSE "none"
      BY DEF Verdict
    <3>2. (CHOOSE i \in DOMAIN batch' : batch'[i].pipe = p) = CHOOSE i : at1(i)
      OBVIOUS
    <3>3. (\E i \in DOMAIN batch' : batch'[i].pipe = p) <=> some1
      OBVIOUS
    <3>4. batch'[CHOOSE i \in DOMAIN batch' : batch'[i].pipe = p].result = result1
      BY <3>2
    <3> HIDE DEF some1, result1
    <3> QED
      BY <3>1, <3>3, <3>4
  <2> HIDE DEF some, some1, result, result1
  <2> QED
    BY <2>3, <2>4, <2>5, <2>6
<1>4. ASSUME s.pipe = p, ~Has(batch, p)
      PROVE  Verdict(p)' = s.result
  <2>1. \A i \in DOMAIN batch' : batch'[i].pipe = p <=> i = n + 1
    BY <1>1, <1>2, <1>4 DEF Has
  <2>2. (CHOOSE i \in DOMAIN batch' : batch'[i].pipe = p) = n + 1
    BY <1>1, <1>2, <2>1
  <2> QED
    BY <1>1, <1>2, <2>1, <2>2 DEF Verdict
<1> QED
  BY <1>3, <1>4

(* One step of the code is one step of the contract, or none.              *)
LEMMA ContractStep ==
    ASSUME LossInv, OnePlace, [Next]_vars
    PROVE  [Contract!Next]_(Contract!vars)
<1>0. /\ TypeInv /\ TypeOK /\ KnownLost /\ LossTold /\ CallsOnWrapped /\ AnsweredOnce
      /\ None \notin Pipelines
      /\ queue \in Seq(Record) /\ queue \in Seq(QueuedRecord) /\ batch \in Seq(Settlement)
  BY ConstantsAssumption DEF LossInv, TypeInv, TypeOK, CallsUsed
<1>t. /\ lost \in [Devices -> BOOLEAN]
      /\ lostPromise \in [Devices -> {"none", "pending", "taken", "resolved"}]
      /\ pipeline \in [Pipelines -> PipelineCall]
  BY <1>0 DEF TypeOK
<1> DEFINE verdicts == [p \in Pipelines |-> Verdict(p)]
           Outcome == Contract!Next \/ UNCHANGED Contract!vars
<1> SUFFICES Outcome
  OBVIOUS
<1> USE DEF stateVars, callVars, drainVars
<1>1. UNCHANGED batch => verdicts' = verdicts
  BY DEF Verdict
<1>2. ASSUME UNCHANGED <<lost, lostPromise, pipeline>>, verdicts' = verdicts
      PROVE  Outcome
  BY <1>2 DEF Contract!vars
\* An entry that is not of a pipeline.
<1>3. ASSUME NEW k \in {"device", "lost"}, NEW r \in QueuedRecord, r.kind # "Pipeline",
             NEW result \in {"resolved", "rejected", "failed"}, Settle(k, r, result)
      PROVE  verdicts' = verdicts
  <2> DEFINE s == [kind |-> k, dev |-> r.dev, pipe |-> r.pipe, result |-> result]
  <2>1. s \in Settlement /\ s.pipe = None
    BY <1>3 DEF QueuedRecord, Record, Settlement
  <2>2. batch' = Append(batch, s)
    BY <1>3 DEF Settle
  <2> HIDE DEF s
  <2>3. \A p \in Pipelines : Verdict(p)' = Verdict(p)
    BY <1>0, <2>1, <2>2, VerdictSame
  <2> QED
    BY <2>3
\* The loss becomes known.
<1>4. ASSUME NEW d \in Devices, lost' = [lost EXCEPT ![d] = TRUE],
             UNCHANGED <<lostPromise, pipeline, batch>>
      PROVE  Outcome
  BY <1>1, <1>4 DEF Contract!Next, Contract!Lose
<1>5. ASSUME NEW d \in Devices, DestroyDevice(d) \/ LossCallback(d)
      PROVE  Outcome
  BY <1>4, <1>5 DEF DestroyDevice, LossCallback
<1>6. ASSUME NEW d \in Devices, VisitState(d)
      PROVE  Outcome
  <2>1. /\ lost' = [lost EXCEPT ![d] = @ \/ producer.op = "lost"]
        /\ UNCHANGED <<lostPromise, pipeline, batch>>
    BY <1>6 DEF VisitState
  <2>2. CASE producer.op = "lost"
    <3>1. (lost[d] \/ producer.op = "lost") = TRUE
      BY <2>2, Zenon
    <3>2. lost' = [lost EXCEPT ![d] = TRUE]
      BY <2>1, <3>1, Zenon
    <3> QED
      BY <1>4, <2>1, <3>2
  <2>3. CASE producer.op # "lost"
    <3>1. \A e \in Devices : lost'[e] = lost[e]
      <4>1. lost[d] \in BOOLEAN
        BY <1>t
      <4>2. (lost[d] \/ producer.op = "lost") = lost[d]
        BY <2>3, <4>1, Zenon
      <4>3. lost' = [lost EXCEPT ![d] = lost[d]]
        BY <2>1, <4>2, Zenon
      <4> QED
        BY <1>t, <4>3
    <3>2. lost' = lost
      BY <1>t, <2>1, <3>1
    <3> QED
      BY <1>1, <1>2, <2>1, <3>2
  <2> QED
    BY <2>2, <2>3
\* A device is obtained.
<1>7. ASSUME NEW d \in Devices, NEW made \in BOOLEAN, Wrap(d, made),
             wrapper[d] \in {"none", "asked"}, UNCHANGED <<lost, pipeline>>, verdicts' = verdicts
      PROVE  Outcome
  <2>1. lostPromise[d] = "none"
    BY <1>0, <1>7 DEF LossTold, Wrapped
  <2>2. CASE made
    BY <1>7, <2>1, <2>2 DEF Wrap, Contract!Next, Contract!Obtain
  <2>3. CASE ~made
    <3>1. UNCHANGED lostPromise
      BY <1>t, <1>7, <2>1, <2>3 DEF Wrap
    <3> QED
      BY <1>2, <1>7, <3>1
  <2> QED
    BY <2>2, <2>3
<1>8. ASSUME NEW d \in Devices, WrapDevice(d)
      PROVE  Outcome
  BY <1>1, <1>7, <1>8 DEF WrapDevice
<1>9. ASSUME NEW kind, Preparing(kind)
      PROVE  /\ Head(queue) = queue[1] /\ 1 \in DOMAIN queue
             /\ Head(queue) \in QueuedRecord /\ Head(queue).dev \in Devices
             /\ Head(queue).kind = kind
  <2>1. queue # <<>> /\ Head(queue).kind = kind
    BY <1>9 DEF Preparing
  <2> QED
    BY <1>0, <2>1, HeadRecord, Popping
<1>10. CASE PrepareDevice
  <2>1. /\ Head(queue) \in QueuedRecord /\ Head(queue).kind = "Device"
        /\ Head(queue).dev \in Devices /\ wrapper[Head(queue).dev] = "asked"
    BY <1>0, <1>9, <1>10 DEF PrepareDevice, AnsweredOnce, Answer
  <2>2. PICK made \in BOOLEAN :
          /\ Wrap(Head(queue).dev, made)
          /\ Settle("device", Head(queue), IF made THEN "resolved" ELSE "failed")
    BY <1>10 DEF PrepareDevice
  <2>3. verdicts' = verdicts
    BY <1>3, <2>1, <2>2
  <2> QED
    BY <1>7, <1>10, <2>1, <2>2, <2>3 DEF PrepareDevice
<1>11. CASE PrepareRequestFailed
  <2>1. Head(queue) \in QueuedRecord /\ Head(queue).kind = "RequestFailed"
    BY <1>9, <1>11 DEF PrepareRequestFailed
  <2>2. verdicts' = verdicts
    BY <1>3, <1>11, <2>1 DEF PrepareRequestFailed
  <2> QED
    BY <1>2, <1>11, <2>2 DEF PrepareRequestFailed
\* A pipeline is asked for, and the verdict on it is given.
<1>12. ASSUME NEW p \in Pipelines, NEW d \in Devices, CreatePipelineAsync(p, d)
       PROVE  Outcome
  <2>1. lostPromise[d] # "none"
    BY <1>0, <1>12 DEF CreatePipelineAsync, CanCall, LossTold, Wrapped
  <2> QED
    BY <1>1, <1>12, <2>1 DEF CreatePipelineAsync, Contract!Next, Contract!Ask
<1>13. CASE PreparePipeline
  <2> DEFINE r == Head(queue)
             p == r.pipe
             d == r.dev
  <2>1. /\ r \in QueuedRecord /\ r.kind = "Pipeline" /\ d \in Devices
        /\ r = queue[1] /\ 1 \in DOMAIN queue
    BY <1>9, <1>13 DEF PreparePipeline
  <2>2. p \in Pipelines /\ Used(p) /\ pipeline[p].dev = d /\ Wrapped(d)
    BY <1>0, <2>1 DEF QueuedRecord, ResultOfCall, Used, CallsOnWrapped
  <2>3. Has(queue, p)
    BY <2>1 DEF Has
  <2>4. pipeline[p].promise = "pending" /\ Verdict(p) = "none" /\ ~Has(batch, p)
    BY <2>2, <2>3, VerdictIs DEF OnePlace, InOnePlace
  <2>5. PICK result \in {"resolved", "rejected", "failed"} :
          (result = "rejected") = PipelineFails(r) /\ Settle("pipeline", r, result)
    BY <1>13, Zenon DEF PreparePipeline
  <2>6. ~Waits(r) /\ UNCHANGED <<lost, lostPromise, pipeline>>
    BY <1>13 DEF PreparePipeline
  <2>7. lost[d] /\ ~pipeline[p].lostAtStart => lostPromise[d] \in {"taken", "resolved"}
    <3>1. lost[d] /\ ~pipeline[p].lostAtStart => lostSettled[d]
      BY <2>6 DEF Waits
    <3>2. lostSettled[d] => lostPromise[d] \notin {"none", "pending"}
      BY <1>0, <2>1, <2>2 DEF LossTold
    <3> QED
      BY <1>t, <2>1, <3>1, <3>2
  <2>8. lost[d] => result # "rejected"
    BY <2>5, <2>6 DEF PipelineFails, Waits
  <2>9. verdicts' = [verdicts EXCEPT ![p] = result]
    <3> DEFINE s == [kind |-> "pipeline", dev |-> d, pipe |-> p, result |-> result]
    <3>1. s \in Settlement
      BY <2>1, <2>2, <2>5 DEF Settlement
    <3>2. batch' = Append(batch, s) /\ s.pipe = p /\ s.result = result
      BY <2>5 DEF Settle
    <3> HIDE DEF s
    <3>3. \A q \in Pipelines : Verdict(q)' = IF q = p THEN result ELSE Verdict(q)
      BY <1>0, <2>4, <3>1, <3>2, VerdictSame
    <3> QED
      BY <3>3
  <2>10. Contract!Judge(p, result)
    <3>1. verdicts[p] = "none"
      BY <2>2, <2>4
    <3> HIDE DEF r, verdicts
    <3> QED
      BY <2>2, <2>4, <2>6, <2>7, <2>8, <2>9, <3>1 DEF Contract!Judge, Contract!Told, verdicts
  <2> HIDE DEF r
  <2> QED
    BY <2>2, <2>5, <2>10 DEF Contract!Next, Contract!Results
\* The loss is told, the first time it is reported.
<1>14. CASE PrepareLoss
  <2> DEFINE d == Head(queue).dev
  <2>1. /\ Head(queue) \in QueuedRecord /\ Head(queue).kind = "DeviceLost" /\ d \in Devices
        /\ Head(queue) = queue[1] /\ 1 \in DOMAIN queue
    BY <1>9, <1>14 DEF PrepareLoss
  <2>2. lost[d] /\ UNCHANGED <<lost, pipeline>>
    BY <1>0, <1>14, <2>1 DEF KnownLost, PrepareLoss
  <2>3. CASE lostPromise[d] = "pending"
    <3>1. lostPromise' = [lostPromise EXCEPT ![d] = "taken"] /\ Settle("lost", Head(queue), "resolved")
      BY <1>14, <2>3 DEF PrepareLoss
    <3>2. verdicts' = verdicts
      BY <1>3, <2>1, <3>1
    <3> QED
      BY <2>1, <2>2, <2>3, <3>1, <3>2 DEF Contract!Next, Contract!Tell
  <2>4. CASE lostPromise[d] # "pending"
    <3>1. UNCHANGED <<lostPromise, batch>>
      BY <1>14, <2>4 DEF PrepareLoss
    <3> QED
      BY <1>1, <1>2, <2>2, <3>1
  <2> QED
    BY <2>3, <2>4
\* The batch is settled.
<1>15. CASE SettleBatch
  <2>1. batch' = <<>> /\ UNCHANGED lost
    BY <1>15 DEF SettleBatch
  <2>2. verdicts' = [p \in Pipelines |-> "none"]
    BY <2>1 DEF Verdict
  <2>3. ASSUME NEW p \in Pipelines
        PROVE  pipeline'[p] = IF verdicts[p] = "none" THEN pipeline[p]
                              ELSE [pipeline[p] EXCEPT !.promise = verdicts[p]]
    <3>1. CASE Has(batch, p)
      <4>1. Verdict(p) # "none"
        <5>1. PICK i \in DOMAIN batch : Verdict(p) = batch[i].result
          BY <3>1, VerdictIs
        <5>2. batch[i] \in Settlement
          BY <1>0
        <5> QED
          BY <5>1, <5>2 DEF Settlement
      <4>2. pipeline'[p] = [pipeline[p] EXCEPT !.promise = Verdict(p)]
        BY <1>15, <3>1 DEF SettleBatch, Has, Verdict
      <4> QED
        BY <4>1, <4>2
    <3>2. CASE ~Has(batch, p)
      BY <1>15, <3>2, VerdictIs DEF SettleBatch, Has
    <3> QED
      BY <3>1, <3>2
  <2>4. pipeline' = [p \in Pipelines |->
                       IF verdicts[p] = "none" THEN pipeline[p]
                       ELSE [pipeline[p] EXCEPT !.promise = verdicts[p]]]
    BY <1>15, <2>3 DEF SettleBatch
  <2>5. lostPromise' = [d \in Devices |-> IF lostPromise[d] = "taken" THEN "resolved"
                                                                     ELSE lostPromise[d]]
    BY <1>15 DEF SettleBatch
  <2> HIDE DEF verdicts
  <2>6. Contract!Settle
    BY <2>1, <2>2, <2>4, <2>5 DEF Contract!Settle, verdicts
  <2> QED
    BY <2>6 DEF Contract!Next
\* Script sees nothing of the rest.
<1>16. ASSUME UNCHANGED <<lost, lostPromise, pipeline, batch>> PROVE Outcome
  BY <1>1, <1>2, <1>16
<1> HIDE DEF Outcome
<1>17. CASE Script
  BY <1>5, <1>12, <1>16, <1>17 DEF Script, RequestDevice, ScriptError
<1>18. CASE Collector
  BY <1>16, <1>18 DEF Collector, Finalize, Finalized
<1>19. CASE Producer
  BY <1>6, <1>16, <1>19 DEF Producer, ReportError, EnqueueEvent, ProducerDone
<1>20. CASE Backend
  BY <1>5, <1>16, <1>20 DEF Backend, LoseDevice, DeviceReady, PipelineReady
<1>21. CASE Tick
  BY <1>10, <1>11, <1>13, <1>14, <1>15, <1>16, <1>21
     DEF Tick, BeginTick, EndEvents, PrepareError, RetryPipeline, QueueEmpty, DispatchError,
         EndDrain, EndTick
<1>22. CASE (\E n \in Natives : ForwardLoss(n)) \/ UNCHANGED vars
  BY <1>16, <1>22 DEF ForwardLoss, vars
<1> QED
  BY <1>8, <1>17, <1>18, <1>19, <1>20, <1>21, <1>22 DEF Next

(* What script sees of the loss of a device is what LossContract allows,   *)
(* for any wrappers, threads and pipelines: a promise settles once, as its *)
(* verdict says; the verdict on a pipeline in flight comes after that on   *)
(* the lost promise; and a lost device rejects none.                       *)
THEOREM ImplementsLossContract == Spec => KeepsLossContract
<1>1. Init => Contract!Init
  <2> SUFFICES ASSUME Init PROVE Contract!Init
    OBVIOUS
  <2>1. \A p \in Pipelines : Verdict(p) = "none"
    BY DEF Init, Verdict
  <2> QED
    BY <2>1 DEF Init, Contract!Init
<1>2. LossInv /\ OnePlace /\ [Next]_vars => OnePlace'
  BY OnePlaceStep DEF OnePlace, LossInv
<1>3. LossInv /\ OnePlace /\ [Next]_vars => [Contract!Next]_(Contract!vars)
  BY ContractStep
<1> QED
  BY <1>1, <1>2, <1>3, InitLossInv, LossInvStep, InitOnePlace, PTL
     DEF Spec, KeepsLossContract, Contract!Spec
=============================================================================
