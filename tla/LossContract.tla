---------------------------- MODULE LossContract ----------------------------
(***************************************************************************)
(* What the loss of a device promises script, with no queue, no tick, no   *)
(* thread and no collector: the lost promise of each wrapper, and the      *)
(* promises of the pipelines created on it.                                *)
(*                                                                         *)
(* A verdict on a promise is final: the promise settles that way, once.    *)
(* A pipeline in flight when its device is lost gets its verdict after the *)
(* lost promise has, and nothing a lost device was asked for is rejected.  *)
(***************************************************************************)
CONSTANTS Devices, Pipelines, None

VARIABLES
    lost,         \* the devices known to be lost
    lostPromise,  \* of each wrapper; "taken" when its verdict has been given
    pipeline,     \* of each call: its device, was it lost then, its promise
    verdict       \* on each call whose promise has yet to settle that way

vars == <<lost, lostPromise, pipeline, verdict>>

Results == {"resolved", "rejected", "failed"}

TypeOK ==
    /\ lost \in [Devices -> BOOLEAN]
    /\ lostPromise \in [Devices -> {"none", "pending", "taken", "resolved"}]
    /\ pipeline \in [Pipelines -> [dev : Devices \cup {None}, lostAtStart : BOOLEAN,
                                   promise : {"unused", "pending"} \cup Results]]
    /\ verdict \in [Pipelines -> {"none"} \cup Results]

Init ==
    /\ lost = [d \in Devices |-> FALSE]
    /\ lostPromise = [d \in Devices |-> "none"]
    /\ pipeline = [p \in Pipelines |-> [dev |-> None, lostAtStart |-> FALSE,
                                        promise |-> "unused"]]
    /\ verdict = [p \in Pipelines |-> "none"]

(* Script gets a device, by requestDevice or from the host.                *)
Obtain(d) ==
    /\ lostPromise[d] = "none"
    /\ lostPromise' = [lostPromise EXCEPT ![d] = "pending"]
    /\ UNCHANGED <<lost, pipeline, verdict>>

(* destroy(), the backend or the host: as often as they like.              *)
Lose(d) ==
    /\ lost' = [lost EXCEPT ![d] = TRUE]
    /\ UNCHANGED <<lostPromise, pipeline, verdict>>

Ask(p, d) ==
    /\ lostPromise[d] # "none"
    /\ pipeline[p].promise = "unused"
    /\ pipeline' = [pipeline EXCEPT ![p] = [dev |-> d, lostAtStart |-> lost[d],
                                            promise |-> "pending"]]
    /\ UNCHANGED <<lost, lostPromise, verdict>>

Tell(d) ==
    /\ lost[d] /\ lostPromise[d] = "pending"
    /\ lostPromise' = [lostPromise EXCEPT ![d] = "taken"]
    /\ UNCHANGED <<lost, pipeline, verdict>>

Told(d) == lostPromise[d] \in {"taken", "resolved"}

Judge(p, result) ==
    /\ pipeline[p].promise = "pending" /\ verdict[p] = "none"
    /\ lost[pipeline[p].dev] /\ ~pipeline[p].lostAtStart => Told(pipeline[p].dev)
    /\ lost[pipeline[p].dev] => result # "rejected"
    /\ verdict' = [verdict EXCEPT ![p] = result]
    /\ UNCHANGED <<lost, lostPromise, pipeline>>

(* All verdicts given so far take effect in one frame of script.           *)
Settle ==
    /\ pipeline' = [p \in Pipelines |->
                      IF verdict[p] = "none" THEN pipeline[p]
                                             ELSE [pipeline[p] EXCEPT !.promise = verdict[p]]]
    /\ lostPromise' = [d \in Devices |-> IF lostPromise[d] = "taken" THEN "resolved"
                                                                   ELSE lostPromise[d]]
    /\ verdict' = [p \in Pipelines |-> "none"]
    /\ UNCHANGED lost

Next ==
    \/ \E d \in Devices : Obtain(d) \/ Lose(d) \/ Tell(d)
    \/ \E p \in Pipelines, d \in Devices : Ask(p, d)
    \/ \E p \in Pipelines, result \in Results : Judge(p, result)
    \/ Settle

Spec == Init /\ [][Next]_vars
=============================================================================
