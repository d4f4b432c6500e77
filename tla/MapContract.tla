---------------------------- MODULE MapContract ----------------------------
(***************************************************************************)
(* What GPUBuffer.mapAsync promises script, with no queue, no callback and *)
(* no backend: mapState, and the fate of each returned promise.            *)
(*                                                                         *)
(* A request is asked for at most one buffer at a time.  It is granted     *)
(* while it is the one asked for; once it has been cancelled, nothing but  *)
(* AbortError can come of it, and once its fate is known the promise       *)
(* settles that way and never again.                                       *)
(***************************************************************************)
CONSTANTS Buffers, Calls, None

VARIABLES
    mapState,   \* the mapState attribute of each buffer
    asked,      \* the call a "pending" buffer is pending for
    fate        \* of each call: its promise, before and after settlement

vars == <<mapState, asked, fate>>

Settled == {"fulfilled", "OperationError", "AbortError"}

TypeOK ==
    /\ mapState \in [Buffers -> {"unmapped", "pending", "mapped"}]
    /\ asked \in [Buffers -> Calls \cup {None}]
    /\ fate \in [Calls -> {"unused", "asked", "granted", "failing", "aborting"} \cup Settled]

Init ==
    /\ mapState \in [Buffers -> {"unmapped", "mapped"}]
    /\ asked = [b \in Buffers |-> None]
    /\ fate = [c \in Calls |-> "unused"]

Ask(b, c) ==
    /\ mapState[b] = "unmapped" /\ fate[c] = "unused"
    /\ mapState' = [mapState EXCEPT ![b] = "pending"]
    /\ asked' = [asked EXCEPT ![b] = c]
    /\ fate' = [fate EXCEPT ![c] = "asked"]

(* Refused at once on a busy buffer, later on a destroyed one.             *)
Refuse(c) ==
    /\ fate[c] = "unused"
    /\ \/ \E b \in Buffers : mapState[b] # "unmapped"
          /\ fate' = [fate EXCEPT ![c] = "OperationError"]
       \/ fate' = [fate EXCEPT ![c] = "failing"]
    /\ UNCHANGED <<mapState, asked>>

Decide(b) ==
    /\ mapState[b] = "pending"
    /\ asked' = [asked EXCEPT ![b] = None]
    /\ \/ /\ mapState' = [mapState EXCEPT ![b] = "mapped"]
          /\ fate' = [fate EXCEPT ![asked[b]] = "granted"]
       \/ /\ mapState' = [mapState EXCEPT ![b] = "unmapped"]
          /\ \E f \in {"failing", "aborting"} : fate' = [fate EXCEPT ![asked[b]] = f]

(* unmap() or destroy() of a buffer, or device.destroy() for many.         *)
Cancel(bs) ==
    /\ mapState' = [b \in Buffers |-> IF b \in bs THEN "unmapped" ELSE mapState[b]]
    /\ asked' = [b \in Buffers |-> IF b \in bs THEN None ELSE asked[b]]
    /\ fate' = [c \in Calls |-> IF \E b \in bs : asked[b] = c THEN "aborting" ELSE fate[c]]

Settle(c) ==
    /\ \/ fate[c] = "granted"  /\ fate' = [fate EXCEPT ![c] = "fulfilled"]
       \/ fate[c] = "failing"  /\ fate' = [fate EXCEPT ![c] = "OperationError"]
       \/ fate[c] = "aborting" /\ fate' = [fate EXCEPT ![c] = "AbortError"]
    /\ UNCHANGED <<mapState, asked>>

Next ==
    \/ \E b \in Buffers, c \in Calls : Ask(b, c)
    \/ \E c \in Calls : Refuse(c) \/ Settle(c)
    \/ \E b \in Buffers : Decide(b)
    \/ \E bs \in SUBSET Buffers : Cancel(bs)

Spec == Init /\ [][Next]_vars
=============================================================================
