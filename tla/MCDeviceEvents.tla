--------------------------- MODULE MCDeviceEvents ---------------------------
(* DeviceEvents with one native device, wrapped once or twice.               *)
EXTENDS DeviceEvents, TLC

CONSTANTS d1, d2, n1

OneHandle == [d \in {d1} |-> n1]
SharedHandle == [d \in {d1, d2} |-> n1]

Symmetry == Permutations({d1, d2})
=============================================================================
