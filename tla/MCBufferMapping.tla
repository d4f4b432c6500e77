-------------------------- MODULE MCBufferMapping --------------------------
(* BufferMapping on small sets.                                              *)
EXTENDS BufferMapping, FiniteSets

(* Two bytes, and the second of them.                                        *)
MCSpans == {[offset |-> 0, size |-> 2], [offset |-> 1, size |-> 1]}

(* Bound: the last call is made once one of the buffers has been collected   *)
(* and released, and so on the one that is left.                             *)
Unused == {c \in Calls : promise[c] = "unused"}
LastCallAlone ==
    Cardinality(Unused) = 1 /\ Unused' = {} => \E b \in Buffers : native[b].st = "freed"

MCNext == Next /\ LastCallAlone
MCSpec == Init /\ [][MCNext]_vars /\ Fairness
=============================================================================
