-------------------------- MODULE MCCommandEncoder --------------------------
(* CommandEncoder on small sets; encoders, passes and buffers are            *)
(* interchangeable.                                                          *)
EXTENDS CommandEncoder, TLC

Symmetry == Permutations(Encoders) \cup Permutations(Passes) \cup Permutations(CmdBuffers)
=============================================================================
