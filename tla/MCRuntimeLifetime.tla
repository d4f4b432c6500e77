------------------------- MODULE MCRuntimeLifetime --------------------------
(* RuntimeLifetime with one or two requests of a kind.                       *)
EXTENDS RuntimeLifetime, TLC
=============================================================================
