---------------------------- MODULE MCEngineValues ----------------------------
(***************************************************************************)
(* Small instances of EngineValues and, next to it, of Interfaces: a       *)
(* behaviour is of one of the two, since they share no state.              *)
(***************************************************************************)
EXTENDS EngineValues, Interfaces

PlainSymmetry == Permutations(Plain)
MCRedefinable == {<<"Event", "type">>, <<"GPUDevice", "label">>, <<"EventTarget", "addEventListener">>}

NoInterfaces ==
  adapter = "none" /\ prototypes = <<>> /\ object = {} /\ redefined = {} /\ seen = [got |-> <<>>, want |-> <<>>]
MCInit ==
  \/ Init /\ NoInterfaces
  \/ Init /\ engine = "mock" /\ focus = {"attribute", "host"} /\ InterfacesInit
MCNext ==
  \/ adapter = "none" /\ Next /\ UNCHANGED interfaceVars
  \/ adapter # "none" /\ InterfacesNext /\ UNCHANGED vars
MCSpec == MCInit /\ [][MCNext]_<<vars, interfaceVars>>
=============================================================================
