----------------------------- MODULE MCRetention -----------------------------
(***************************************************************************)
(* The generator runs on one of the worlds below; the retention machine    *)
(* runs with the plans derived for WebGPU, once they are emitted.          *)
(***************************************************************************)
EXTENDS Retention, Generator, TLC

One(id)  == [ids |-> <<id>>, sequence |-> FALSE, nullable |-> FALSE]
Many(id) == [ids |-> <<id>>, sequence |-> TRUE, nullable |-> FALSE]
Plain(name, type) == [name |-> name, type |-> type, optional |-> FALSE, arms |-> <<>>, skip |-> FALSE, orEnum |-> FALSE]
Optional(m) == [m EXCEPT !.optional = TRUE]

WebGPUSchema ==
  [order |-> <<"GPUDevice", "GPUTexture", "GPUTextureView", "GPUSampler", "GPUBuffer", "GPUShaderModule",
               "GPUBindGroupLayout", "GPUPipelineLayout", "GPUBindGroup", "GPUComputePipeline", "GPURenderPipeline">>,
   handles |-> {"GPUTexture", "GPUTextureView", "GPUSampler", "GPUBuffer", "GPUShaderModule",
                "GPUBindGroupLayout", "GPUPipelineLayout", "GPUBindGroup", "GPUComputePipeline",
                "GPURenderPipeline"},
   dicts |->
     ("GPUBindGroupDescriptor" :> << Plain("entries", Many("GPUBindGroupEntry")),
                                     Plain("layout", One("GPUBindGroupLayout")) >>) @@
     ("GPUBindGroupEntry" :> << [Plain("resource", One("GPUBufferBinding"))
                                   EXCEPT !.arms = <<"GPUSampler", "GPUTextureView">>] >>) @@
     ("GPUBufferBinding" :> << Plain("buffer", One("GPUBuffer")) >>) @@
     ("GPUComputePipelineDescriptor" :>
        << Plain("compute", One("GPUProgrammableStage")),
           [Plain("layout", [ids |-> <<"GPUPipelineLayout", "GPUAutoLayoutMode">>, sequence |-> FALSE, nullable |-> FALSE])
              EXCEPT !.orEnum = TRUE] >>) @@
     ("GPUProgrammableStage" :> << Plain("module", One("GPUShaderModule")) >>) @@
     ("GPURenderPipelineDescriptor" :>
        << Optional(Plain("fragment", One("GPUFragmentState"))),
           [Plain("layout", [ids |-> <<"GPUPipelineLayout", "GPUAutoLayoutMode">>, sequence |-> FALSE, nullable |-> FALSE])
              EXCEPT !.orEnum = TRUE],
           Plain("vertex", One("GPUVertexState")) >>) @@
     ("GPUFragmentState" :> << Plain("module", One("GPUShaderModule")) >>) @@
     ("GPUVertexState" :> << Plain("module", One("GPUShaderModule")) >>) @@
     ("GPUPipelineLayoutDescriptor" :> << Plain("bindGroupLayouts", [Many("GPUBindGroupLayout") EXCEPT !.nullable = TRUE]) >>) @@
     ("GPUTextureDescriptor" :> <<>>) @@ ("GPUTextureViewDescriptor" :> <<>>) @@
     ("GPUShaderModuleDescriptor" :> <<>>) @@ ("GPUBindGroupLayoutDescriptor" :> <<>>),
   alias |-> [id \in {} |-> One(id)],
   descriptor |->
     ("GPUTexture" :> "GPUTextureDescriptor") @@ ("GPUTextureView" :> "GPUTextureViewDescriptor") @@
     ("GPUShaderModule" :> "GPUShaderModuleDescriptor") @@
     ("GPUBindGroupLayout" :> "GPUBindGroupLayoutDescriptor") @@
     ("GPUPipelineLayout" :> "GPUPipelineLayoutDescriptor") @@
     ("GPUBindGroup" :> "GPUBindGroupDescriptor") @@
     ("GPUComputePipeline" :> "GPUComputePipelineDescriptor") @@
     ("GPURenderPipeline" :> "GPURenderPipelineDescriptor"),
   creator |-> [k \in {"GPUTexture", "GPUTextureView", "GPUShaderModule", "GPUBindGroupLayout", "GPUPipelineLayout",
                       "GPUBindGroup", "GPUComputePipeline", "GPURenderPipeline"} |->
                  IF k = "GPUTextureView" THEN "GPUTexture" ELSE "GPUDevice"],
   captures |->
     [k \in {"GPUTexture", "GPUTextureView", "GPUShaderModule", "GPUBindGroupLayout", "GPUPipelineLayout"} |-> <<>>] @@
     ("GPUBindGroup" :> << <<"layout">>, <<"created">>, <<"all", "GPUBuffer">>, <<"all", "GPUSampler">>,
                           <<"all", "GPUTextureView">> >>) @@
     ("GPUComputePipeline" :> << <<"module">>, <<"layout">> >>) @@
     ("GPURenderPipeline" :> << <<"vertex", "module">>, <<"fragment", "module">>, <<"layout">> >>),
   extensions |->
     [k \in {"GPUTexture", "GPUTextureView", "GPUShaderModule", "GPUBindGroupLayout", "GPUPipelineLayout",
             "GPUComputePipeline", "GPURenderPipeline"} |-> <<>>] @@
     ("GPUBindGroup" :> << [field |-> <<"created">>, handle |-> "GPUTextureView", sequence |-> TRUE,
                            nullable |-> FALSE, source |-> "conversion"] >>)]

\* A dictionary that contains itself, a typedef, a nullable and a skipped member; the captures are
\* those the derivation asks for.
Odd(member) ==
  LET s == [order |-> <<"A", "B", "I">>, handles |-> {"A", "B"},
            dicts |-> ("D" :> << member, Optional(Plain("next", One("D"))), Plain("inner", One("E")),
                                 [Plain("gone", One("B")) EXCEPT !.skip = TRUE] >>) @@
                      ("E" :> << Plain("b", One("Alias")), Plain("list", Many("F")) >>) @@
                      ("F" :> << Plain("a", One("A")) >>),
            alias |-> ("Alias" :> One("B")),
            descriptor |-> ("I" :> "D"), creator |-> ("I" :> "A"),
            captures |-> ("I" :> <<>>), extensions |-> ("I" :> <<>>)]
      derived == RP!Derived(s, "D")
  IN  [s EXCEPT !.captures = ("I" :> [i \in DOMAIN derived |-> derived[i].field])]
\* An enum value stands for a handle only where the type is one and the member required.
OddMembers ==
  {m \in {[name |-> n, type |-> t, optional |-> o, arms |-> <<>>, skip |-> FALSE, orEnum |-> e] :
            n \in {"x", "b"}, t \in {One("A"), One("B"), One("F"), One("E"), [Many("A") EXCEPT !.nullable = TRUE]},
            o \in BOOLEAN, e \in BOOLEAN} :
     m.orEnum => m.type \in {One("A"), One("B")} /\ ~m.optional}


(***************************************************************************)
(* A world around a schema: C mirrors WebIDL, a creator has one method for *)
(* each interface it creates, of the same name, everything is selected.    *)
(***************************************************************************)
NoPolicy == [methods |-> {}, properties |-> {}, omitted |-> {}, extensionMethods |-> {}, extras |-> {},
             readonly |-> {}, standard |-> {}, descriptors |-> {}]
Operation(name, returns, args, order) ==
  [name |-> name, kind |-> "operation", returns |-> returns, args |-> args, native |-> FALSE, order |-> order]
Attribute(name, native, order) ==
  [name |-> name, kind |-> "attribute", returns |-> {}, args |-> <<>>, native |-> native, order |-> order]
MirrorMethods(members) ==
  {[name |-> Candidate(m), types |-> m.returns \cup Range(m.args)] : m \in members}
MirrorFields(members) == {[name |-> m.name, types |-> Range(m.type.ids)] : m \in members}

World(s) ==
  LET made(c)    == {k \in DOMAIN s.creator : s.creator[k] = c}
      handles    == Range(s.order)
      members    == [i \in handles |-> {Operation(k, {k}, <<s.descriptor[k]>>, 1) : k \in made(i)}]
  IN  [members |-> members, dicts |-> s.dicts, alias |-> s.alias, captures |-> s.captures,
       extensions |-> s.extensions, parent |-> <<>>, enums |-> {"GPUAutoLayoutMode"}, cEnums |-> {},
       cObjects |-> [i \in handles |-> MirrorMethods(members[i])],
       cStructs |-> [d \in DOMAIN s.dicts |-> MirrorFields(Range(s.dicts[d]))],
       cExtends |-> [d \in DOMAIN s.dicts |-> {}],
       subset |-> [i \in DOMAIN s.order |-> [interface |-> s.order[i], members |-> Names(members[s.order[i]])]],
       policy |-> [NoPolicy EXCEPT !.standard = DOMAIN s.creator, !.descriptors = Range(s.descriptor)]]
WebGPU == World(WebGPUSchema)

(***************************************************************************)
(* Worlds for the join: two dictionaries that may inherit, a typedef, an   *)
(* enum, and C structs that lack fields, have more and extend each other.  *)
(***************************************************************************)
Field(id) == Plain(id, One(id))
Ordered(ids) == SetToSeq(ids)
JoinWorlds ==
  {[members |-> "GPUDevice" :> {Operation("run", {}, <<root>>, 1), Attribute("size", TRUE, 2), Attribute("label", FALSE, 3)},
    dicts |-> ("A" :> [i \in DOMAIN Ordered(a) |-> Field(Ordered(a)[i])]) @@ ("B" :> [i \in DOMAIN Ordered(b) |-> Field(Ordered(b)[i])]),
    alias |-> "T" :> One("B"), parent |-> parent, enums |-> {"E"}, cEnums |-> {"E", "F"},
    captures |-> <<>>, extensions |-> <<>>,
    cObjects |-> objects,
    cStructs |-> ("A" :> {[name |-> n, types |-> {n}] : n \in c}) @@ ("X" :> {[name |-> "F", types |-> {"F"}]})
                 @@ ("Y" :> {[name |-> "A", types |-> {"A"}]}),
    cExtends |-> ("A" :> {"X"}) @@ ("X" :> {}) @@ ("Y" :> {}),
    subset |-> << [interface |-> "GPUDevice", members |-> selected] >>,
    policy |-> NoPolicy] :
     root \in {"A", "T"}, a \in SUBSET {"B", "E", "A"}, b \in {{}, {"A"}, {"E"}}, parent \in {<<>>, "A" :> "B", "B" :> "A"},
     c \in SUBSET {"E", "Y"},
     objects \in {<<>>,
                  "GPUDevice" :> {[name |-> <<"call", "run">>, types |-> {"A"}], [name |-> <<"get", "size">>, types |-> {}]},
                  "GPUDevice" :> {[name |-> <<"set", "label">>, types |-> {}], [name |-> <<"call", "stop">>, types |-> {"F"}]}},
     selected \in {{"run"}, {"run", "label"}}}

(***************************************************************************)
(* Policies for two interfaces and an extra class: mapped and omitted      *)
(* methods, mapped properties, extension methods.                          *)
(***************************************************************************)
PolicyMembers ==
  ("GPUDevice" :> {Operation("make", {"S"}, <<"D">>, 1), Operation("stop", {}, <<>>, 2), Attribute("label", FALSE, 3)}) @@
  ("S" :> {Operation("again", {"S"}, <<"D">>, 1), Attribute("label", FALSE, 2), Attribute("size", TRUE, 3), Attribute("state", FALSE, 4)}) @@
  ("Event" :> {Attribute("type", FALSE, 1)})
Mapping(itf, m, reason) == [interface |-> itf, member |-> m, reason |-> reason]
MappingChoices ==
  {{}} \cup {{Mapping("S", "again", r)} : r \in BOOLEAN}
  \cup {{Mapping("S", "again", FALSE), Mapping("GPUDevice", "stop", r)} : r \in BOOLEAN}
  \cup {{Mapping("S", "again", FALSE), Mapping("GPUDevice", "stop", FALSE), e} :
          e \in {Mapping("GPUDevice", "make", FALSE), Mapping("Event", "stop", FALSE), Mapping("Event", "stop", TRUE),
                 Mapping("S", "reset", TRUE), Mapping("Other", "x", TRUE)}}
PolicyWorlds ==
  {[members |-> PolicyMembers, dicts |-> "D" :> <<>>, alias |-> <<>>, parent |-> <<>>, enums |-> {}, cEnums |-> {},
    captures |-> "S" :> <<>>, extensions |-> "S" :> <<>>,
    cObjects |-> ("GPUDevice" :> MirrorMethods(PolicyMembers["GPUDevice"])) @@ ("S" :> MirrorMethods(PolicyMembers["S"])),
    cStructs |-> "D" :> {}, cExtends |-> "D" :> {},
    subset |-> LET d == [interface |-> "GPUDevice", members |-> {"make", "stop", "label"}]
                   s == [interface |-> "S", members |-> selected]
               IN  IF deviceFirst THEN <<d, s>> ELSE <<s, d>>,
    policy |-> [methods |-> methods, properties |-> {Key("GPUDevice", "label")} \cup properties, omitted |-> omitted,
                extensionMethods |-> extensionMethods, extras |-> {"Event"}, readonly |-> readonly,
                standard |-> {"S"}, descriptors |-> {"D"}]] :
     methods \in MappingChoices, deviceFirst \in BOOLEAN,
     selected \in {{"label", "size"}, {"again", "label", "state"}, {"again", "label", "size", "state"}},
     properties \in {{}, {Key("S", "state")}, {Key("S", "state"), Key("S", "size")}, {Key("S", "state"), Key("Event", "type")}},
     omitted \in {{}, {Key("GPUDevice", "stop")}, {Key("S", "again")}},
     extensionMethods \in {{}, {Key("S", "destroy")}, {Key("S", "size")}},
     readonly \in {{}, {"Event"}}}

MCWorlds == {WebGPU} \cup {World(Odd(m)) : m \in OddMembers} \cup JoinWorlds \cup PolicyWorlds

MCKinds == {"GPUTexture", "GPUTextureView", "GPUShaderModule", "GPUBindGroupLayout", "GPUBindGroup",
            "GPUComputePipeline", "GPURenderBundle"}
Keep(field, handle, sequence, nullable, source) ==
  [field |-> field, handle |-> handle, sequence |-> sequence, nullable |-> nullable, source |-> source]
\* What the derivation yields for these kinds, written out.
MCPlan ==
  ("GPUTextureView" :> << Keep(<<"GPUTexture">>, "GPUTexture", FALSE, FALSE, "creator") >>) @@
  ("GPUBindGroup" :>
     << Keep(<<"layout">>, "GPUBindGroupLayout", FALSE, FALSE, "descriptor"),
        Keep(<<"all", "GPUBuffer">>, "GPUBuffer", TRUE, FALSE, "descriptor"),
        Keep(<<"all", "GPUSampler">>, "GPUSampler", TRUE, FALSE, "descriptor"),
        Keep(<<"all", "GPUTextureView">>, "GPUTextureView", TRUE, FALSE, "descriptor"),
        Keep(<<"created">>, "GPUTextureView", TRUE, FALSE, "conversion") >>) @@
  ("GPUComputePipeline" :>
     << Keep(<<"module">>, "GPUShaderModule", FALSE, FALSE, "descriptor"),
        Keep(<<"layout">>, "GPUPipelineLayout", FALSE, TRUE, "descriptor") >>) @@
  [k \in MCKinds |-> <<>>]
\* The plans the machine runs with are those the generator derives for WebGPU.
PlansInUse ==
  PlansComplete /\ (stage = "emitted" /\ kinds # <<>> =>
                      \A k \in MCKinds \ {"GPURenderBundle"} : Plan[k] = plans[k])

MCStarts == {<<>>, <<"GPUTexture", "GPUBindGroupLayout">>, <<"GPUShaderModule">>}
MCCreatable == {"GPUTextureView", "GPUBindGroup", "GPUComputePipeline"}
MCDestroyable == MCKinds \ {"GPUTexture"}
MCCreator == [k \in MCKinds |-> IF k = "GPUTextureView" THEN "GPUTexture" ELSE "GPUDevice"]

MCInit == GeneratorInit /\ Init /\ (kinds = <<>> <=> world # WebGPU)
\* The program the classes were generated for starts; the generator's data are gone.
Start  == /\ stage = "emitted" /\ kinds # <<>> /\ stage' = "running"
          /\ world' = {} /\ pending' = {} /\ idlTypes' = {} /\ cTypes' = {} /\ report' = {}
          /\ plans' = <<>> /\ emitted' = <<>>
          /\ UNCHANGED vars
MCNext == \/ GeneratorNext /\ UNCHANGED vars
          \/ Start
          \/ stage = "running" /\ Next /\ UNCHANGED generatorVars
MCSpec == MCInit /\ [][MCNext]_<<vars, generatorVars>>
=============================================================================
