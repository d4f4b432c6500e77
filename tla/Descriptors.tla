---------------------------- MODULE Descriptors ----------------------------
(***************************************************************************)
(* What converting a dictionary does to script, in order.  A dictionary is *)
(* the sequence of the steps its converter takes:                          *)
(*   require  a member is read, undefined throws                           *)
(*   get      a member is read                                             *)
(*   to       a value read before becomes a string or a number             *)
(*   names    own_property_names                                           *)
(*   iterate  the iterator method is looked up, called or advanced         *)
(*   handle   the native handle of a wrapper is read                       *)
(*   slot     the same, of a wrapper that destroy() may have emptied       *)
(*   view     native makes the default view of a texture                   *)
(*   refuse   a member the binding does not support throws                 *)
(* Reads, coercions and iterations run script; a Boolean coercion does not *)
(* and is no step.  `of' is the path of the member, `opt' says that the    *)
(* step is taken only if the members that may be absent are given, `arms'  *)
(* the alternatives of the unions it belongs to.                           *)
(*                                                                         *)
(* Members read with a default are read whether or not they are given.     *)
(***************************************************************************)
EXTENDS Naturals, Sequences

Arms == 1 .. 3

Step(do, path)   == [do |-> do, of |-> path, opt |-> FALSE, arms |-> Arms]
Require(m)       == Step("require", << m >>)
Get(m)           == Step("get", << m >>)
To(m)            == << Step("to", << m >>) >>
Handle(m)        == << Step("handle", << m >>) >>
Slot(m)          == << Step("slot", << m >>) >>
Refuse(m)        == << Step("refuse", << m >>) >>
Opt(steps)       == [i \in DOMAIN steps |-> [steps[i] EXCEPT !.opt = TRUE]]
Arm(k, steps)    == [i \in DOMAIN steps |-> [steps[i] EXCEPT !.arms = {k}]]
Within(m, steps) == [i \in DOMAIN steps |-> [steps[i] EXCEPT !.of = << m >> \o @]]
All(steps, ms)   == [i \in DOMAIN ms |-> Step(steps, << ms[i] >>)]
Tos(ms)          == All("to", ms)

\* As if a converter asked script again for what it has read.
ReadAgain(members, required, conversions) ==
  [i \in DOMAIN members |-> IF members[i] \in required THEN Require(members[i]) ELSE Get(members[i])]
  \o << Get(members[Len(members)]) >>
  \o [i \in DOMAIN conversions |->
        IF Head(conversions[i].of) \in required THEN conversions[i]
        ELSE [conversions[i] EXCEPT !.opt = TRUE]]

\* emit_descriptor: every member is read, in declaration order, and the values are converted then.
\* What is done to an absent member is left out.
Dict(members, required, conversions) ==
  [i \in DOMAIN members |-> IF members[i] \in required THEN Require(members[i]) ELSE Get(members[i])]
  \o [i \in DOMAIN conversions |->
        IF Head(conversions[i].of) \in required THEN conversions[i]
        ELSE [conversions[i] EXCEPT !.opt = TRUE]]

\* sequence_iterator_method: the global Symbol, its iterator and the method of the value.
Iterator(m) == << Step("iterate", << m >>) >>

\* convert_sequence_from_method with one item: the iterator and its next are fetched, next is called,
\* done and value are read, the item is converted; the next result is done.
Iterated(m, item) ==
  << Step("iterate", << m >>), Step("iterate", << m >>) >>
  \o Within(m, Within("item", item)) \o << Step("iterate", << m >>) >>

\* convert_sequence.
Items(m, item) == Iterator(m) \o Iterated(m, item)

Itself == <<>>
ToItem     == << Step("to", Itself) >>
HandleItem == << Step("handle", Itself) >>
SlotItem   == << Step("slot", Itself) >>

\* A view, or a texture in its place.
ViewOf(m) == Arm(1, Slot(m)) \o Arm(2, << Step("view", << m >>) >>) \o Arm(3, Slot(m))

\* A pipeline layout or "auto".
LayoutOf(m) == Arm(1, Slot(m)) \o Arm(2, To(m)) \o Arm(3, To(m))

\* The record of override constants: its names, then each value is read and converted.
Constants(m) == << Step("names", << m >>), Step("get", << m, "item" >>), Step("to", << m, "item" >>) >>

\* An extent, an origin or a color is a sequence or a dictionary, told apart by the iterator method.
SequenceOr(m, dict) == Iterator(m) \o Arm(1, Iterated(m, ToItem)) \o Arm(2, Within(m, dict))
                                   \o Arm(3, Within(m, dict))

NumbersDict(members, required) == Dict(members, required, Tos(members))

(***************************************************************************)
(* Buffers, textures, samplers, queries.                                   *)
(***************************************************************************)
BufferDescriptor ==
  Dict(<<"size", "usage", "mappedAtCreation", "label">>, {"size", "usage"},
       Tos(<<"label", "size", "usage">>))

QuerySetDescriptor ==
  Dict(<<"label", "type", "count">>, {"type", "count"}, Tos(<<"label", "type", "count">>))

Extent3D == NumbersDict(<<"width", "height", "depthOrArrayLayers">>, {"width"})
Origin3D == NumbersDict(<<"x", "y", "z">>, {})
Color    == NumbersDict(<<"r", "g", "b", "a">>, {"r", "g", "b", "a"})

ExtentOf(m) == SequenceOr(m, Extent3D)
OriginOf(m) == SequenceOr(m, Origin3D)
ColorOf(m)  == SequenceOr(m, Color)

TextureDescriptor ==
  Dict(<<"label", "size", "mipLevelCount", "sampleCount", "dimension", "format", "usage", "viewFormats">>,
       {"size", "format", "usage"},
       To("label") \o ExtentOf("size") \o Tos(<<"dimension", "format">>)
       \o Items("viewFormats", ToItem) \o Tos(<<"mipLevelCount", "sampleCount", "usage">>))

TextureViewDescriptor ==
  Dict(<<"label", "format", "dimension", "usage", "aspect", "baseMipLevel", "mipLevelCount",
         "baseArrayLayer", "arrayLayerCount", "swizzle">>, {},
       Arm(3, Refuse("swizzle"))
       \o Tos(<<"label", "format", "dimension", "aspect", "usage", "baseMipLevel", "mipLevelCount",
                "baseArrayLayer", "arrayLayerCount">>))

SamplerDescriptor ==
  Dict(<<"label", "addressModeU", "addressModeV", "addressModeW", "magFilter", "minFilter",
         "mipmapFilter", "lodMinClamp", "lodMaxClamp", "compare", "maxAnisotropy">>, {},
       Tos(<<"label", "addressModeU", "addressModeV", "addressModeW", "magFilter", "minFilter",
             "mipmapFilter", "compare", "lodMinClamp", "lodMaxClamp", "maxAnisotropy">>))

TexelCopyBufferLayout == NumbersDict(<<"offset", "bytesPerRow", "rowsPerImage">>, {})

\* The layout's members are members of the info itself.
TexelCopyBufferInfo == << Require("buffer") >> \o TexelCopyBufferLayout \o Handle("buffer")

TexelCopyTextureInfo ==
  Dict(<<"texture", "mipLevel", "origin", "aspect">>, {"texture"},
       Handle("texture") \o OriginOf("origin") \o Tos(<<"aspect", "mipLevel">>))

(***************************************************************************)
(* Bind groups and pipelines.                                              *)
(***************************************************************************)
BufferBindingLayout  == Dict(<<"type", "hasDynamicOffset", "minBindingSize">>, {}, Tos(<<"type", "minBindingSize">>))
SamplerBindingLayout == Dict(<<"type">>, {}, To("type"))
TextureBindingLayout ==
  Dict(<<"sampleType", "viewDimension", "multisampled">>, {}, Tos(<<"sampleType", "viewDimension">>))
StorageTextureBindingLayout ==
  Dict(<<"access", "format", "viewDimension">>, {"format"}, Tos(<<"access", "format", "viewDimension">>))

BindGroupLayoutEntry ==
  Dict(<<"binding", "visibility", "buffer", "sampler", "texture", "storageTexture", "externalTexture">>,
       {"binding", "visibility"},
       Arm(3, Refuse("externalTexture"))
       \o Within("buffer", BufferBindingLayout) \o Within("sampler", SamplerBindingLayout)
       \o Within("texture", TextureBindingLayout)
       \o Within("storageTexture", StorageTextureBindingLayout)
       \o Tos(<<"binding", "visibility">>))

BindGroupLayoutDescriptor ==
  Dict(<<"label", "entries">>, {"entries"}, To("label") \o Items("entries", BindGroupLayoutEntry))

\* A dictionary in place of a resource is a buffer binding, read and converted member by member.
BufferBinding == << Get("buffer") >> \o Handle("buffer")
                 \o << Get("offset") >> \o Opt(To("offset")) \o << Get("size") >> \o Opt(To("size"))

BindGroupEntry ==
  Dict(<<"binding", "resource">>, {"binding", "resource"},
       Arm(1, Slot("resource")) \o Arm(2, << Step("view", <<"resource">>) >>)
       \o Arm(3, Within("resource", BufferBinding)) \o To("binding"))

BindGroupDescriptor ==
  Dict(<<"label", "layout", "entries">>, {"layout", "entries"},
       To("label") \o Slot("layout") \o Items("entries", BindGroupEntry))

PipelineLayoutDescriptor ==
  Dict(<<"label", "bindGroupLayouts", "immediateSize">>, {"bindGroupLayouts"},
       To("label") \o Items("bindGroupLayouts", SlotItem) \o To("immediateSize"))

ShaderModuleDescriptor ==
  Dict(<<"label", "code", "compilationHints">>, {"code"},
       Arm(3, Refuse("compilationHints")) \o Tos(<<"label", "code">>))

ProgrammableStage ==
  Dict(<<"module", "entryPoint", "constants">>, {"module"},
       Slot("module") \o To("entryPoint") \o Constants("constants"))

ComputePipelineDescriptor ==
  Dict(<<"label", "layout", "compute">>, {"layout", "compute"},
       To("label") \o LayoutOf("layout") \o Within("compute", ProgrammableStage))

VertexAttribute ==
  Dict(<<"format", "offset", "shaderLocation">>, {"format", "offset", "shaderLocation"},
       Tos(<<"format", "offset", "shaderLocation">>))

VertexBufferLayout ==
  Dict(<<"arrayStride", "stepMode", "attributes">>, {"arrayStride", "attributes"},
       To("stepMode") \o Items("attributes", VertexAttribute) \o To("arrayStride"))

VertexState ==
  Dict(<<"module", "entryPoint", "constants", "buffers">>, {"module"},
       Slot("module") \o To("entryPoint") \o Constants("constants") \o Items("buffers", VertexBufferLayout))

PrimitiveState ==
  Dict(<<"topology", "stripIndexFormat", "frontFace", "cullMode", "unclippedDepth">>, {},
       Tos(<<"topology", "stripIndexFormat", "frontFace", "cullMode">>))

StencilFaceState ==
  Dict(<<"compare", "failOp", "depthFailOp", "passOp">>, {},
       Tos(<<"compare", "failOp", "depthFailOp", "passOp">>))

DepthStencilState ==
  Dict(<<"format", "depthWriteEnabled", "depthCompare", "stencilFront", "stencilBack",
         "stencilReadMask", "stencilWriteMask", "depthBias", "depthBiasSlopeScale", "depthBiasClamp">>,
       {"format"},
       Tos(<<"format", "depthCompare">>)
       \o Within("stencilFront", StencilFaceState) \o Within("stencilBack", StencilFaceState)
       \o Tos(<<"stencilReadMask", "stencilWriteMask", "depthBias", "depthBiasSlopeScale", "depthBiasClamp">>))

MultisampleState ==
  Dict(<<"count", "mask", "alphaToCoverageEnabled">>, {}, Tos(<<"count", "mask">>))

BlendComponent ==
  Dict(<<"operation", "srcFactor", "dstFactor">>, {}, Tos(<<"operation", "srcFactor", "dstFactor">>))

BlendState ==
  Dict(<<"color", "alpha">>, {"color", "alpha"},
       Within("color", BlendComponent) \o Within("alpha", BlendComponent))

ColorTargetState ==
  Dict(<<"format", "blend", "writeMask">>, {"format"},
       To("format") \o Within("blend", BlendState) \o To("writeMask"))

FragmentState ==
  Dict(<<"module", "entryPoint", "constants", "targets">>, {"module", "targets"},
       Slot("module") \o To("entryPoint") \o Constants("constants") \o Items("targets", ColorTargetState))

RenderPipelineDescriptor ==
  Dict(<<"label", "layout", "vertex", "primitive", "depthStencil", "multisample", "fragment">>,
       {"layout", "vertex"},
       To("label") \o LayoutOf("layout") \o Within("vertex", VertexState)
       \o Within("primitive", PrimitiveState) \o Within("depthStencil", DepthStencilState)
       \o Within("multisample", MultisampleState) \o Within("fragment", FragmentState))

(***************************************************************************)
(* Encoders and passes.                                                    *)
(***************************************************************************)
Labelled == Dict(<<"label">>, {}, To("label"))
RenderBundleDescriptor   == Labelled
CommandEncoderDescriptor == Labelled
CommandBufferDescriptor  == Labelled

RenderBundleEncoderDescriptor ==
  Dict(<<"label", "colorFormats", "depthStencilFormat", "sampleCount", "depthReadOnly", "stencilReadOnly">>,
       {"colorFormats"},
       To("label") \o Items("colorFormats", ToItem) \o Tos(<<"depthStencilFormat", "sampleCount">>))

PassTimestampWrites ==
  Dict(<<"querySet", "beginningOfPassWriteIndex", "endOfPassWriteIndex">>, {"querySet"},
       Handle("querySet") \o Tos(<<"beginningOfPassWriteIndex", "endOfPassWriteIndex">>))
RenderPassTimestampWrites  == PassTimestampWrites
ComputePassTimestampWrites == PassTimestampWrites

RenderPassColorAttachment ==
  Dict(<<"view", "depthSlice", "resolveTarget", "clearValue", "loadOp", "storeOp">>,
       {"view", "loadOp", "storeOp"},
       ViewOf("view") \o ViewOf("resolveTarget") \o ColorOf("clearValue")
       \o Tos(<<"loadOp", "storeOp", "depthSlice">>))

RenderPassDepthStencilAttachment ==
  Dict(<<"view", "depthClearValue", "depthLoadOp", "depthStoreOp", "depthReadOnly",
         "stencilClearValue", "stencilLoadOp", "stencilStoreOp", "stencilReadOnly">>, {"view"},
       ViewOf("view")
       \o Tos(<<"depthLoadOp", "depthStoreOp", "stencilLoadOp", "stencilStoreOp",
                "depthClearValue", "stencilClearValue">>))

RenderPassDescriptor ==
  Dict(<<"label", "colorAttachments", "depthStencilAttachment", "occlusionQuerySet", "timestampWrites",
         "maxDrawCount">>, {"colorAttachments"},
       To("label") \o Items("colorAttachments", RenderPassColorAttachment)
       \o Within("depthStencilAttachment", RenderPassDepthStencilAttachment)
       \o Handle("occlusionQuerySet")
       \o Within("timestampWrites", RenderPassTimestampWrites) \o To("maxDrawCount"))

ComputePassDescriptor ==
  Dict(<<"label", "timestampWrites">>, {},
       To("label") \o Within("timestampWrites", ComputePassTimestampWrites))

=============================================================================
