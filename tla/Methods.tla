------------------------------ MODULE Methods ------------------------------
(***************************************************************************)
(* The methods of the wrappers as the steps they take: the checks of the   *)
(* receiver, the conversions of the arguments (Descriptors), the locks of  *)
(* payloads, the calls of native and the making of the wrapper.            *)
(*   brand           the receiver must be a wrapper of the interface       *)
(*   check           the same, and an encoder or pass that has ended gets  *)
(*                   an error in place of the command                      *)
(*   lock, unlock    the receiver's state                                  *)
(*   fallible        a check that fails with the lock held                 *)
(*   engine          an engine call that runs no script                    *)
(*   builtin         a property of the global object or of an ArrayBuffer, *)
(*                   looked up and called: script may have replaced it     *)
(*   whole, measure, copy, bounds, start, window, slice                    *)
(*                   what is done with a buffer source                     *)
(*   send            native takes the command                              *)
(*   keep            the views conversion made are the new object's        *)
(*   make, register, wrap   native creates, the class, the wrapper         *)
(*   set, store      native's label and the wrapper's own copy             *)
(* dispatchEvent is EventTarget's.                                         *)
(***************************************************************************)
EXTENDS Descriptors

Do(kinds) == [i \in DOMAIN kinds |-> Step(kinds[i], <<>>)]

Argument(m, steps) == Within(m, steps)

(***************************************************************************)
(* Creating.                                                               *)
(***************************************************************************)
\* emit_create: the receiver, the descriptor, native, the class, the wrapper.
Creates(descriptor) ==
  Do(<<"brand">>) \o Argument("descriptor", descriptor) \o Do(<<"make", "register", "wrap">>)

CreateShaderModule        == Creates(ShaderModuleDescriptor)
CreateSampler             == Creates(Opt(SamplerDescriptor))
CreateTexture             == Creates(TextureDescriptor)
CreateView                == Creates(Opt(TextureViewDescriptor))
CreateBindGroupLayout     == Creates(BindGroupLayoutDescriptor)
CreatePipelineLayout      == Creates(PipelineLayoutDescriptor)
CreateBindGroup           == Creates(BindGroupDescriptor \o Do(<<"keep">>))
CreateComputePipeline     == Creates(ComputePipelineDescriptor)
CreateRenderPipeline      == Creates(RenderPipelineDescriptor)
CreateQuerySet            == Creates(QuerySetDescriptor)
CreateCommandEncoder      == Creates(Opt(CommandEncoderDescriptor))
CreateRenderBundleEncoder == Creates(RenderBundleEncoderDescriptor)
CreateBuffer              == Creates(BufferDescriptor)

\* Of an encoder that has not ended: the others give an invalid object (CommandEncoder, Retention).
Finishes(descriptor) ==
  Do(<<"brand">>) \o Argument("descriptor", Opt(descriptor))
  \o Do(<<"lock", "unlock", "make", "register", "wrap">>)
FinishRenderBundle == Finishes(RenderBundleDescriptor)
FinishEncoder      == Finishes(CommandBufferDescriptor)

\* A pass is made while its encoder is unlocked; the encoder is marked before.
Begins(descriptor) ==
  Do(<<"check">>) \o Argument("descriptor", descriptor)
  \o Do(<<"lock", "unlock", "make", "register", "wrap">>)
BeginRenderPass  == Begins(RenderPassDescriptor)
BeginComputePass == Begins(Opt(ComputePassDescriptor))

GetBindGroupLayout == Do(<<"brand">>) \o To("index") \o Slot("this") \o Do(<<"make", "register", "wrap">>)

(***************************************************************************)
(* Labels and attributes.                                                  *)
(***************************************************************************)
\* The setter of a type with destroy().
SlotLabel == To("value") \o Do(<<"brand">>) \o Slot("this") \o Do(<<"set", "store">>)
\* The setter of a type without.
PlainLabel == To("value") \o Do(<<"brand", "set", "store">>)
\* The setter of a type whose handle is in its state.
StateLabel == To("value") \o Do(<<"brand", "lock", "unlock", "set", "store">>)
\* stored_label_get
GetLabel == Do(<<"brand", "lock", "engine", "unlock">>)

\* with_buffer_state: the receiver, and what is done with its state locked.
WithState(steps) == Do(<<"brand", "lock">>) \o steps \o Do(<<"unlock">>)
BufferLabel      == To("value") \o WithState(Do(<<"store", "set">>))
BufferGetLabel   == WithState(Do(<<"engine">>))

ShaderModuleLabel        == [get |-> GetLabel, set |-> SlotLabel]
SamplerLabel             == [get |-> GetLabel, set |-> SlotLabel]
TextureLabel             == [get |-> GetLabel, set |-> PlainLabel]
TextureViewLabel         == [get |-> GetLabel, set |-> SlotLabel]
BindGroupLayoutLabel     == [get |-> GetLabel, set |-> SlotLabel]
PipelineLayoutLabel      == [get |-> GetLabel, set |-> SlotLabel]
BindGroupLabel           == [get |-> GetLabel, set |-> SlotLabel]
ComputePipelineLabel     == [get |-> GetLabel, set |-> SlotLabel]
RenderPipelineLabel      == [get |-> GetLabel, set |-> SlotLabel]
QuerySetLabel            == [get |-> GetLabel, set |-> PlainLabel]
CommandEncoderLabel      == [get |-> GetLabel, set |-> StateLabel]
RenderBundleEncoderLabel == [get |-> GetLabel, set |-> StateLabel]
DeviceLabel              == [get |-> GetLabel, set |-> PlainLabel]
QueueLabel               == [get |-> GetLabel, set |-> PlainLabel]
ComputePassLabel         == [get |-> GetLabel, set |-> StateLabel]
RenderPassLabel          == [get |-> GetLabel, set |-> StateLabel]
CommandBufferLabel       == [get |-> GetLabel, set |-> StateLabel]
RenderBundleLabel        == [get |-> GetLabel, set |-> SlotLabel]
\* There is no external texture to have one.
ExternalTextureLabel     == [get |-> Do(<<"refuse">>), set |-> Do(<<"refuse">>)]

\* An attribute native is asked for, or the wrapper's payload has.
Attribute              == Do(<<"brand", "engine">>)
TextureFormat          == Attribute
TextureAttribute       == Attribute
TextureExtents         == Attribute
QuerySetAttribute      == Attribute
CompilationAttribute   == Attribute
EventAttribute         == Attribute
ErrorAttribute         == Attribute
PipelineErrorAttribute == Attribute
LossAttribute          == Attribute
LimitAttribute         == Attribute
AdapterInfoAttribute   == Attribute
IsFallbackAdapter      == Do(<<"brand", "builtin">>)
BufferAttribute        == WithState(Do(<<"engine">>))
TextureBindingViewDimension == Do(<<"brand">>)

\* Attributes the wrapper keeps once they are made; a feature set is a Set of an Array.
Cached(steps) == Do(<<"brand">>) \o Opt(steps)
Features      == Cached(Do(<<"builtin">>))
LimitsOf      == Cached(Do(<<"register", "wrap">>))
InfoOf        == Cached(Do(<<"register", "wrap">>))

(***************************************************************************)
(* Mapped ranges.                                                          *)
(***************************************************************************)
\* JavaScriptCore's new_arraybuffer_copy constructs the global ArrayBuffer and calls transfer on it.
GetMappedRange ==
  Opt(Tos(<<"offset", "size">>)) \o WithState(Do(<<"fallible", "builtin", "fallible", "engine">>))

\* detach_all_ranges, of a buffer with a range: JavaScriptCore's detach_arraybuffer calls transfer on
\* script's own ArrayBuffer.
DetachRanges == Do(<<"builtin", "fallible">>)
\* There may be nothing to tell native, or no range to detach.
Unmap         == WithState(Arm(2, Do(<<"send">>)) \o Arm(3, DetachRanges \o Do(<<"send">>)))
BufferDestroy == WithState(Arm(2, Do(<<"send">>)) \o Arm(3, DetachRanges \o Do(<<"send">>)))
\* The states of all the device's live buffers are locked.
DeviceDestroy ==
  Do(<<"brand">>) \o Arm(2, Do(<<"lock", "unlock", "send">>))
  \o Arm(3, Do(<<"lock">>) \o DetachRanges \o Do(<<"unlock", "send">>))

\* destroy() of the others.
TextureDestroy   == Do(<<"brand">>) \o Opt(Do(<<"send">>))
QuerySetDestroy  == Do(<<"brand">>) \o Opt(Do(<<"send">>))
ExtensionDestroy == Do(<<"brand", "lock", "unlock">>)

(***************************************************************************)
(* Buffer sources.                                                         *)
(***************************************************************************)
\* convert_buffer_source, of a view: what script says of it is believed only within the bytes copied.
ViewBytes(m) ==
  Within(m, << Get("buffer") >> \o Do(<<"measure">>)
            \o << Require("byteOffset") >> \o To("byteOffset")
            \o << Require("byteLength") >> \o To("byteLength")
            \o << Get("constructor") >> \o Opt(<< Get("BYTES_PER_ELEMENT") >> \o To("BYTES_PER_ELEMENT"))
            \o Do(<<"bounds", "copy">>))

BufferSource(m) == Arm(1, Do(<<"whole">>)) \o Arm(2, ViewBytes(m)) \o Arm(3, ViewBytes(m))

WriteBuffer ==
  Do(<<"brand">>) \o To("bufferOffset") \o BufferSource("data")
  \o Opt(To("dataOffset")) \o Do(<<"start">>) \o Opt(To("size")) \o Do(<<"window">>)
  \o Handle("buffer") \o Do(<<"slice", "send">>)

WriteTexture ==
  Do(<<"brand">>) \o Argument("destination", TexelCopyTextureInfo)
  \o Argument("dataLayout", TexelCopyBufferLayout) \o ExtentOf("size") \o BufferSource("data")
  \o Do(<<"slice", "send">>)

Immediates ==
  To("rangeOffset") \o BufferSource("data")
  \o Opt(To("dataOffset")) \o Do(<<"start">>) \o Opt(To("size")) \o Do(<<"window", "slice">>)

\* A window of a Uint32Array, or a sequence.
OffsetsWindow ==
  ViewBytes("dynamicOffsetsData") \o Do(<<"words">>) \o To("dataOffset") \o To("size")
  \o Do(<<"start", "window", "slice">>)
DynamicOffsets == Arm(1, Opt(Items("dynamicOffsets", ToItem))) \o Arm(2, OffsetsWindow) \o Arm(3, OffsetsWindow)

(***************************************************************************)
(* Commands: the encoder is checked first, its arguments converted then.   *)
(***************************************************************************)
Command(arguments) == Do(<<"check">>) \o arguments \o Do(<<"send">>)

\* Of a render pass or a render bundle encoder.
SetPipeline     == Command(Slot("pipeline"))
SetVertexBuffer == Command(To("slot") \o Opt(Handle("buffer")) \o Opt(Tos(<<"offset", "size">>)))
SetIndexBuffer  == Command(Handle("buffer") \o To("indexFormat") \o Opt(Tos(<<"offset", "size">>)))
SetBindGroup    == Command(To("index") \o Opt(Slot("bindGroup")) \o DynamicOffsets)
SetImmediates   == Command(Immediates)
Draw            == Command(To("vertexCount") \o Opt(Tos(<<"instanceCount", "firstVertex", "firstInstance">>)))
DrawIndexed     == Command(To("indexCount")
                           \o Opt(Tos(<<"instanceCount", "firstIndex", "baseVertex", "firstInstance">>)))
DrawIndirect        == Command(Handle("indirectBuffer") \o To("indirectOffset"))
DrawIndexedIndirect == Command(Handle("indirectBuffer") \o To("indirectOffset"))
SetViewport         == Command(Tos(<<"x", "y", "width", "height", "minDepth", "maxDepth">>))
SetScissorRect      == Command(Tos(<<"x", "y", "width", "height">>))
SetBlendConstant    == Command(ColorOf("color"))
SetStencilReference == Command(To("reference"))
BeginOcclusionQuery == Command(To("queryIndex"))
EndOcclusionQuery   == Command(<<>>)
RenderPassEnd       == Command(<<>>)

\* Of a compute pass.
ComputeSetPipeline   == Command(Slot("pipeline"))
ComputeSetBindGroup  == Command(To("index") \o Opt(Slot("bindGroup")) \o DynamicOffsets)
ComputeSetImmediates == Command(Immediates)
DispatchIndirect     == Command(Handle("indirectBuffer") \o To("indirectOffset"))
Dispatch             == Command(To("workgroupCountX") \o Opt(Tos(<<"workgroupCountY", "workgroupCountZ">>)))
ComputePassEnd       == Command(<<>>)

\* Of any of them; the depth of the groups is CommandEncoder's.
PushDebugGroup    == Command(To("groupLabel"))
PopDebugGroup     == Command(<<>>)
InsertDebugMarker == Command(To("markerLabel"))

\* Of a command encoder.
CopyBufferToBuffer  == Command(Handle("source") \o Opt(To("sourceOffset")) \o Handle("destination")
                               \o Opt(Tos(<<"destinationOffset", "size">>)))
ClearBuffer         == Command(Handle("buffer") \o Opt(Tos(<<"offset", "size">>)))
ResolveQuerySet     == Command(Handle("querySet") \o Tos(<<"firstQuery", "queryCount">>)
                               \o Handle("destination") \o To("destinationOffset"))
CopyBufferToTexture == Command(Argument("source", TexelCopyBufferInfo)
                               \o Argument("destination", TexelCopyTextureInfo) \o ExtentOf("copySize"))
CopyTextureToBuffer == Command(Argument("source", TexelCopyTextureInfo)
                               \o Argument("destination", TexelCopyBufferInfo) \o ExtentOf("copySize"))
CopyTextureToTexture == Command(Argument("source", TexelCopyTextureInfo)
                               \o Argument("destination", TexelCopyTextureInfo) \o ExtentOf("copySize"))

\* The bundles are converted before the pass is checked, the command buffers before any is locked.
ExecuteBundles      == Items("bundles", SlotItem) \o Do(<<"check", "send">>)
Submit              == Do(<<"brand">>) \o Items("commandBuffers", HandleItem) \o Do(<<"lock", "unlock", "send">>)

(***************************************************************************)
(* Requests.                                                               *)
(***************************************************************************)
RequestAdapter ==
  Do(<<"brand">>) \o << Get("featureLevel") >> \o Opt(To("featureLevel"))
  \o << Get("powerPreference") >> \o Opt(To("powerPreference"))
  \o << Get("forceFallbackAdapter"), Get("xrCompatible") >> \o Do(<<"send">>)

\* The limits are Limits' subject: here their names and values are one item.
RequestDevice ==
  Do(<<"brand">>) \o << Get("label") >> \o Opt(To("label"))
  \o << Get("requiredFeatures") >> \o Opt(Items("requiredFeatures", ToItem))
  \o << Get("requiredLimits") >> \o Opt(Constants("requiredLimits")) \o Do(<<"send">>)

CreateComputePipelineAsync == Do(<<"brand">>) \o Argument("descriptor", ComputePipelineDescriptor)
                              \o Do(<<"register", "send">>)
CreateRenderPipelineAsync  == Do(<<"brand">>) \o Argument("descriptor", RenderPipelineDescriptor)
                              \o Do(<<"register", "send">>)
GetCompilationInfo         == Do(<<"brand">>) \o Slot("this") \o Do(<<"send">>)

\* mapAsync checks its receiver after the arguments; what is checked under the lock is BufferMapping's.
MapAsync            == To("mode") \o Opt(Tos(<<"offset", "size">>)) \o Do(<<"brand", "lock", "unlock", "send">>)
OnSubmittedWorkDone == Do(<<"brand", "send">>)
PushErrorScope      == Do(<<"brand">>) \o To("filter") \o Do(<<"send">>)
PopErrorScope       == Do(<<"brand", "send">>)
\* The queue's wrapper is made once; native's queue is released if it cannot be.
DeviceQueue         == Do(<<"brand", "make", "register", "wrap">>)

(***************************************************************************)
(* Events and errors.                                                      *)
(***************************************************************************)
EventInit == << Get("cancelable") >>
PreventDefault              == Do(<<"brand">>)
IllegalConstructor          == Do(<<"refuse">>)
EventConstructor            == To("type") \o Opt(Within("init", EventInit)) \o Do(<<"wrap">>)
UncapturedErrorEventConstructor ==
  To("type") \o << Get("error") >> \o Handle("error") \o Within("init", EventInit) \o Do(<<"wrap">>)
ErrorConstructor            == To("message") \o Do(<<"wrap">>)
DomExceptionConstructor     == Opt(Tos(<<"message", "name">>)) \o Do(<<"wrap">>)
PipelineErrorConstructor    == Opt(To("message")) \o << Require("reason") >> \o To("reason") \o Do(<<"wrap">>)
\* The listener's entry is EventTarget's.
AddEventListener            == To("type") \o Opt(<< Get("once") >>)
                               \o Do(<<"brand", "lock", "fallible", "engine", "unlock">>)
RemoveEventListener         == To("type") \o Do(<<"brand", "lock", "engine", "unlock">>)
LostPromise                 == Do(<<"brand", "lock", "fallible", "engine", "unlock">>)
Handler                     == Do(<<"brand", "lock", "engine", "unlock">>)
SetHandlerAttribute         == Do(<<"brand", "engine", "lock", "fallible", "engine", "unlock">>)

(***************************************************************************)
(* All of them.                                                            *)
(***************************************************************************)
Labels == [
  shaderModule |-> ShaderModuleLabel, sampler |-> SamplerLabel, texture |-> TextureLabel,
  textureView |-> TextureViewLabel, bindGroupLayout |-> BindGroupLayoutLabel,
  pipelineLayout |-> PipelineLayoutLabel, bindGroup |-> BindGroupLabel,
  computePipeline |-> ComputePipelineLabel, renderPipeline |-> RenderPipelineLabel,
  querySet |-> QuerySetLabel, commandEncoder |-> CommandEncoderLabel,
  renderBundleEncoder |-> RenderBundleEncoderLabel, device |-> DeviceLabel, queue |-> QueueLabel,
  computePass |-> ComputePassLabel, renderPass |-> RenderPassLabel,
  commandBuffer |-> CommandBufferLabel, renderBundle |-> RenderBundleLabel,
  externalTexture |-> ExternalTextureLabel, buffer |-> [get |-> BufferGetLabel, set |-> BufferLabel]]

Operations == [
  createShaderModule |-> CreateShaderModule, createSampler |-> CreateSampler,
  createTexture |-> CreateTexture, createView |-> CreateView,
  createBindGroupLayout |-> CreateBindGroupLayout, createPipelineLayout |-> CreatePipelineLayout,
  createBindGroup |-> CreateBindGroup, createComputePipeline |-> CreateComputePipeline,
  createRenderPipeline |-> CreateRenderPipeline, createQuerySet |-> CreateQuerySet,
  createCommandEncoder |-> CreateCommandEncoder, createBuffer |-> CreateBuffer,
  createRenderBundleEncoder |-> CreateRenderBundleEncoder,
  finishRenderBundle |-> FinishRenderBundle, finishEncoder |-> FinishEncoder,
  beginRenderPass |-> BeginRenderPass, beginComputePass |-> BeginComputePass,
  getBindGroupLayout |-> GetBindGroupLayout,
  textureFormat |-> TextureFormat, textureAttribute |-> TextureAttribute,
  textureExtents |-> TextureExtents, querySetAttribute |-> QuerySetAttribute,
  compilationAttribute |-> CompilationAttribute, eventAttribute |-> EventAttribute,
  errorAttribute |-> ErrorAttribute, pipelineErrorAttribute |-> PipelineErrorAttribute,
  lossAttribute |-> LossAttribute, limitAttribute |-> LimitAttribute,
  adapterInfoAttribute |-> AdapterInfoAttribute, isFallbackAdapter |-> IsFallbackAdapter,
  bufferAttribute |-> BufferAttribute,
  textureBindingViewDimension |-> TextureBindingViewDimension,
  features |-> Features, limits |-> LimitsOf, info |-> InfoOf,
  getMappedRange |-> GetMappedRange, unmap |-> Unmap, bufferDestroy |-> BufferDestroy,
  deviceDestroy |-> DeviceDestroy, textureDestroy |-> TextureDestroy,
  querySetDestroy |-> QuerySetDestroy, extensionDestroy |-> ExtensionDestroy,
  writeBuffer |-> WriteBuffer, writeTexture |-> WriteTexture,
  setPipeline |-> SetPipeline, setVertexBuffer |-> SetVertexBuffer,
  setIndexBuffer |-> SetIndexBuffer, setBindGroup |-> SetBindGroup,
  setImmediates |-> SetImmediates, draw |-> Draw, drawIndexed |-> DrawIndexed,
  drawIndirect |-> DrawIndirect, drawIndexedIndirect |-> DrawIndexedIndirect,
  setViewport |-> SetViewport, setScissorRect |-> SetScissorRect,
  setBlendConstant |-> SetBlendConstant, setStencilReference |-> SetStencilReference,
  dispatchWorkgroups |-> Dispatch, insertDebugMarker |-> InsertDebugMarker,
  copyBufferToBuffer |-> CopyBufferToBuffer, clearBuffer |-> ClearBuffer,
  resolveQuerySet |-> ResolveQuerySet, copyBufferToTexture |-> CopyBufferToTexture,
  copyTextureToBuffer |-> CopyTextureToBuffer, copyTextureToTexture |-> CopyTextureToTexture,
  beginOcclusionQuery |-> BeginOcclusionQuery, endOcclusionQuery |-> EndOcclusionQuery,
  renderPassEnd |-> RenderPassEnd, computePassEnd |-> ComputePassEnd,
  computeSetPipeline |-> ComputeSetPipeline, computeSetBindGroup |-> ComputeSetBindGroup,
  computeSetImmediates |-> ComputeSetImmediates, dispatchIndirect |-> DispatchIndirect,
  pushDebugGroup |-> PushDebugGroup, popDebugGroup |-> PopDebugGroup, submit |-> Submit,
  mapAsync |-> MapAsync, onSubmittedWorkDone |-> OnSubmittedWorkDone,
  pushErrorScope |-> PushErrorScope, popErrorScope |-> PopErrorScope, queue |-> DeviceQueue,
  preventDefault |-> PreventDefault, illegalConstructor |-> IllegalConstructor,
  event |-> EventConstructor, uncapturedErrorEvent |-> UncapturedErrorEventConstructor,
  error |-> ErrorConstructor, domException |-> DomExceptionConstructor,
  pipelineError |-> PipelineErrorConstructor, addEventListener |-> AddEventListener,
  removeEventListener |-> RemoveEventListener, lost |-> LostPromise,
  onuncapturederror |-> Handler, setOnuncapturederror |-> SetHandlerAttribute,
  executeBundles |-> ExecuteBundles, requestAdapter |-> RequestAdapter,
  requestDevice |-> RequestDevice, createComputePipelineAsync |-> CreateComputePipelineAsync,
  createRenderPipelineAsync |-> CreateRenderPipelineAsync, getCompilationInfo |-> GetCompilationInfo]

Rows == [call |-> Operations,
         get  |-> [w \in DOMAIN Labels |-> Labels[w].get],
         set  |-> [w \in DOMAIN Labels |-> Labels[w].set]]

\* Wrappers of an object native may not have: an invalid pass, command buffer or bundle.
MayBeNull == {"computePass", "renderPass", "commandBuffer", "renderBundle"}
=============================================================================
