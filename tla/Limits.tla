------------------------------- MODULE Limits -------------------------------
(***************************************************************************)
(* The limits of a device from script to native and back: requestDevice    *)
(* reads, coerces and validates `requiredLimits', native gets a structure  *)
(* in which "undefined" is one of the numbers a limit could have, and the  *)
(* getters of device.limits turn native's numbers into script's.           *)
(*                                                                         *)
(* Three ranges meet: 32-bit limits, 64-bit limits and the integers a      *)
(* double holds exactly, which lie between.  A double is counted in halves *)
(* here.                                                                   *)
(***************************************************************************)
EXTENDS Integers, FiniteSets

CONSTANTS
  U32Undefined,   \* WGPU_LIMIT_U32_UNDEFINED, the largest u32
  MaxSafe,        \* 2^53 - 1
  U64Undefined,   \* WGPU_LIMIT_U64_UNDEFINED, the largest u64
  Doubles,        \* bound: the numbers script asks for, in halves
  Requestable,    \* bound: the names script asks for
  MaxAsked,       \* bound: how many at once
  Reported        \* bound: what an adapter reports

(***************************************************************************)
(* The limits there are.                                                   *)
(***************************************************************************)
CompatibilityLimits == {
  "maxStorageBuffersInVertexStage", "maxStorageTexturesInVertexStage",
  "maxStorageBuffersInFragmentStage", "maxStorageTexturesInFragmentStage"}
MinimumAlignments == {"minUniformBufferOffsetAlignment", "minStorageBufferOffsetAlignment"}
Wide == {"maxUniformBufferBindingSize", "maxStorageBufferBindingSize", "maxBufferSize"}

\* is_known_required_limit
Known == CompatibilityLimits \cup MinimumAlignments \cup Wide \cup {
  "maxTextureDimension1D", "maxTextureDimension2D", "maxTextureDimension3D", "maxTextureArrayLayers",
  "maxBindGroups", "maxBindGroupsPlusVertexBuffers", "maxImmediateSize", "maxBindingsPerBindGroup",
  "maxDynamicUniformBuffersPerPipelineLayout", "maxDynamicStorageBuffersPerPipelineLayout",
  "maxSampledTexturesPerShaderStage", "maxSamplersPerShaderStage", "maxStorageBuffersPerShaderStage",
  "maxStorageTexturesPerShaderStage", "maxUniformBuffersPerShaderStage", "maxVertexBuffers",
  "maxVertexAttributes", "maxVertexBufferArrayStride", "maxInterStageShaderVariables",
  "maxColorAttachments", "maxColorAttachmentBytesPerSample", "maxComputeWorkgroupStorageSize",
  "maxComputeInvocationsPerWorkgroup", "maxComputeWorkgroupSizeX", "maxComputeWorkgroupSizeY",
  "maxComputeWorkgroupSizeZ", "maxComputeWorkgroupsPerDimension"}

Undefined(n) == IF n \in Wide THEN U64Undefined ELSE U32Undefined
\* initial_limits
InitialLimits == [n \in Known |-> Undefined(n)]

\* A member script gives as undefined.
Missing == -4

ASSUME LimitsAssumption ==
  /\ U32Undefined \in Nat /\ MaxSafe \in Nat /\ U64Undefined \in Nat
  /\ U32Undefined < MaxSafe /\ MaxSafe < U64Undefined
  /\ Doubles \subseteq Int \ {Missing} /\ Reported \subseteq Nat

VARIABLES
  step,        \* coerce, known, query, convert, send, sent, created, rejected, failed
  ask,         \* the record script gives; a member may be Missing
  left,        \* own names still to read
  requested,   \* requested_limits: name to integer
  supported,   \* what the adapter reports of the names asked for
  limits,      \* the structure being filled in
  handed,      \* what native was given: whether a pointer, and the structure
  device       \* the device's limits

limitsVars == <<step, ask, left, requested, supported, limits, handed, device>>

Asked == {N \in SUBSET Requestable : Cardinality(N) <= MaxAsked}

LimitsInit ==
  /\ step = "coerce"
  /\ \E N \in Asked :
       /\ ask \in [N -> Doubles \cup {Missing}] /\ left = N
       /\ supported \in {s \in [N \cap Known -> Reported] : \A n \in N \cap Known : s[n] <= Undefined(n)}
  /\ requested = <<>> /\ limits = InitialLimits /\ handed = [pointer |-> FALSE, limits |-> InitialLimits] /\ device = <<>>

(***************************************************************************)
(* requestDevice.                                                          *)
(***************************************************************************)
Rejects == step' = "rejected" /\ UNCHANGED <<left, requested, limits>>

\* enforce_required_limit_value: within 0 .. MaxSafe, and truncated.
InRange(d)  == 0 <= d /\ d <= 2 * MaxSafe
Truncate(d) == d \div 2

\* coerce_required_limits, one name: a member that is undefined is not asked for.
CoerceLimit ==
  /\ step = "coerce" /\ left # {}
  /\ \E n \in left :
       \/ /\ ask[n] = Missing /\ left' = left \ {n}
          /\ UNCHANGED <<step, requested, limits>>
       \/ /\ ask[n] # Missing
          /\ IF InRange(ask[n])
             THEN /\ requested' = [m \in DOMAIN requested \cup {n} |->
                                      IF m = n THEN Truncate(ask[n]) ELSE requested[m]]
                  /\ left' = left \ {n} /\ UNCHANGED <<step, limits>>
             ELSE Rejects
  /\ UNCHANGED <<ask, supported, handed, device>>

\* The first name no limit has rejects; nothing asked for leaves native's pointer null.
CheckKnown ==
  /\ step = "coerce" /\ left = {}
  /\ IF DOMAIN requested \subseteq Known
     THEN /\ step' = IF DOMAIN requested = {} THEN "send" ELSE "query"
          /\ UNCHANGED <<left, requested, limits>>
     ELSE Rejects
  /\ UNCHANGED <<ask, supported, handed, device>>

\* query_supported_limits
QuerySupported ==
  /\ step = "query"
  /\ \/ step' = "convert" /\ left' = DOMAIN requested /\ UNCHANGED <<requested, limits>>
     \/ step' = "failed" /\ UNCHANGED <<left, requested, limits>>
  /\ UNCHANGED <<ask, supported, handed, device>>

\* validate_required_limit
IsBetter(n, v) == IF n \in MinimumAlignments THEN v < supported[n] ELSE v > supported[n]
\* As if the largest u32 were a number like the others.
FitsU32(n, v) == n \in Wide \/ v <= U32Undefined
\* required_limit_u32; a 64-bit limit takes the value as it is.
Representable(n, v) == n \in Wide \/ v < U32Undefined

\* convert_required_limits, one limit.
Convert ==
  /\ step = "convert" /\ left # {}
  /\ \E n \in left :
       IF IsBetter(n, requested[n]) \/ ~Representable(n, requested[n]) THEN Rejects
       ELSE /\ limits' = [limits EXCEPT ![n] = requested[n]] /\ left' = left \ {n}
            /\ UNCHANGED <<step, requested>>
  /\ UNCHANGED <<ask, supported, handed, device>>

SendLimits ==
  /\ step = "send" \/ (step = "convert" /\ left = {})
  /\ step' = "sent" /\ handed' = [pointer |-> DOMAIN requested # {}, limits |-> limits]
  /\ UNCHANGED <<ask, left, requested, supported, limits, device>>

(***************************************************************************)
(* The device and its getters.                                             *)
(***************************************************************************)
\* A device has what it was asked for; of the rest nothing is told.
CreateDevice ==
  /\ step = "sent" /\ step' = "created"
  /\ device' = [n \in DOMAIN requested |-> handed.limits[n]]
  /\ UNCHANGED <<ask, left, requested, supported, limits, handed>>

LimitsNext == CoerceLimit \/ CheckKnown \/ QuerySupported \/ Convert \/ SendLimits \/ CreateDevice

LimitsSpec == LimitsInit /\ [][LimitsNext]_limitsVars

\* supported_limits_class: one getter for each limit.  supported_limit_value: a number a double does not
\* hold exactly throws.
Getters == Known
GetLimit(limit, n) == limit[n]
Readable(limit, n) == n \in Getters /\ GetLimit(limit, n) <= MaxSafe

(***************************************************************************)
(* Properties.                                                             *)
(***************************************************************************)
Wanted == {n \in DOMAIN ask : ask[n] # Missing}

\* Native is asked for exactly the limits script asked for, each as the integer script gave and never
\* as the number that means "not asked for"; none is better than what the adapter supports; and
\* device.limits gives the same number back.
AskedAsGiven ==
  step \in {"sent", "created"} =>
    /\ Wanted \subseteq Known
    /\ handed.pointer <=> Wanted # {}
    /\ Wanted # {} => \A n \in Known :
         IF n \in Wanted
         THEN /\ handed.limits[n] = Truncate(ask[n]) /\ handed.limits[n] # Undefined(n) /\ ~IsBetter(n, handed.limits[n])
              /\ step = "created" => Readable(device, n) /\ GetLimit(device, n) = Truncate(ask[n])
         ELSE handed.limits[n] = Undefined(n)

\* A request that names only limits there are, with the numbers adapter.limits gives for them, is
\* rejected only if native left one of them undefined.
SupportedIsGranted ==
  step = "rejected" /\ Wanted \subseteq Known
    /\ (\A n \in Wanted : Readable(supported, n) /\ ask[n] = 2 * supported[n])
  => \E n \in Wanted : supported[n] = Undefined(n)
LimitsHonoured == AskedAsGiven /\ SupportedIsGranted
=============================================================================
