------------------------------ MODULE Generator ------------------------------
(***************************************************************************)
(* generate_core: the policy is validated against the WebIDL, the WebIDL   *)
(* is joined with webgpu.yml, the lifecycle policy is validated against    *)
(* the join, the retention of each standard interface is derived and the   *)
(* classes are emitted.  A stage that refuses ends the generation.         *)
(*                                                                         *)
(* A world w is the three inputs.  Names are canonical: a C object, struct *)
(* or enum has the name of the WebIDL type it is joined with.              *)
(*   w.members   interface -> its members: name, kind, what the overloads  *)
(*               return, the types of the arguments, and whether           *)
(*               native_attribute_supported                                *)
(*   w.dicts, w.alias, w.captures, w.extensions   as in RetentionPlan      *)
(*   w.parent    dictionary -> the one it inherits from                    *)
(*   w.enums     WebIDL enums                                              *)
(*   w.cObjects  C object -> its methods: name and types                   *)
(*   w.cStructs  C struct -> its fields: name and types                    *)
(*   w.cExtends  C struct -> the structs that extend it                    *)
(*   w.cEnums    C enums and bitflags                                      *)
(*   w.subset    interfaces selected, in order, with members               *)
(*   w.policy    the lifecycle policy                                      *)
(***************************************************************************)
EXTENDS Naturals, Sequences, FiniteSets, SequencesExt

CONSTANT Worlds

\* Names of different sorts differ, the members of an interface are grouped by name.
WorldKnown(w) ==
  LET dictionaries == DOMAIN w.dicts \cup DOMAIN w.cStructs
      enums        == w.enums \cup w.cEnums \cup DOMAIN w.alias
  IN  /\ w.subset \in Seq([interface : STRING, members : SUBSET STRING])
      /\ dictionaries \cap enums = {} /\ DOMAIN w.members \cap (dictionaries \cup enums) = {}
      /\ w.enums \cap DOMAIN w.alias = {}
      /\ \A itf \in DOMAIN w.members :
           /\ \A m \in w.members[itf] : m.kind \in {"operation", "attribute"} /\ m.order \in Nat
           /\ \A m, n \in w.members[itf] : m.name = n.name => m = n
      /\ \A itf \in DOMAIN w.cObjects : \A c \in w.cObjects[itf] : c.name \in {"call", "get", "set"} \X STRING
ASSUME WorldsAssumption == \A w \in Worlds : WorldKnown(w)

RP == INSTANCE RetentionPlan

VARIABLES
  world,    \* the inputs
  stage,    \* the stage that comes next, "emitted" or "rejected"
  pending,  \* types the walk under way has still to look at
  idlTypes, \* WebIDL types the joined members reach
  cTypes,   \* C types they reach
  report,   \* JoinReport: what became of each member and type
  plans,    \* standard interface -> its creator and what it retains
  emitted   \* class tables and functions

generatorVars == <<world, stage, pending, idlTypes, cTypes, report, plans, emitted>>

Ids(types)      == UNION {Range(t.ids) : t \in types}
Selected(w)     == {w.subset[i].interface : i \in DOMAIN w.subset}
SelectedOf(w, itf) == UNION {w.subset[i].members : i \in {j \in DOMAIN w.subset : w.subset[j].interface = itf}}
Names(members)  == {m.name : m \in members}
Operations(w, itf) == {m.name : m \in {x \in w.members[itf] : x.kind = "operation"}}

(***************************************************************************)
(* validate_policy                                                         *)
(***************************************************************************)
SubsetKnown(w) ==
  /\ \A i, j \in DOMAIN w.subset : w.subset[i].interface = w.subset[j].interface => i = j
  /\ \A i \in DOMAIN w.subset :
       w.subset[i].interface \in DOMAIN w.members
       /\ w.subset[i].members \subseteq Names(w.members[w.subset[i].interface])
ExtensionsNew(w) ==
  \A e \in w.policy.extensionMethods :
    e.interface \in Selected(w) /\ e.member \notin Names(w.members[e.interface])
ExtrasKnown(w) ==
  \A x \in w.policy.extras :
    /\ x \in DOMAIN w.members /\ x \notin Selected(w)
    /\ \A e \in w.policy.methods : e.interface = x /\ ~e.reason => e.member \in Operations(w, x)
ReadonlyWhole(w) ==
  \A x \in w.policy.readonly :
    /\ x \in w.policy.extras /\ Operations(w, x) = {}
    /\ {e.member : e \in {p \in w.policy.properties : p.interface = x}} = Names(w.members[x])
MappingsOnClasses(w) ==
  /\ \A e \in w.policy.methods : e.interface \in Selected(w) \cup w.policy.extras
  /\ \A e \in w.policy.omitted : /\ e.interface \in Selected(w) \cup w.policy.extras
                                 /\ e.member \in Operations(w, e.interface)
PolicyAccepted(w) ==
  SubsetKnown(w) /\ ExtensionsNew(w) /\ ExtrasKnown(w) /\ ReadonlyWhole(w) /\ MappingsOnClasses(w)

(***************************************************************************)
(* build_report                                                            *)
(***************************************************************************)
\* c_member_candidates: a label is joined with its setter, another attribute with its getter.
Candidate(m) ==
  IF m.kind = "operation" THEN <<"call", m.name>>
  ELSE IF m.name = "label" THEN <<"set", "label">> ELSE <<"get", m.name>>

JoinInterface(w, itf) ==
  IF itf \notin DOMAIN w.cObjects THEN {<<"idl-only", itf>>}
  ELSE LET found == {m \in w.members[itf] : Candidate(m) \in Names(w.cObjects[itf])} IN
       {<<IF m.name \in SelectedOf(w, itf) THEN "pair" ELSE "skip", itf, m.name>> : m \in found}
       \cup {<<"mismatch", itf, m.name>> : m \in w.members[itf] \ found}
       \cup {<<"c-only", itf, c[1], c[2]>> : c \in Names(w.cObjects[itf]) \ {Candidate(m) : m \in found}}

Joined(w, itf) == {m \in w.members[itf] : <<"pair", itf, m.name>> \in JoinInterface(w, itf)}

\* collect_idl_roots and collect_c_function_roots: the types the joined members name.
IdlRoots(w) == UNION {UNION {m.returns \cup Range(m.args) : m \in Joined(w, itf)} : itf \in Selected(w)}
CRoots(w) ==
  UNION {UNION {c.types : c \in {x \in w.cObjects[itf] : x.name \in {Candidate(m) : m \in Joined(w, itf)}}} :
           itf \in Selected(w) \cap DOMAIN w.cObjects}

Parents(w, d) == IF d \in DOMAIN w.parent THEN {w.parent[d]} ELSE {}
\* Its own members and those it inherits.
DictionaryMembers(w, d) ==
  LET members[x \in DOMAIN w.dicts] == Range(w.dicts[x]) \cup UNION {members[p] : p \in Parents(w, x)}
  IN  members[d]

\* What transitive_idl_types follows: a dictionary to its parent and the types of its members, a
\* typedef to its type.
IdlNext(w, t) ==
  IF t \in DOMAIN w.dicts THEN Ids({m.type : m \in DictionaryMembers(w, t)}) \cup Parents(w, t)
  ELSE IF t \in DOMAIN w.alias THEN Range(w.alias[t].ids) ELSE {}
\* As if the extension structs, which nothing names, were not followed.
CNextNamed(w, t) ==
  IF t \in DOMAIN w.cStructs THEN UNION {f.types : f \in w.cStructs[t]} ELSE {}
\* What transitive_c_types follows: a struct to its fields and its extensions.
CNext(w, t) ==
  IF t \in DOMAIN w.cStructs THEN (UNION {f.types : f \in w.cStructs[t]}) \cup w.cExtends[t] ELSE {}

\* build_transitive_types and join_dictionary_fields.
JoinFields(w, d) ==
  LET idl == Names(DictionaryMembers(w, d)) c == Names(w.cStructs[d]) IN
  {<<"pair", d, f>> : f \in idl \cap c} \cup {<<"mismatch", d, f>> : f \in idl \ c}
  \cup {<<"c-only", d, f>> : f \in c \ idl}
JoinTypes(w, idl, c) ==
  (UNION {IF t \in DOMAIN w.dicts
          THEN {<<"dictionary", t>>}
               \cup (IF t \in DOMAIN w.cStructs THEN JoinFields(w, t) ELSE {<<"idl-only", t>>})
          ELSE IF t \in w.enums
          THEN {<<"enum", t>>} \cup (IF t \in w.cEnums THEN {} ELSE {<<"idl-only", t>>})
          ELSE IF t \in DOMAIN w.alias THEN {<<"enum", t>>} ELSE {} : t \in idl})
  \cup {<<"c-only", t>> : t \in (c \cap DOMAIN w.cStructs) \ (idl \cap DOMAIN w.dicts)}
  \cup {<<"c-only", t>> : t \in (c \cap w.cEnums) \ (idl \cap (w.enums \cup DOMAIN w.alias))}

(***************************************************************************)
(* validate_lifecycle and standard_interfaces                              *)
(***************************************************************************)
Key(itf, m)     == [interface |-> itf, member |-> m]
Mapped(w, itf, m)  == \E e \in w.policy.methods : e.interface = itf /\ e.member = m
Property(w, itf, m) == Key(itf, m) \in w.policy.properties
Omitted(w, itf, m) == Key(itf, m) \in w.policy.omitted

\* The joined members that return an interface, with the position of their owner in the subset.
Creators(w, s) ==
  {c \in UNION {{[at |-> i, owner |-> w.subset[i].interface, member |-> m] :
                   m \in Joined(w, w.subset[i].interface)} : i \in DOMAIN w.subset} :
     c.member.kind = "operation" /\ s \in c.member.returns}

Bodies(conditions) == Cardinality({i \in DOMAIN conditions : conditions[i]})
Generated(w, itf, m) == m.returns \cap w.policy.standard # {} /\ ~Mapped(w, itf, m.name)
MethodCovered(w, itf, m) ==
  Bodies(<<Generated(w, itf, m), Mapped(w, itf, m.name), Omitted(w, itf, m.name)>>) = 1
\* As if every attribute of a standard interface had a native getter.
PropertyCoveredAny(w, itf, m) ==
  Bodies(<<itf \in w.policy.standard, Property(w, itf, m.name)>>) = 1
PropertyCovered(w, itf, m) ==
  Bodies(<<m.name = "label" /\ itf \in w.policy.standard,
           m.name # "label" /\ itf \in w.policy.standard /\ m.native,
           Property(w, itf, m.name)>>) = 1

LifecycleAccepted(w) ==
  /\ \A s \in w.policy.standard :
       /\ s \in Selected(w) /\ s \in DOMAIN w.cObjects
       /\ \E c \in Creators(w, s) : {o \in Creators(w, s) : ~Mapped(w, o.owner, o.member.name)} = {c}
  /\ \A e, f \in w.policy.methods : e.interface = f.interface /\ e.member = f.member => e = f
  /\ \A e \in w.policy.methods : ~Omitted(w, e.interface, e.member)
  /\ \A itf \in Selected(w) :
       /\ SelectedOf(w, itf) \subseteq Names(Joined(w, itf))
       /\ \A m \in Joined(w, itf) :
            IF m.kind = "operation" THEN MethodCovered(w, itf, m) ELSE PropertyCovered(w, itf, m)
  /\ \A e \in w.policy.methods :
       \/ e.reason \/ e.interface \in w.policy.extras
       \/ e.member \in SelectedOf(w, e.interface)

\* The creator is looked for again, this time with the mapped methods; the first joined one is
\* taken, by subset and then by name.
FoundCreator(w, s) ==
  CHOOSE c \in Creators(w, s) : \A o \in Creators(w, s) :
    c.at < o.at \/ (c.at = o.at /\ (c.member.order <= o.member.order))
CreatorsFound(w) ==
  \A s \in w.policy.standard : ~Mapped(w, FoundCreator(w, s).owner, FoundCreator(w, s).member.name)

Schema(w) ==
  [handles |-> Selected(w) \cap DOMAIN w.cObjects, dicts |-> w.dicts, alias |-> w.alias,
   captures |-> w.captures, extensions |-> w.extensions,
   creator |-> [s \in w.policy.standard |-> FoundCreator(w, s).owner],
   descriptor |-> [s \in w.policy.standard |-> FoundCreator(w, s).member.args[1]]]
\* A creator without a descriptor, or with one the policy does not emit, is refused.
PlansOf(w) ==
  [s \in w.policy.standard |->
     LET args == FoundCreator(w, s).member.args IN
     IF args = <<>> \/ args[1] \notin w.policy.descriptors THEN RP!Rejected ELSE RP!Retains(Schema(w), s)]

(***************************************************************************)
(* emit_class_specs and the functions the tables name.                     *)
(***************************************************************************)
Body(kind, itf, m) == <<kind, itf, m>>

\* emit_create, emit_label_accessors, emit_native_attribute_accessors, emit_extension_methods.
Functions(w) ==
  {Body("create", FoundCreator(w, s).owner, FoundCreator(w, s).member.name) : s \in w.policy.standard}
  \cup {Body("label", s, "label") : s \in {t \in w.policy.standard : "label" \in SelectedOf(w, t)}}
  \cup (UNION {{Body("native", s, m.name) :
                  m \in {x \in Joined(w, s) : x.kind = "attribute" /\ x.name # "label" /\ x.native}} :
                 s \in w.policy.standard})
  \cup {Body("extension", e.interface, e.member) : e \in w.policy.extensionMethods}

\* emit_one_class: an entry is a name, what it calls and the list it comes from.
Entry(name, from, call) == [name |-> name, from |-> from, call |-> call]

PropertyCall(w, itf, m) ==
  IF m.name = "label" /\ itf \in w.policy.standard THEN Body("label", itf, "label")
  ELSE IF itf \in w.policy.standard /\ ~Property(w, itf, m.name) THEN Body("native", itf, m.name)
  ELSE IF Property(w, itf, m.name) THEN Body("mapped", itf, m.name)
  ELSE Body("panic", itf, m.name)
PropertyEntries(w, itf) ==
  {Entry(m.name, "selected", PropertyCall(w, itf, m)) : m \in {x \in Joined(w, itf) : x.kind = "attribute"}}
  \cup {Entry(e.member, "extra", Body("mapped", itf, e.member)) :
          e \in {x \in w.policy.properties : x.interface = itf /\ x.member \notin SelectedOf(w, itf)}}

MethodCall(w, itf, m) ==
  IF Mapped(w, itf, m.name) THEN Body("mapped", itf, m.name)
  ELSE IF m.returns \cap w.policy.standard # {} THEN Body("create", itf, m.name)
  ELSE Body("panic", itf, m.name)
MethodEntries(w, itf) ==
  {Entry(m.name, "selected", MethodCall(w, itf, m)) :
     m \in {x \in Joined(w, itf) : x.kind = "operation" /\ ~Omitted(w, itf, x.name)}}
  \cup {Entry(e.member, "extra", Body("mapped", itf, e.member)) :
          e \in {x \in w.policy.methods :
                   x.interface = itf /\ (x.reason \/ itf \in w.policy.extras)
                   /\ x.member \notin SelectedOf(w, itf)}}
  \cup {Entry(e.member, "extension", Body("extension", itf, e.member)) :
          e \in {x \in w.policy.extensionMethods : x.interface = itf}}
Classes(w) == [itf \in Selected(w) \cup w.policy.extras |->
                 [properties |-> PropertyEntries(w, itf), methods |-> MethodEntries(w, itf)]]

(***************************************************************************)
(* The stages.                                                             *)
(***************************************************************************)
GeneratorInit ==
  /\ world \in Worlds /\ stage = "policy" /\ pending = {} /\ idlTypes = {} /\ cTypes = {}
  /\ report = {} /\ plans = <<>> /\ emitted = <<>>

ValidatePolicy ==
  /\ stage = "policy"
  /\ IF PolicyAccepted(world)
     THEN stage' = "idl types" /\ pending' = IdlRoots(world)
     ELSE stage' = "rejected" /\ UNCHANGED pending
  /\ UNCHANGED <<world, idlTypes, cTypes, report, plans, emitted>>
\* The walks look at a name once, whatever the order.
FirstOf(names) == CHOOSE t \in names : TRUE
FollowIdl ==
  /\ stage = "idl types" /\ pending # {}
  /\ idlTypes' = idlTypes \cup {FirstOf(pending)}
  /\ pending' = (pending \cup IdlNext(world, FirstOf(pending))) \ idlTypes'
  /\ UNCHANGED <<world, stage, cTypes, report, plans, emitted>>
TurnToC ==
  /\ stage = "idl types" /\ pending = {} /\ stage' = "c types" /\ pending' = CRoots(world)
  /\ UNCHANGED <<world, idlTypes, cTypes, report, plans, emitted>>
FollowC ==
  /\ stage = "c types" /\ pending # {}
  /\ cTypes' = cTypes \cup {FirstOf(pending)}
  /\ pending' = (pending \cup CNext(world, FirstOf(pending))) \ cTypes'
  /\ UNCHANGED <<world, stage, idlTypes, report, plans, emitted>>
BuildReport ==
  /\ stage = "c types" /\ pending = {} /\ stage' = "lifecycle"
  /\ report' = JoinTypes(world, idlTypes, cTypes) \cup UNION {JoinInterface(world, itf) : itf \in Selected(world)}
  /\ UNCHANGED <<world, pending, idlTypes, cTypes, plans, emitted>>
ValidateLifecycle ==
  /\ stage = "lifecycle"
  /\ stage' = IF LifecycleAccepted(world) THEN "plan" ELSE "rejected"
  /\ UNCHANGED <<world, pending, idlTypes, cTypes, report, plans, emitted>>
DeriveRetention ==
  /\ stage = "plan" /\ plans' = PlansOf(world)
  /\ stage' = IF RP!Rejected \in Range(plans') THEN "rejected" ELSE "emit"
  /\ UNCHANGED <<world, pending, idlTypes, cTypes, report, emitted>>
EmitClasses ==
  /\ stage = "emit" /\ stage' = "emitted"
  /\ emitted' = [functions |-> Functions(world), classes |-> Classes(world)]
  /\ UNCHANGED <<world, pending, idlTypes, cTypes, report, plans>>

GeneratorNext == \/ ValidatePolicy \/ FollowIdl \/ TurnToC \/ FollowC \/ BuildReport
                 \/ ValidateLifecycle \/ DeriveRetention \/ EmitClasses
GeneratorSpec == GeneratorInit /\ [][GeneratorNext]_generatorVars

(***************************************************************************)
(* Properties.                                                             *)
(***************************************************************************)
\* The join loses nothing: each member of a selected interface is one pair, skip or mismatch, each
\* C method the pair of some member or C-only; the types are closed under what they name, and each
\* field of a dictionary and of its struct is accounted for once.
JoinComplete ==
  report # {} =>
    /\ \A itf \in Selected(world) \cap DOMAIN world.cObjects :
         /\ \A m \in world.members[itf] :
              Cardinality({k \in {"pair", "skip", "mismatch"} : <<k, itf, m.name>> \in report}) = 1
         /\ \A c \in Names(world.cObjects[itf]) :
              <<"c-only", itf, c[1], c[2]>> \in report <=>
                ~\E m \in world.members[itf] : Candidate(m) = c /\ <<"mismatch", itf, m.name>> \notin report
    /\ \A t \in IdlRoots(world) \cup UNION {IdlNext(world, u) : u \in {x \in DOMAIN world.dicts : <<"dictionary", x>> \in report}
                                                            \cup {x \in DOMAIN world.alias : <<"enum", x>> \in report}} :
         /\ t \in DOMAIN world.dicts => <<"dictionary", t>> \in report
         /\ t \in world.enums \cup DOMAIN world.alias => <<"enum", t>> \in report
    /\ \A t \in CRoots(world) \cup UNION {(UNION {f.types : f \in world.cStructs[u]}) \cup world.cExtends[u] :
                                          u \in cTypes \cap DOMAIN world.cStructs} :
         /\ t \in cTypes
         /\ t \in DOMAIN world.cStructs => <<"dictionary", t>> \in report \/ <<"c-only", t>> \in report
         /\ t \in world.cEnums => <<"enum", t>> \in report \/ <<"c-only", t>> \in report
    /\ \A d \in DOMAIN world.dicts : <<"dictionary", d>> \in report =>
         \/ <<"idl-only", d>> \in report
         \/ \A f \in Names(DictionaryMembers(world, d)) \cup Names(world.cStructs[d]) :
              Cardinality({k \in {"pair", "mismatch", "c-only"} : <<k, d, f>> \in report}) = 1

\* An accepted policy is emitted whole: no body is missing where the emitter expects one, each
\* selected member that is not omitted is in its class once, and every generated function a class
\* names is emitted.  The creator an interface is validated with is not the one its function is
\* named after where a mapped method that returns the same interface comes first.
EmittedWhole ==
  stage = "emitted" =>
    \A itf \in DOMAIN emitted.classes :
      LET class == emitted.classes[itf]
          all   == class.properties \cup class.methods
      IN  /\ \A e \in all : e.call[1] # "panic"
          /\ \A e \in all : \/ e.call[1] = "mapped" \/ e.call \in emitted.functions
                            \/ e.call[1] = "create" /\ ~CreatorsFound(world)
          /\ \A m \in SelectedOf(world, itf) :
               Cardinality({e \in all : e.name = m}) = (IF Omitted(world, itf, m) THEN 0 ELSE 1)

\* The retention the generator derives keeps every handle the descriptor can carry to native, and
\* no other, null-checked if it may be missing and under a field of its own.
PlansComplete ==
  stage = "emitted" => \A s \in DOMAIN plans : RP!Complete(Schema(world), s, 3)
=============================================================================
