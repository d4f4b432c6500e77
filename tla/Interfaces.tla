----------------------------- MODULE Interfaces -----------------------------
(***************************************************************************)
(* What script sees of the interfaces: the constructors and prototypes an  *)
(* engine makes of core's class specs, and the wrappers made from them.    *)
(* In Boa a wrapper is an ordinary object whose prototypes have its        *)
(* members.  In JavaScriptCore a wrapper's class also answers reads and    *)
(* writes of the members of its own interface, before the properties of    *)
(* the wrapper and its prototypes are asked.                               *)
(*                                                                         *)
(* One object, a script that shadows or redefines at most one member, and  *)
(* is not in strict mode.  What calling a member does is left to the       *)
(* other modules; here it answers or rejects its receiver.                 *)
(***************************************************************************)
EXTENDS Naturals, Sequences, FiniteSets, FiniteSetsExt, TLC

CONSTANTS
  Adapters,      \* bound: the engines
  Redefinable    \* bound: members script may redefine, each an interface and a name

VARIABLES
  adapter,       \* the engine
  prototypes,    \* registered interface -> what its prototype has
  object,        \* the wrapper script works on, {} or one record
  redefined,     \* members script has replaced on their prototypes
  seen           \* what the last operation gave script, and what it should have

interfaceVars == <<adapter, prototypes, object, redefined, seen>>

(***************************************************************************)
(* The class specs.  A constructor makes an object, throws, or is absent,  *)
(* which also throws.                                                      *)
(***************************************************************************)
Class(parent, constructor, getters, setters, methods) ==
  [parent |-> parent, constructor |-> constructor, getters |-> getters, setters |-> setters, methods |-> methods]
NoParent == "none"
EventClass       == Class(NoParent, "makes", {"type"}, {}, {"preventDefault"})
EventTargetClass == Class(NoParent, "makes", {}, {}, {"addEventListener"})
UncapturedErrorEventClass == Class("Event", "makes", {"error"}, {}, {})
DomExceptionClass == Class("Error", "makes", {"name", "message"}, {}, {})
GpuErrorClass    == Class(NoParent, "throws", {"message"}, {}, {})
ErrorSubclass    == Class("GPUError", "makes", {"message"}, {}, {})
LostInfoClass    == Class(NoParent, NoParent, {"message", "reason"}, {}, {})
DeviceClass      == Class("EventTarget", "throws", {"label", "lost"}, {"label"}, {"destroy"})
ClassSpecs == [Event |-> EventClass, EventTarget |-> EventTargetClass,
  GPUUncapturedErrorEvent |-> UncapturedErrorEventClass, DOMException |-> DomExceptionClass,
  GPUError |-> GpuErrorClass, GPUValidationError |-> ErrorSubclass,
  GPUDeviceLostInfo |-> LostInfoClass, GPUDevice |-> DeviceClass]
Interfaces == DOMAIN ClassSpecs
Declared(i) == ClassSpecs[i].getters \cup ClassSpecs[i].methods
Members == UNION {Declared(i) : i \in Interfaces}

\* register_all_classes
Order == <<"Event", "EventTarget", "GPUUncapturedErrorEvent", "DOMException",
           "GPUError", "GPUValidationError", "GPUDeviceLostInfo", "GPUDevice">>

\* The payloads the getters and methods of an interface ask a receiver for.
EventPayload       == {"Event", "GPUUncapturedErrorEvent"}
\* A mutant: the check names the class that declares the member and forgets the one that extends it.
OwnPayload         == {"EventTarget"}
EventTargetPayload == {"EventTarget", "GPUDevice"}
ErrorPayload       == {"GPUError", "GPUValidationError"}
Accepts(i) ==
  CASE i = "Event" -> EventPayload [] i = "EventTarget" -> EventTargetPayload
    [] i \in ErrorPayload -> ErrorPayload [] OTHER -> {i}
\* A member of i is called on a wrapper.
Calls(i, name, wrapper) == IF wrapper.class \in Accepts(i) THEN <<"value", name>> ELSE <<"TypeError">>

(***************************************************************************)
(* register_class: accessors and methods are enumerable, the constructor   *)
(* and the tag are not.  A class whose registration fails is not           *)
(* registered, and those after it are left for the next wrap_gpu.          *)
(***************************************************************************)
PrototypeOf(i) ==
  [members |-> Declared(i), keys |-> Declared(i), tag |-> i, constructor |-> i, parent |-> ClassSpecs[i].parent]
WithClass(protos, i) ==
  IF i \in DOMAIN protos \/ ClassSpecs[i].parent \notin {NoParent, "Error"} \cup DOMAIN protos THEN protos
  ELSE (i :> PrototypeOf(i)) @@ protos
RegisterAllClasses ==
  \E last \in Cardinality(DOMAIN prototypes) + 1 .. Len(Order) :
    /\ LET Registered[n \in 0 .. last] ==
             IF n = 0 THEN prototypes ELSE WithClass(Registered[n - 1], Order[n])
       IN prototypes' = Registered[last]
    /\ UNCHANGED <<adapter, object, redefined, seen>>

(***************************************************************************)
(* Ordinary objects, as the engines implement them.                        *)
(***************************************************************************)
\* The interfaces whose prototypes are on the chain that starts at i's, nearest first.
Chain(protos, i) ==
  LET From[n \in 0 .. Cardinality(DOMAIN protos)] ==
        IF n = 0 THEN <<i>>
        ELSE LET c == From[n - 1] IN
             IF c[Len(c)] \in DOMAIN protos /\ protos[c[Len(c)]].parent # NoParent
             THEN Append(c, protos[c[Len(c)]].parent) ELSE c
  IN From[Cardinality(DOMAIN protos)]
\* The interface whose prototype has the member, as a set of one or none.
Holder(protos, i, name) ==
  LET c == Chain(protos, i)
      at == {n \in DOMAIN c : c[n] \in DOMAIN protos /\ name \in protos[c[n]].members}
  IN IF at = {} THEN {} ELSE {c[Min(at)]}

Read(i, name, wrapper) ==
  IF <<i, name>> \in redefined THEN <<"script's">>
  ELSE IF name \in ClassSpecs[i].methods THEN <<"method", i, name>>
  ELSE Calls(i, name, wrapper)
OrdinaryGet(o, name) ==
  IF name \in o.own THEN <<"script's">>
  ELSE LET h == Holder(prototypes, o.prototype, name) IN
       IF h = {} THEN <<"undefined">> ELSE Read(CHOOSE i \in h : TRUE, name, o)
Write(i, name, wrapper) ==
  IF <<i, name>> \in redefined \/ name \in ClassSpecs[i].methods THEN <<"stored">>
  ELSE IF name \in ClassSpecs[i].setters THEN Calls(i, name, wrapper) ELSE <<"ignored">>
OrdinarySet(o, name) ==
  IF name \in o.own THEN <<"stored">>
  ELSE LET h == Holder(prototypes, o.prototype, name) IN
       IF h = {} THEN <<"stored">> ELSE Write(CHOOSE i \in h : TRUE, name, o)

(***************************************************************************)
(* JavaScriptCore's callbacks know the members of the wrapper's own        *)
(* interface.                                                              *)
(***************************************************************************)
WrapperGetProperty(o, name) ==
  IF name \in ClassSpecs[o.class].methods THEN <<"method", o.class, name>>
  ELSE IF name \in ClassSpecs[o.class].getters THEN Calls(o.class, name, o)
  ELSE OrdinaryGet(o, name)
WrapperSetProperty(o, name) ==
  IF name \in ClassSpecs[o.class].setters THEN Calls(o.class, name, o)
  ELSE IF name \in ClassSpecs[o.class].getters THEN <<"ignored">>
  ELSE OrdinarySet(o, name)

Get(o, name) == IF adapter = "jsc" THEN WrapperGetProperty(o, name) ELSE OrdinaryGet(o, name)
Set(o, name) == IF adapter = "jsc" THEN WrapperSetProperty(o, name) ELSE OrdinarySet(o, name)

(***************************************************************************)
(* What Web IDL and ECMAScript say: an interface inherits, and a member    *)
(* takes every object that implements its interface.                       *)
(***************************************************************************)
Specified == [i \in Interfaces |-> [members |-> Declared(i), parent |-> ClassSpecs[i].parent]]
Ancestors == [i \in Interfaces |-> Chain(Specified, i)]
Inherits(i, from) == \E n \in DOMAIN Ancestors[i] : Ancestors[i][n] = from
Nearest(o, name) == Holder(Specified, o.prototype, name)
\* The interface that introduces a member; GPUValidationError's spec has the message GPUError introduces.
Home(i, name) == CHOOSE a \in Interfaces : Inherits(i, a) /\ name \in Declared(a)
  /\ \A b \in Interfaces \ {a} : Inherits(a, b) => name \notin Declared(b)
Takes(i, name, o) == IF Inherits(o.class, Home(i, name)) THEN <<"value", name>> ELSE <<"TypeError">>
GetSpecified(o, name) ==
  IF name \in o.own \/ Nearest(o, name) \X {name} \cap redefined # {} THEN <<"script's">>
  ELSE IF Nearest(o, name) = {} THEN <<"undefined">>
  ELSE LET i == CHOOSE i \in Nearest(o, name) : TRUE IN
       IF name \in ClassSpecs[i].methods THEN <<"method", i, name>> ELSE Takes(i, name, o)
SetSpecified(o, name) ==
  IF name \in o.own \/ Nearest(o, name) \X {name} \cap redefined # {} \/ Nearest(o, name) = {} THEN <<"stored">>
  ELSE LET i == CHOOSE i \in Nearest(o, name) : TRUE IN
       IF name \in ClassSpecs[i].methods THEN <<"stored">>
       ELSE IF name \in ClassSpecs[i].setters THEN Takes(i, name, o) ELSE <<"ignored">>

(***************************************************************************)
(* The operations.                                                         *)
(***************************************************************************)
Sees(got, want) == seen' = [got |-> got, want |-> want]
Wrapper(class, prototype) == [class |-> class, prototype |-> prototype, own |-> {}]

\* new_instance and new_error_instance
MakeWrapper(i) ==
  /\ i \in DOMAIN prototypes /\ object' = {Wrapper(i, i)} /\ Sees(<<"object">>, <<"object">>)
  /\ UNCHANGED <<adapter, prototypes, redefined>>

\* new i(), for one that extends it, or Reflect.construct; the instance is i's, its prototype target's.
Constructs(i) == IF ClassSpecs[i].constructor = "makes" THEN <<"object">> ELSE <<"TypeError">>
Construct(i, target) ==
  /\ {i, target} \subseteq DOMAIN prototypes
  /\ object' = IF Constructs(i) = <<"object">> THEN {Wrapper(i, target)} ELSE object
  /\ Sees(Constructs(i), IF i \in {"GPUError", "GPUDeviceLostInfo", "GPUDevice"} THEN <<"TypeError">> ELSE <<"object">>)
  /\ UNCHANGED <<adapter, prototypes, redefined>>
\* i() without new.
CallConstructor(i) ==
  /\ i \in DOMAIN prototypes /\ Sees(<<"TypeError">>, <<"TypeError">>)
  /\ UNCHANGED <<adapter, prototypes, object, redefined>>

GetProperty(name) ==
  /\ \E o \in object : Sees(Get(o, name), GetSpecified(o, name))
  /\ UNCHANGED <<adapter, prototypes, object, redefined>>
SetProperty(name) ==
  /\ \E o \in object :
       /\ redefined = {} /\ o.own \subseteq {name}
       /\ object' = {[o EXCEPT !.own = IF Set(o, name) = <<"stored">> THEN @ \cup {name} ELSE @]}
       /\ Sees(Set(o, name), SetSpecified(o, name))
  /\ UNCHANGED <<adapter, prototypes, redefined>>

\* A getter, setter or method of i's prototype, applied to the object.
MethodCall(i, name) ==
  /\ i \in DOMAIN prototypes /\ name \in prototypes[i].members /\ <<i, name>> \notin redefined
  /\ \E o \in object : Sees(Calls(i, name, o), Takes(i, name, o))
  /\ UNCHANGED <<adapter, prototypes, object, redefined>>

\* instanceof, the tag of Object.prototype.toString, the constructor, and for-in.
Describe ==
  /\ \E o \in object :
       LET on(protos) == {n \in DOMAIN Chain(protos, o.prototype) : Chain(protos, o.prototype)[n] \in DOMAIN protos}
       IN Sees(<<prototypes[o.prototype].tag, prototypes[o.prototype].constructor,
                 {Chain(prototypes, o.prototype)[n] : n \in on(prototypes)},
                 o.own \cup UNION {prototypes[Chain(prototypes, o.prototype)[n]].keys : n \in on(prototypes)}>>,
               <<o.prototype, o.prototype,
                 {Chain(Specified, o.prototype)[n] : n \in on(Specified)},
                 o.own \cup UNION {Declared(Chain(Specified, o.prototype)[n]) : n \in on(Specified)}>>)
  /\ UNCHANGED <<adapter, prototypes, object, redefined>>

\* Script replaces a member on its prototype, or an object's prototype.
Redefine(i, name) ==
  /\ redefined = {} /\ i \in DOMAIN prototypes /\ \A o \in object : o.own = {}
  /\ redefined' = {<<i, name>>} /\ Sees(<<>>, <<>>)
  /\ UNCHANGED <<adapter, prototypes, object>>
SetPrototype(i) ==
  /\ i \in DOMAIN prototypes
  /\ object' = {[o EXCEPT !.prototype = i] : o \in object} /\ Sees(<<>>, <<>>)
  /\ UNCHANGED <<adapter, prototypes, redefined>>

InterfacesInit ==
  /\ adapter \in Adapters /\ prototypes = <<>> /\ object = {} /\ redefined = {}
  /\ seen = [got |-> <<>>, want |-> <<>>]
InterfacesNext ==
  \/ RegisterAllClasses
  \/ \E i \in Interfaces : MakeWrapper(i) \/ CallConstructor(i) \/ SetPrototype(i)
  \/ \E i, target \in Interfaces : Construct(i, target)
  \/ \E name \in Members : GetProperty(name) \/ SetProperty(name)
  \/ \E i \in Interfaces : \E name \in Members : MethodCall(i, name)
  \/ Describe
  \/ \E member \in Redefinable : Redefine(member[1], member[2])

-----------------------------------------------------------------------------
\* A script that leaves the members alone: none replaced, none shadowed, and the object's
\* prototype is that of its interface or of one that extends it.
LeftAlone ==
  redefined = {} /\ \A o \in object : o.own \cap Members = {} /\ Inherits(o.prototype, o.class)

\* Whatever script does with an object, its members, its constructor and its prototypes, it sees
\* what Web IDL says: an inherited member takes the instances of every interface that extends its
\* own, and no other object, reached in whatever way.  In JavaScriptCore this is so as long as
\* script leaves the members alone, since a wrapper's own class answers first.
AsInterface == adapter = "boa" \/ LeftAlone => seen.got = seen.want
=============================================================================
