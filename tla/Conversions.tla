---------------------------- MODULE Conversions ----------------------------
(***************************************************************************)
(* A call of a method while script has its say.  Every read, coercion and  *)
(* iteration of a conversion hands over to script, which may throw, change *)
(* the members it has not been asked for yet (or asked for already),       *)
(* destroy the wrappers involved, resize the buffer behind the data and    *)
(* call the same object again.                                             *)
(*                                                                         *)
(* An error object is an engine call too: JavaScriptCore looks up          *)
(* TypeError and sets `name', Boa sets `name', and either may run an       *)
(* accessor of script.  So is an ArrayBuffer: JavaScriptCore looks up and  *)
(* calls its methods, whatever script has made of them.                    *)
(***************************************************************************)
EXTENDS Methods, Integers, FiniteSets, SequencesExt

CONSTANTS
  Interface,  \* what script can call, and the steps of each: Rows of Methods
  MaxU64,     \* bound: the largest 64-bit number
  Numbers,    \* bound: what script's numbers come to
  Lengths,    \* bound: lengths of the buffer behind the data
  Word,       \* bytes of a u32
  MaxEvents   \* bound: things script does in a call

ASSUME ConversionsAssumption ==
  /\ MaxU64 \in Nat /\ Word \in Nat \ {0} /\ MaxEvents \in Nat
  /\ Numbers \subseteq 0 .. MaxU64 /\ Lengths \subseteq 0 .. MaxU64

VARIABLES
  call,      \* the call: method, whether optional members are given, the union alternative
  pc,        \* its next step
  now,       \* that step: what it does, for which part of a window, and whether it is the last
  outcome,   \* running, erring (an error is being made), threw, returned
  events,    \* things script has done
  changed,   \* history: the steps at which script changed what it answers
  full,      \* the handle slots are full: nothing has been destroyed
  held,      \* a payload's lock is held
  stuck,     \* the thread waits for the lock it holds
  backing,   \* length of the buffer behind the data, now
  source,    \* what the conversion knows of the data: see Unknown
  native,    \* commands native has taken, objects it has made for this call
  views,     \* views conversion made: captured, kept for the new object
  label      \* native's and the wrapper's label

vars == <<call, pc, now, outcome, events, changed, full, held, stuck, backing, source, native, views, label>>

ScriptSteps == {"require", "get", "to", "names", "iterate"}

\* What a call gives of the optional members, and which alternatives it has.
Taken(steps, given, arm) == SelectSeq(steps, LAMBDA s : arm \in s.arms /\ (given \/ ~s.opt))
Alternatives(steps) == IF \A i \in DOMAIN steps : steps[i].arms = Arms THEN {1} ELSE Arms
CallsOf(rows) ==
  {c \in UNION {[access : {a}, op : DOMAIN rows[a], given : BOOLEAN, arm : Arms] : a \in DOMAIN rows} :
     c.arm \in Alternatives(rows[c.access][c.op])}

\* Extending the empty function has TLC tabulate a function.
Table(f) == f @@ <<>>
ForEachCall(rows, Of(_)) ==
  Table([a \in DOMAIN rows |-> Table([o \in DOMAIN rows[a] |-> Table([given \in BOOLEAN |-> Table([arm \in Arms |->
    Of(Taken(rows[a][o], given, arm))])])])])

\* The steps of a call that work on data, and the part of a view's window a coercion finds out.
OnData(steps) == \E i \in DOMAIN steps : steps[i].do \in {"copy", "whole"}
Roles == [byteOffset |-> "byteOffset", byteLength |-> "byteLength", BYTES_PER_ELEMENT |-> "element",
          dataOffset |-> "start", size |-> "size"]
Role(steps, of) == IF OnData(steps) /\ of # <<>> /\ Last(of) \in DOMAIN Roles THEN Roles[Last(of)] ELSE "none"
HasSlot(steps) == \E i \in DOMAIN steps : steps[i].do = "slot" /\ steps[i].of = <<"this">>
Plan(steps) ==
  [steps |-> [i \in DOMAIN steps |-> [do |-> steps[i].do, role |-> Role(steps, steps[i].of), last |-> i = Len(steps)]],
   data |-> OnData(steps), slot |-> HasSlot(steps)]
Plans == ForEachCall(Interface, Plan)
PlanOf(c) == Plans[c.access][c.op][c.given][c.arm]
Over == [do |-> "over", role |-> "none", last |-> FALSE]

(***************************************************************************)
(* What the properties need of the order of a call's steps: the converters *)
(* look at a window after the last thing they ask script for it, a method  *)
(* converts before it lets native act or takes a lock, and a setter does   *)
(* not stop between native's label and its own.                            *)
(***************************************************************************)
PlanStep == [do : STRING, role : {"none"} \cup {Roles[r] : r \in DOMAIN Roles}, last : BOOLEAN]
Finds(s, roles) == s.do = "to" /\ s.role \in roles
Moves(s, roles) == Finds(s, roles) \/ (s.do = "whole" /\ "byteLength" \in roles)
\* One of these has been done since the roles were last given a value.
Since(steps, i, does, roles) ==
  \E j \in 1 .. i - 1 : steps[j].do \in does /\ \A k \in j + 1 .. i - 1 : ~Moves(steps[k], roles)
ViewRoles   == {"byteOffset", "byteLength", "element"}
FirstRoles  == {"byteLength", "element", "start"}
WindowRoles == FirstRoles \cup {"size"}
Before(steps, i, roles) == \E k \in 1 .. i - 1 : Finds(steps[k], roles)
WindowsInOrder(steps) ==
  \A i \in DOMAIN steps :
    /\ steps[i].do = "whole" => ~Before(steps, i, {"byteOffset"})
    /\ steps[i].do = "window" => Since(steps, i, {"start"}, FirstRoles)
    /\ steps[i].do = "slice" =>
         /\ Since(steps, i, {"whole", "copy"}, ViewRoles)
         /\ ~Before(steps, i, {"start", "size"}) \/ Since(steps, i, {"window"}, WindowRoles)
         /\ \A k \in i + 1 .. Len(steps) : steps[k].do \notin {"whole", "copy"}

\* Steps that may throw and undo nothing.
MayThrow == {"require", "get", "names", "iterate", "to", "refuse", "handle", "slot", "view", "whole", "measure", "bounds",
             "copy", "words", "start", "window", "brand", "check", "fallible", "builtin"}
ActsAtTheEnd(steps) ==
  \A i, k \in DOMAIN steps : i < k =>
    /\ steps[i].do \in {"send", "make", "keep"} => steps[k].do \notin MayThrow
    /\ steps[i].do \in {"send", "make"} => steps[k].do # "make"
    /\ steps[i].do = "send" => steps[k].do \notin {"register", "wrap"}

\* No argument is converted with a payload's lock held.
LockedAt(steps, i) == \E j \in 1 .. i - 1 : steps[j].do = "lock" /\ \A k \in j + 1 .. i - 1 : steps[k].do # "unlock"
ScriptOutsideLocks(steps) == \A i \in DOMAIN steps : LockedAt(steps, i) => steps[i].do \notin ScriptSteps

\* A setter sets native's label and stores its own at once, in either order.
SetsLabel(s) == s.do \in {"set", "store"}
LabelsAtOnce(steps) ==
  \A i \in DOMAIN steps : SetsLabel(steps[i]) =>
    \E k \in {i - 1, i + 1} \cap DOMAIN steps :
      /\ SetsLabel(steps[k]) /\ steps[k].do # steps[i].do
      /\ \A j \in DOMAIN steps : SetsLabel(steps[j]) => j \in {i, k}
      /\ k = i + 1 => ~steps[i].last

ASSUME PlansAssumption ==
  \A c \in CallsOf(Interface) :
    LET steps == PlanOf(c).steps IN
    /\ steps \in Seq(PlanStep) /\ steps # <<>> /\ WindowsInOrder(steps) /\ ActsAtTheEnd(steps)
    /\ ScriptOutsideLocks(steps) /\ LabelsAtOnce(steps)

At(kind) == outcome = "running" /\ ~stuck /\ now.do = kind
Goes == pc' = pc + 1 /\ outcome' = IF now.last THEN "returned" ELSE "running"
\* A guard dropped on the way out unlocks, the capture's drop queues its views.
Throws == /\ outcome' = "threw" /\ held' = FALSE /\ views' = [views EXCEPT !.captured = 0]
          /\ UNCHANGED pc
\* An error made with the lock held.
Errs == outcome' = "erring" /\ held' = TRUE /\ UNCHANGED <<pc, views>>

\* A window is the whole of the data until dataOffset and size are known; an element is a byte.
Unknown == [seen |-> 0, copied |-> 0, byteOffset |-> 0, byteLength |-> 0, element |-> 1,
            start |-> 0, size |-> -1, from |-> 0, end |-> 0]

Init ==
  /\ \E c \in CallsOf(Interface) : \E plan \in {PlanOf(c)} :
       /\ call = [access |-> c.access, op |-> c.op, given |-> c.given, arm |-> c.arm, slot |-> plan.slot]
       /\ now = plan.steps[1]
       /\ backing \in IF plan.data THEN Lengths ELSE {0}
  /\ pc = 1 /\ outcome = "running" /\ events = 0 /\ changed = {}
  /\ full \in BOOLEAN /\ held = FALSE /\ stuck = FALSE
  /\ source = Unknown
  /\ native = [sent |-> 0, made |-> 0, refused |-> FALSE] /\ views = [captured |-> 0, kept |-> 0]
  \* A pass that is invalid has no native object.
  /\ label \in [native : {"old", "none"}, stored : {"old"}]
  /\ label.native = "none" => call.access = "set" /\ call.op \in MayBeNull

(***************************************************************************)
(* Script.                                                                 *)
(***************************************************************************)
\* A setter call inside the call: the label changes, unless the handle is gone.
Relabels ==
  IF call.slot /\ ~full THEN UNCHANGED label
  ELSE label' = [native |-> IF label.native = "none" THEN "none" ELSE "nested", stored |-> "nested"]

NothingHappens == UNCHANGED <<events, changed, full, stuck, backing, label>>
\* What script does with the object waits for a lock the thread has.
Reenters == /\ stuck' = held
            /\ IF held THEN UNCHANGED <<full, label>>
               ELSE \/ full' = FALSE /\ UNCHANGED label
                    \/ Relabels /\ UNCHANGED full
            /\ UNCHANGED <<changed, backing>>
ScriptActs ==
  /\ events < MaxEvents /\ events' = events + 1
  /\ \/ Reenters
     \/ changed' = changed \cup {pc} /\ UNCHANGED <<full, stuck, backing, label>>
     \/ backing' \in Lengths /\ UNCHANGED <<changed, full, stuck, label>>
Script == NothingHappens \/ ScriptActs

(***************************************************************************)
(* Conversions.                                                            *)
(***************************************************************************)
\* required_member throws if the value is undefined, and script may throw anywhere.
Read(kind) ==
  /\ kind \in {"require", "get", "names", "iterate"} /\ At(kind)
  /\ Script
  /\ (Goes /\ UNCHANGED <<held, views>>) \/ Throws
  /\ UNCHANGED <<call, source, native>>

\* enforce_*, restricted_*, to_str and the enumerations: anything they refuse throws.
Coerce ==
  /\ At("to")
  /\ Script
  /\ \/ /\ IF now.role = "none" THEN UNCHANGED source
           ELSE \E n \in Numbers : /\ now.role = "element" => n # 0
                                   /\ source' = [source EXCEPT ![now.role] = n]
        /\ Goes /\ UNCHANGED <<held, views>>
     \/ Throws /\ UNCHANGED source
  /\ UNCHANGED <<call, native>>

Refuses == At("refuse") /\ Throws /\ NothingHappens /\ UNCHANGED <<call, source, native>>

\* payload and downcast.
TakeHandle ==
  /\ At("handle") /\ NothingHappens
  /\ (Goes /\ UNCHANGED <<held, views>>) \/ Throws
  /\ UNCHANGED <<call, source, native>>

\* As if the slot stayed locked while the handle is in use.
TakeSlotLocked ==
  /\ At("slot") /\ NothingHappens
  /\ IF full THEN (Goes /\ held' = TRUE /\ UNCHANGED views) \/ Throws ELSE Errs
  /\ UNCHANGED <<call, source, native>>
\* handle_or_throw: a wrapper that was destroyed has none, and the error is made before the slot is
\* unlocked.
TakeSlot ==
  /\ At("slot") /\ NothingHappens
  /\ IF full THEN (Goes /\ UNCHANGED <<held, views>>) \/ Throws ELSE Errs
  /\ UNCHANGED <<call, source, native>>

\* texture_create_view with no descriptor.
MakeView ==
  /\ At("view") /\ NothingHappens
  /\ \/ views' = [views EXCEPT !.captured = @ + 1] /\ Goes /\ UNCHANGED held
     \/ Throws
  /\ UNCHANGED <<call, source, native>>

(***************************************************************************)
(* Buffer sources: convert_buffer_source and its callers' windows.         *)
(***************************************************************************)
\* checked_add and checked_mul.
Fits(n) == n <= MaxU64
Bytes   == source.byteLength
First   == source.start * source.element
Length  == IF source.size = -1 THEN Bytes - First ELSE source.size * source.element
ViewEnd == source.byteOffset + source.byteLength

Knows(ok, known) ==
  /\ NothingHappens
  /\ IF ok THEN source' = known /\ Goes /\ UNCHANGED <<held, views>>
     ELSE Throws /\ UNCHANGED source
  /\ UNCHANGED <<call, native>>

\* An ArrayBuffer is copied whole; one without bytes is detached.
Whole   == At("whole") /\ Knows(backing > 0, [source EXCEPT !.copied = backing, !.byteLength = backing])
Measure == At("measure") /\ Knows(backing > 0, [source EXCEPT !.seen = backing])
Bounds  == At("bounds") /\ Knows(Fits(ViewEnd) /\ ViewEnd <= source.seen, source)
\* As if the length read before script was asked for the rest still held.
CopyUnchecked == At("copy") /\ Knows(TRUE, [source EXCEPT !.copied = backing])
\* arraybuffer_copy copies what there is now.
Copy    == At("copy") /\ Knows(backing > 0 /\ ViewEnd <= backing, [source EXCEPT !.copied = backing])
Words   == At("words") /\ Knows(source.element = Word /\ Bytes % Word = 0, source)
Start   == At("start") /\ Knows(Fits(First) /\ First <= Bytes, source)
Window  == At("window") /\ Knows(Fits(Length) /\ Fits(First + Length) /\ First + Length <= Bytes
                                 /\ Length % Word = 0, source)
Slice   == At("slice") /\ Knows(TRUE, [source EXCEPT !.from = source.byteOffset + First,
                                                     !.end = source.byteOffset + First + Length])
SourceStep == Whole \/ Measure \/ Bounds \/ Copy \/ Words \/ Start \/ Window \/ Slice

(***************************************************************************)
(* The receiver, native and the wrapper.                                   *)
(***************************************************************************)
Brand ==
  /\ At("brand") /\ NothingHappens
  /\ (Goes /\ UNCHANGED <<held, views>>) \/ Throws
  /\ UNCHANGED <<call, source, native>>

\* live_*: an encoder that has ended reports the error and the method returns.
Check ==
  /\ At("check") /\ NothingHappens
  /\ \/ Goes /\ UNCHANGED <<held, views>>
     \/ outcome' = "returned" /\ UNCHANGED <<pc, held, views>>
     \/ Throws
  /\ UNCHANGED <<call, source, native>>

Lock ==
  /\ \/ At("lock") /\ held' = TRUE
     \/ At("unlock") /\ held' = FALSE
  /\ Goes /\ NothingHappens
  /\ UNCHANGED <<call, source, native, views>>

Engine == At("engine") /\ Goes /\ NothingHappens /\ UNCHANGED <<call, held, source, native, views>>

\* call_own_method, and the constructors looked up by name: script has its say, and waits for the lock if it is held.
Builtin ==
  /\ At("builtin") /\ Script
  /\ IF stuck' THEN UNCHANGED <<pc, outcome, held, views>>
     ELSE (Goes /\ UNCHANGED <<held, views>>) \/ Throws
  /\ UNCHANGED <<call, source, native>>

\* An error of a closure that has the state locked.
Fallible ==
  /\ At("fallible") /\ NothingHappens
  /\ (Goes /\ UNCHANGED <<held, views>>) \/ Errs
  /\ UNCHANGED <<call, source, native>>

Send ==
  /\ At("send") /\ NothingHappens
  /\ native' = [native EXCEPT !.sent = @ + 1]
  /\ Goes
  /\ UNCHANGED <<call, held, source, views>>

Keep ==
  /\ At("keep") /\ NothingHappens
  /\ views' = [captured |-> 0, kept |-> views.captured]
  /\ Goes
  /\ UNCHANGED <<call, held, source, native>>

Make ==
  /\ At("make") /\ NothingHappens
  /\ \/ native' = [native EXCEPT !.made = @ + 1] /\ Goes /\ UNCHANGED <<held, views>>
     \/ native' = [native EXCEPT !.refused = TRUE] /\ Throws
  /\ UNCHANGED <<call, source>>

\* As if the class were registered before anything had to be released.
FailsOnly == /\ Throws /\ UNCHANGED native
\* emit_cleanup: what native made for the call is released.
Undo == /\ outcome' = "threw" /\ native' = [native EXCEPT !.made = 0]
        /\ views' = [captured |-> 0, kept |-> 0] /\ UNCHANGED <<pc, held>>

\* register_class and new_instance.
Wraps(kind) ==
  /\ kind \in {"register", "wrap"} /\ At(kind) /\ NothingHappens
  /\ \/ Goes /\ UNCHANGED <<held, native>>
        /\ views' = IF now.last THEN [views EXCEPT !.captured = 0] ELSE views
     \/ Undo
  /\ UNCHANGED <<call, source>>

SetLabel ==
  /\ At("set") /\ Goes
  /\ label' = IF label.native = "none" THEN label ELSE [label EXCEPT !.native = "mine"]
  /\ UNCHANGED <<call, events, changed, full, held, stuck, backing, source, native, views>>
\* As if the new label were pushed after the old one.
StoreUncleared ==
  /\ At("store") /\ Goes /\ label' = [label EXCEPT !.stored = "both"]
  /\ UNCHANGED <<call, events, changed, full, held, stuck, backing, source, native, views>>
StoreLabel ==
  /\ At("store") /\ Goes /\ label' = [label EXCEPT !.stored = "mine"]
  /\ UNCHANGED <<call, events, changed, full, held, stuck, backing, source, native, views>>

\* make_error and set_error_name.
MakeError ==
  /\ outcome = "erring" /\ ~stuck
  /\ \/ NothingHappens
     \/ events < MaxEvents /\ events' = events + 1 /\ Reenters
  /\ IF stuck' THEN UNCHANGED <<pc, outcome, held, views>> ELSE Throws
  /\ UNCHANGED <<call, source, native>>

Happens ==
  \/ \E kind \in {"require", "get", "names", "iterate"} : Read(kind)
  \/ Coerce \/ Refuses \/ TakeHandle \/ TakeSlot \/ MakeView \/ SourceStep
  \/ Brand \/ Check \/ Lock \/ Engine \/ Builtin \/ Fallible \/ Send \/ Keep \/ Make
  \/ \E kind \in {"register", "wrap"} : Wraps(kind)
  \/ SetLabel \/ StoreLabel \/ MakeError

Next ==
  /\ Happens
  /\ \E plan \in {PlanOf(call)} : now' = IF pc' \in DOMAIN plan.steps THEN plan.steps[pc'] ELSE Over

Spec == Init /\ [][Next]_vars
(***************************************************************************)
(* Properties.                                                             *)
(***************************************************************************)
Done == outcome \in {"threw", "returned"}
\* The members a call reads twice.
TwiceIn(plan) ==
  LET Reads == {i \in DOMAIN plan : plan[i].do \in {"require", "get"}}
  IN  {p \in Reads \X Reads : p[1] < p[2] /\ plan[p[1]].of = plan[p[2]].of}
ReadTwice == ForEachCall(Interface, TwiceIn)

\* What native gets of an argument is what script answered once: no member is read again after
\* script has changed what it answers, so that no two parts of a descriptor disagree (the converters
\* of full_surface.rs).
OneValue ==
  \A p \in ReadTwice[call.access][call.op][call.given][call.arm] : p[2] < pc => \A c \in changed : ~(p[1] <= c /\ c < p[2])

\* The bytes handed to native are bytes that were copied, whatever script answers for the view's
\* offset and length and whatever it does to the buffer in between (convert_buffer_source,
\* queue_write_buffer, convert_immediates, convert_dynamic_offsets).
SourceInBounds == source.from <= source.end /\ source.end <= source.copied

\* A call that throws has not happened: native has taken no command of it, and no object it made and
\* no view its conversion made is left without an owner; what native refuses to create leaves the
\* views already kept for it behind (lifecycle.rs:1203).
ThrowLeavesNothing ==
  outcome = "threw" => /\ native.sent = 0 /\ native.made = 0 /\ views.captured = 0
                       /\ ~native.refused => views.kept = 0

\* The label a wrapper gives is the one native has (R12), also when script sets it again, or destroys
\* the wrapper, in the conversion of the new one.
LabelsAgree == Done /\ label.native # "none" => label.native = label.stored

\* No argument is converted with a payload's lock held: script that uses the object again from a
\* conversion never waits for the lock of the call it is in (R27, the rule for arguments).
ArgumentsUnlocked == stuck => outcome = "erring" \/ now.do = "builtin"

\* R27: core takes no engine call while holding a payload lock, so that no call of script's waits for
\* itself, neither while an error is being made nor while an ArrayBuffer is made or detached.
NeverStuck == ~stuck
=============================================================================
