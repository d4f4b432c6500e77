------------------------- MODULE Conversions_proofs -------------------------
(***************************************************************************)
(* Proofs about Conversions, for any interface whose methods take their    *)
(* steps in the order the assumption on the plans states, any lengths and  *)
(* numbers, and however often script acts in a call; and about Limits, for *)
(* every three ranges that lie in this order and whatever script asks for  *)
(* and an adapter reports; and about what Messages and Loader do with the  *)
(* messages native reports and the modules script requires, whatever they  *)
(* are.                                                                    *)
(***************************************************************************)
EXTENDS Conversions, Limits, Messages, Loader, TLAPS

Steps == PlanOf(call).steps

(***************************************************************************)
(* The inductive invariants.                                               *)
(***************************************************************************)

(* The plan is that of a call of the interface, and now is its step pc.    *)
Planned == Steps \in Seq(PlanStep) /\ WindowsInOrder(Steps) /\ ActsAtTheEnd(Steps)
           /\ ScriptOutsideLocks(Steps) /\ LabelsAtOnce(Steps)
AtStep  == pc \in Nat \ {0} /\ now = IF pc \in DOMAIN Steps THEN Steps[pc] ELSE Over
Sources == [seen : Nat, copied : Nat, byteOffset : Nat, byteLength : Nat, element : Nat,
            start : Nat, size : Nat \cup {-1}, from : Int, end : Int]
TypeOK ==
  /\ Planned /\ AtStep
  /\ outcome \in {"running", "erring", "threw", "returned"}
  /\ source \in Sources /\ backing \in 0 .. MaxU64
  /\ native \in [sent : Nat, made : Nat, refused : BOOLEAN] /\ views \in [captured : Nat, kept : Nat]

(* What was checked of the window holds until script is asked for a part   *)
(* of it again.                                                            *)
ViewCopied    == Since(Steps, pc, {"whole", "copy"}, ViewRoles) => ViewEnd <= source.copied
FirstChecked  == Since(Steps, pc, {"start"}, FirstRoles) => First <= Bytes
WindowChecked == Since(Steps, pc, {"window"}, WindowRoles) => Length >= 0 /\ First + Length <= Bytes
Defaults ==
  /\ ~Before(Steps, pc, {"byteOffset"}) => source.byteOffset = 0
  /\ ~Before(Steps, pc, {"start", "size"}) => source.start = 0 /\ source.size = -1
Did(does) == \E i \in 1 .. pc - 1 : Steps[i].do = does
Sliced == SourceInBounds /\ ((source.from = 0 /\ source.end = 0) \/ Did("slice"))
WindowInv == ViewCopied /\ FirstChecked /\ WindowChecked /\ Defaults /\ Sliced

(* What native and the new object have was given in a step of the call.    *)
Acted ==
  /\ native.sent # 0 => Did("send")
  /\ native.made # 0 => Did("make")
  /\ views.kept # 0 => Did("keep")
  /\ ~native.refused
CallInv ==
  /\ outcome # "threw" => Acted
  /\ outcome = "erring" => now.do \in {"slot", "fallible"}
  /\ ThrowLeavesNothing

(* A call that goes on has a lock only where its plan says so.             *)
LockInv == (outcome = "running" /\ held => LockedAt(Steps, pc)) /\ ArgumentsUnlocked

(* One of the two labels is set and the other is next: script has no say,  *)
(* and the call does not end.                                              *)
HalfSet == pc - 1 \in DOMAIN Steps /\ pc \in DOMAIN Steps /\ SetsLabel(Steps[pc - 1]) /\ SetsLabel(Steps[pc])
SameLabel(l) == l.native # "none" => l.native = l.stored
LabelInv ==
  /\ label \in [native : {"none", "old", "mine", "nested"}, stored : {"old", "mine", "nested"}]
  /\ ~HalfSet => SameLabel(label)
  /\ HalfSet => /\ outcome = "running"
                /\ Steps[pc - 1].do = "set" => label.native \in {"none", "mine"}
                /\ Steps[pc - 1].do = "store" => label.stored = "mine"

(***************************************************************************)
(* Steps of a call.                                                        *)
(***************************************************************************)

(* The step under way is in the plan.                                      *)
LEMMA InPlan ==
  ASSUME TypeOK, now.do # "over"
  PROVE  pc \in DOMAIN Steps /\ now = Steps[pc] /\ now \in PlanStep /\ DOMAIN Steps = 1 .. Len(Steps) /\ Len(Steps) \in Nat
  BY DEF TypeOK, Planned, AtStep, Over

(* One more step: what has been done since.                                *)
LEMMA SinceNext ==
  ASSUME NEW steps, NEW i \in Nat \ {0}, NEW does, NEW roles, Since(steps, i + 1, does, roles)
  PROVE  steps[i].do \in does \/ (Since(steps, i, does, roles) /\ ~Moves(steps[i], roles))
<1>1. PICK j \in 1 .. i : steps[j].do \in does /\ \A k \in j + 1 .. i : ~Moves(steps[k], roles)
  BY DEF Since
<1>2. CASE j = i
  BY <1>1, <1>2
<1>3. CASE j # i
  <2>1. j \in 1 .. i - 1 /\ i \in j + 1 .. i /\ \A k \in j + 1 .. i - 1 : k \in j + 1 .. i
    BY <1>3
  <2>2. QED
    BY <1>1, <2>1 DEF Since
<1>4. QED
  BY <1>2, <1>3

LEMMA BeforeNext ==
  ASSUME NEW steps, NEW i \in Nat \ {0}, NEW roles
  PROVE  Before(steps, i + 1, roles) <=> Before(steps, i, roles) \/ Finds(steps[i], roles)
  BY DEF Before

(* What a step does to the data when the call goes on.                     *)
Converts(s) ==
  /\ s.do \notin {"to", "whole", "measure", "copy", "slice"} => source' = source
  /\ s.do = "to" => \/ source' = source /\ s.role = "none"
                    \/ s.role # "none" /\ \E n \in 0 .. MaxU64 : source' = [source EXCEPT ![s.role] = n]
  /\ s.do = "whole" => source' = [source EXCEPT !.copied = backing, !.byteLength = backing]
  /\ s.do = "measure" => source' = [source EXCEPT !.seen = backing]
  /\ s.do = "copy" => ViewEnd <= backing /\ source' = [source EXCEPT !.copied = backing]
  /\ s.do = "start" => First <= Bytes
  /\ s.do = "window" => First + Length <= Bytes
  /\ s.do = "slice" => source' = [source EXCEPT !.from = source.byteOffset + First,
                                                !.end = source.byteOffset + First + Length]
(* And to native and the views.                                            *)
Acts(s) ==
  /\ s.do \notin {"send", "make"} => native' = native
  /\ s.do = "send" => native' = [native EXCEPT !.sent = @ + 1]
  /\ s.do = "make" => native' = [native EXCEPT !.made = @ + 1]
  /\ views' \in [captured : Nat, kept : Nat]
  /\ s.do # "keep" => views'.kept = views.kept
GoesOn == /\ outcome = "running" /\ now.do # "over" /\ pc' = pc + 1 /\ outcome' \in {"running", "returned"}
          /\ Converts(now) /\ Acts(now)

(* The ways a call ends early.                                             *)
Returns == outcome = "running" /\ outcome' = "returned" /\ UNCHANGED <<native, views>>
Fails   == outcome = "running" /\ outcome' = "erring" /\ now.do \in {"slot", "fallible"} /\ UNCHANGED <<native, views>>
Leaves  == /\ outcome' = "threw" /\ native' = native /\ views' = [views EXCEPT !.captured = 0]
           /\ (outcome = "running" /\ now.do \in MayThrow) \/ outcome = "erring"
Declined == outcome' = "threw" /\ outcome = "running" /\ now.do = "make"
           /\ native' = [native EXCEPT !.refused = TRUE] /\ views' = [views EXCEPT !.captured = 0]
Undone  == outcome' = "threw" /\ outcome = "running" /\ now.do \in {"register", "wrap"}
           /\ native' = [native EXCEPT !.made = 0] /\ views' = [captured |-> 0, kept |-> 0]
Waits   == UNCHANGED <<outcome, native, views>>
Stops   == pc' = pc /\ source' = source /\ (Returns \/ Fails \/ Leaves \/ Declined \/ Undone \/ Waits)
Sound   == call' = call /\ backing' \in 0 .. MaxU64 /\ (GoesOn \/ Stops)

(* The steps that work on data.                                            *)
LEMMA SourceSteps ==
  ASSUME TypeOK, SourceStep
  PROVE  Sound
<1>1. source.byteOffset \in Nat /\ source.byteLength \in Nat /\ source.size \in Int
  BY DEF TypeOK, Sources
<1>2. views \in [captured : Nat, kept : Nat] /\ backing \in 0 .. MaxU64
  BY DEF TypeOK
<1> USE <1>1, <1>2 DEF Knows, At, Goes, Throws, NothingHappens, Sound, GoesOn, Stops, Converts, Acts, Leaves, MayThrow
<1>3. CASE Whole
  BY <1>3 DEF Whole
<1>4. CASE Measure
  BY <1>4 DEF Measure
<1>5. CASE Bounds
  BY <1>5 DEF Bounds
<1>6. CASE Copy
  BY <1>6 DEF Copy
<1>7. CASE Words
  BY <1>7 DEF Words
<1>8. CASE Start
  BY <1>8 DEF Start
<1>9. CASE Window
  BY <1>9 DEF Window
<1>10. CASE Slice
  BY <1>10 DEF Slice
<1>11. QED
  BY <1>3, <1>4, <1>5, <1>6, <1>7, <1>8, <1>9, <1>10 DEF SourceStep

(* Every action takes the step the call is at, and goes on or ends.         *)
LEMMA EveryStep ==
  ASSUME TypeOK, Happens
  PROVE  Sound
<1>1. views \in [captured : Nat, kept : Nat] /\ backing \in 0 .. MaxU64 /\ Lengths \subseteq 0 .. MaxU64 /\ Numbers \subseteq 0 .. MaxU64
  BY ConversionsAssumption DEF TypeOK
<1>2. Script => backing' \in 0 .. MaxU64
  BY <1>1 DEF Script, NothingHappens, ScriptActs, Reenters
<1> USE <1>1, <1>2 DEF At, Goes, Throws, Errs, NothingHappens, Sound, GoesOn, Stops, Converts, Acts, Leaves, MayThrow
<1>3. ASSUME NEW kind \in {"require", "get", "names", "iterate"}, Read(kind) PROVE Sound
  BY <1>3 DEF Read
<1>4. CASE Coerce
  BY <1>4 DEF Coerce
<1>5. CASE Refuses
  BY <1>5 DEF Refuses
<1>6. CASE TakeHandle
  BY <1>6 DEF TakeHandle
<1>7. CASE TakeSlot
  BY <1>7 DEF TakeSlot, Fails
<1>8. CASE MakeView
  BY <1>8 DEF MakeView
<1>9. CASE Brand
  BY <1>9 DEF Brand
<1>10. CASE Check
  BY <1>10 DEF Check, Returns
<1>11. CASE Lock
  BY <1>11 DEF Lock
<1>12. CASE Engine
  BY <1>12 DEF Engine
<1>13. CASE Fallible
  BY <1>13 DEF Fallible, Fails
<1>14. CASE Send
  BY <1>14 DEF Send
<1>15. CASE Keep
  BY <1>15 DEF Keep
<1>16. CASE Make
  BY <1>16 DEF Make, Declined
<1>17. ASSUME NEW kind \in {"register", "wrap"}, Wraps(kind) PROVE Sound
  BY <1>17 DEF Wraps, Undo, Undone
<1>18. CASE SetLabel
  BY <1>18 DEF SetLabel
<1>19. CASE StoreLabel
  BY <1>19 DEF StoreLabel
<1>20. CASE MakeError
  BY <1>20 DEF MakeError, Reenters, Waits
<1>21. CASE SourceStep
  BY <1>21, SourceSteps
<1>22. CASE Builtin
  BY <1>22 DEF Builtin, Waits
<1>23. QED
  BY <1>3, <1>4, <1>5, <1>6, <1>7, <1>8, <1>9, <1>10, <1>11, <1>12, <1>13, <1>14, <1>15, <1>16, <1>17, <1>18,
     <1>19, <1>20, <1>21, <1>22 DEF Happens

(***************************************************************************)
(* Types.                                                                  *)
(***************************************************************************)
LEMMA InitTyped ==
  ASSUME Init
  PROVE  TypeOK
<1>1. PICK c \in CallsOf(Interface) :
        /\ call = [access |-> c.access, op |-> c.op, given |-> c.given, arm |-> c.arm, slot |-> PlanOf(c).slot]
        /\ now = PlanOf(c).steps[1] /\ backing \in IF PlanOf(c).data THEN Lengths ELSE {0}
  BY DEF Init
<1>2. Steps = PlanOf(c).steps
  BY <1>1 DEF Steps, PlanOf
<1>3. Planned
  BY <1>2, PlansAssumption DEF Planned
<1>4. Steps # <<>>
  BY <1>2, PlansAssumption
<1>5. AtStep
  BY <1>1, <1>2, <1>3, <1>4 DEF Init, AtStep, Planned
<1>6. source \in Sources /\ backing \in 0 .. MaxU64
  BY <1>1, ConversionsAssumption DEF Init, Unknown, Sources
<1>7. QED
  BY <1>3, <1>5, <1>6 DEF TypeOK, Init

LEMMA NextTyped ==
  ASSUME TypeOK, Next
  PROVE  TypeOK' /\ Steps' = Steps /\ Sound
<1>1. Sound
  BY EveryStep DEF Next
<1>2. Steps' = Steps
  BY <1>1 DEF Sound, Steps, PlanOf
<1>3. Planned'
  BY <1>2 DEF TypeOK, Planned
<1>4. pc' \in Nat \ {0}
  BY <1>1 DEF Sound, GoesOn, Stops, TypeOK, AtStep
<1>5. now' = IF pc' \in DOMAIN Steps THEN Steps[pc'] ELSE Over
  BY <1>1 DEF Next, Steps, Sound
<1>6. source' \in Sources
  <2>1. CASE Stops
    BY <2>1 DEF Stops, TypeOK
  <2>2. CASE GoesOn
    <3>1. now \in PlanStep
      BY <2>2, InPlan DEF GoesOn
    <3>2. backing \in Nat /\ source \in Sources /\ 0 .. MaxU64 \subseteq Nat
      BY ConversionsAssumption DEF TypeOK
    <3>3. First \in Int /\ Length \in Int
      BY <3>2 DEF First, Length, Bytes, Sources
    <3>4. Converts(now)
      BY <2>2 DEF GoesOn
    <3>5. CASE now.do = "to"
      <4>1. CASE source' = source
        BY <3>2, <4>1
      <4>2. CASE now.role # "none"
        <5>1. PICK n \in 0 .. MaxU64 : source' = [source EXCEPT ![now.role] = n]
          BY <3>4, <3>5, <4>2 DEF Converts
        <5>2. now.role \in {"byteOffset", "byteLength", "element", "start", "size"}
          BY <3>1, <4>2 DEF PlanStep, Roles
        <5>3. n \in Nat /\ n \in Int
          BY <3>2
        <5>4. QED
          BY <3>2, <5>1, <5>2, <5>3 DEF Sources
      <4>3. QED
        BY <3>4, <3>5, <4>1, <4>2 DEF Converts
    <3>6. CASE now.do # "to"
      <4>1. CASE now.do \in {"whole", "measure", "copy"}
        <5>1. backing \in Nat
          BY <3>2
        <5>2. \/ source' = [source EXCEPT !.copied = backing, !.byteLength = backing]
              \/ source' = [source EXCEPT !.seen = backing]
              \/ source' = [source EXCEPT !.copied = backing]
          BY <3>4, <4>1 DEF Converts
        <5>3. QED
          BY <3>2, <5>1, <5>2 DEF Sources
      <4>2. CASE now.do = "slice"
        <5>1. source' = [source EXCEPT !.from = source.byteOffset + First, !.end = source.byteOffset + First + Length]
          BY <3>4, <4>2 DEF Converts
        <5>2. source.byteOffset + First \in Int /\ source.byteOffset + First + Length \in Int
          BY <3>2, <3>3 DEF Sources
        <5>3. QED
          BY <3>2, <5>1, <5>2 DEF Sources
      <4>3. CASE now.do \notin {"to", "whole", "measure", "copy", "slice"}
        BY <3>2, <3>4, <4>3 DEF Converts
      <4>4. QED
        BY <3>6, <4>1, <4>2, <4>3
    <3>7. QED
      BY <3>5, <3>6
  <2>3. QED
    BY <1>1, <2>1, <2>2 DEF Sound
<1>7. native' \in [sent : Nat, made : Nat, refused : BOOLEAN] /\ views' \in [captured : Nat, kept : Nat]
  <2>1. native \in [sent : Nat, made : Nat, refused : BOOLEAN] /\ views \in [captured : Nat, kept : Nat]
    BY DEF TypeOK
  <2>2. CASE GoesOn
    BY <2>1, <2>2 DEF GoesOn, Acts
  <2>3. CASE Stops
    <3>1. CASE Declined
      BY <2>1, <3>1 DEF Declined
    <3>2. CASE Undone
      BY <2>1, <3>2 DEF Undone
    <3>3. CASE Leaves
      BY <2>1, <3>3 DEF Leaves
    <3>4. QED
      BY <2>1, <2>3, <3>1, <3>2, <3>3 DEF Stops, Returns, Fails, Waits
  <2>4. QED
    BY <1>1, <2>2, <2>3 DEF Sound
<1>8. outcome' \in {"running", "erring", "threw", "returned"} /\ backing' \in 0 .. MaxU64
  BY <1>1 DEF Sound, GoesOn, Stops, Returns, Fails, Leaves, Declined, Undone, Waits, TypeOK
<1>9. QED
  BY <1>1, <1>2, <1>3, <1>4, <1>5, <1>6, <1>7, <1>8 DEF TypeOK, AtStep

(***************************************************************************)
(* What is known of a window.                                              *)
(***************************************************************************)
LEMMA Products ==
  ASSUME TypeOK
  PROVE  /\ Bytes \in Nat /\ source.byteOffset \in Nat /\ source.copied \in Nat /\ source.element \in Nat
         /\ source.start \in Nat /\ source.size \in Int /\ source.from \in Int /\ source.end \in Int
         /\ First \in Int /\ Length \in Int /\ source.size * source.element \in Int
  BY DEF TypeOK, Sources, First, Length, Bytes

(* The steps that change no part of a window leave what it comes to.       *)
LEMMA SameWindow ==
  ASSUME TypeOK, Converts(now), now \in PlanStep, NEW role \in {"byteOffset", "byteLength", "element", "start", "size"},
         ~Moves(now, {role})
  PROVE  source'[role] = source[role]
<1>1. source \in Sources
  BY DEF TypeOK
<1>2. CASE now.do = "to"
  <2>1. source' = source \/ \E n : source' = [source EXCEPT ![now.role] = n]
    BY <1>2 DEF Converts
  <2>2. now.role # role
    BY <1>2 DEF Moves, Finds
  <2>3. QED
    BY <1>1, <2>1, <2>2 DEF Sources
<1>3. CASE now.do = "whole"
  BY <1>1, <1>3 DEF Converts, Sources, Moves
<1>4. CASE now.do \in {"measure", "copy", "slice"}
  BY <1>1, <1>4 DEF Converts, Sources
<1>5. QED
  BY <1>2, <1>3, <1>4 DEF Converts

(* So do sets of roles.                                                    *)
LEMMA SameRoles ==
  ASSUME TypeOK, Converts(now), now \in PlanStep, NEW roles, NEW role \in {"byteOffset", "byteLength", "element", "start", "size"},
         role \in roles, ~Moves(now, roles)
  PROVE  source'[role] = source[role]
<1>1. ~Moves(now, {role})
  BY DEF Moves, Finds
<1>2. QED
  BY <1>1, SameWindow

LEMMA WindowKept ==
  ASSUME TypeOK, WindowInv, Next
  PROVE  WindowInv'
<1>1. TypeOK' /\ Steps' = Steps /\ Sound
  BY NextTyped
<1>2. CASE Stops
  BY <1>1, <1>2 DEF Stops, WindowInv, ViewCopied, FirstChecked, WindowChecked, Defaults, Sliced, SourceInBounds, Did,
     ViewEnd, First, Length, Bytes
<1>3. CASE GoesOn
  <2>1. pc' = pc + 1 /\ Converts(now) /\ pc \in Nat \ {0}
    BY <1>3 DEF GoesOn, TypeOK, AtStep
  <2>2. pc \in DOMAIN Steps /\ now = Steps[pc] /\ now \in PlanStep /\ DOMAIN Steps = 1 .. Len(Steps)
    BY <1>3, InPlan DEF GoesOn
  <2>3. WindowsInOrder(Steps)
    BY DEF TypeOK, Planned
  <2>4. source \in Sources /\ source' \in Sources /\ backing \in Nat
    BY <1>1, ConversionsAssumption DEF TypeOK
  <2>5. \A does, roles : Since(Steps, pc', does, roles) =>
           now.do \in does \/ (Since(Steps, pc, does, roles) /\ ~Moves(now, roles))
    BY <2>1, <2>2, SinceNext
  <2>6. \A roles : Before(Steps, pc', roles) <=> Before(Steps, pc, roles) \/ Finds(now, roles)
    BY <2>1, <2>2, BeforeNext
  <2>7. Defaults'
    <3>1. ASSUME ~Before(Steps, pc', {"byteOffset"})
          PROVE  source'.byteOffset = 0
      <4>1. ~Before(Steps, pc, {"byteOffset"}) /\ ~Moves(now, {"byteOffset"})
        BY <2>6, <3>1 DEF Moves
      <4>2. source'["byteOffset"] = source["byteOffset"]
        BY <2>1, <2>2, <4>1, SameWindow
      <4>3. QED
        BY <4>1, <4>2 DEF WindowInv, Defaults
    <3>2. ASSUME ~Before(Steps, pc', {"start", "size"})
          PROVE  source'.start = 0 /\ source'.size = -1
      <4>1. ~Before(Steps, pc, {"start", "size"}) /\ ~Moves(now, {"start"}) /\ ~Moves(now, {"size"})
        BY <2>6, <3>2 DEF Moves, Finds
      <4>2. source'["start"] = source["start"] /\ source'["size"] = source["size"]
        BY <2>1, <2>2, <4>1, SameWindow
      <4>3. QED
        BY <4>1, <4>2 DEF WindowInv, Defaults
    <3>3. QED
      BY <1>1, <3>1, <3>2 DEF Defaults
  <2>8. ViewCopied'
    <3> SUFFICES ASSUME Since(Steps, pc', {"whole", "copy"}, ViewRoles)
                 PROVE  source'.byteOffset + source'.byteLength <= source'.copied
      BY <1>1 DEF ViewCopied, ViewEnd
    <3>1. CASE now.do = "whole"
      <4>1. ~Before(Steps, pc, {"byteOffset"})
        BY <2>2, <2>3, <3>1 DEF WindowsInOrder
      <4>2. source.byteOffset = 0
        BY <4>1 DEF WindowInv, Defaults
      <4>3. source' = [source EXCEPT !.copied = backing, !.byteLength = backing]
        BY <2>1, <3>1 DEF Converts
      <4>4. QED
        BY <2>4, <4>2, <4>3 DEF Sources
    <3>2. CASE now.do = "copy"
      BY <2>1, <2>4, <3>2 DEF Converts, Sources, ViewEnd
    <3>3. CASE now.do \notin {"whole", "copy"}
      <4>1. Since(Steps, pc, {"whole", "copy"}, ViewRoles) /\ ~Moves(now, ViewRoles)
        BY <2>5, <3>3
      <4>2. source'["byteOffset"] = source["byteOffset"] /\ source'["byteLength"] = source["byteLength"]
        BY <2>1, <2>2, <4>1, SameRoles DEF ViewRoles
      <4>3. source'.copied = source.copied
        <5>1. CASE now.do = "to"
          <6>1. source' = source \/ \E n : source' = [source EXCEPT ![now.role] = n]
            BY <2>1, <5>1 DEF Converts
          <6>2. now.role # "copied"
            BY <2>2 DEF PlanStep, Roles
          <6>3. QED
            BY <2>4, <6>1, <6>2 DEF Sources
        <5>2. CASE now.do # "to"
          BY <2>1, <2>4, <3>3, <5>2 DEF Converts, Sources
        <5>3. QED
          BY <5>1, <5>2
      <4>4. ViewEnd <= source.copied
        BY <4>1 DEF WindowInv, ViewCopied
      <4>5. QED
        BY <4>2, <4>3, <4>4 DEF ViewEnd
    <3>4. QED
      BY <3>1, <3>2, <3>3
  <2>9. FirstChecked'
    <3> SUFFICES ASSUME Since(Steps, pc', {"start"}, FirstRoles)
                 PROVE  First' <= Bytes'
      BY <1>1 DEF FirstChecked
    <3>1. CASE now.do = "start"
      BY <2>1, <3>1 DEF Converts, First, Bytes
    <3>2. CASE now.do # "start"
      <4>1. Since(Steps, pc, {"start"}, FirstRoles) /\ ~Moves(now, FirstRoles)
        BY <2>5, <3>2
      <4>2. source'["byteLength"] = source["byteLength"] /\ source'["element"] = source["element"]
            /\ source'["start"] = source["start"]
        BY <2>1, <2>2, <4>1, SameRoles DEF FirstRoles
      <4>3. QED
        BY <4>1, <4>2 DEF WindowInv, FirstChecked, First, Bytes
    <3>3. QED
      BY <3>1, <3>2
  <2>10. WindowChecked'
    <3> SUFFICES ASSUME Since(Steps, pc', {"window"}, WindowRoles)
                 PROVE  Length' >= 0 /\ First' + Length' <= Bytes'
      BY <1>1 DEF WindowChecked
    <3>1. CASE now.do = "window"
      <4>1. source' = source /\ First + Length <= Bytes
        BY <2>1, <3>1 DEF Converts
      <4>2. First <= Bytes
        BY <2>2, <2>3, <3>1 DEF WindowsInOrder, WindowInv, FirstChecked
      <4>3. Length >= 0
        <5>1. CASE source.size = -1
          BY <4>2, <5>1, Products DEF Length
        <5>2. CASE source.size # -1
          <6>1. source.size >= 0
            BY <5>2 DEF TypeOK, Sources
          <6>2. QED
            BY <5>2, <6>1, Products DEF Length
        <5>3. QED
          BY <5>1, <5>2
      <4>4. QED
        BY <4>1, <4>3 DEF First, Length, Bytes
    <3>2. CASE now.do # "window"
      <4>1. Since(Steps, pc, {"window"}, WindowRoles) /\ ~Moves(now, WindowRoles)
        BY <2>5, <3>2
      <4>2. source'["byteLength"] = source["byteLength"] /\ source'["element"] = source["element"]
            /\ source'["start"] = source["start"] /\ source'["size"] = source["size"]
        BY <2>1, <2>2, <4>1, SameRoles DEF FirstRoles, WindowRoles
      <4>3. QED
        BY <4>1, <4>2 DEF WindowInv, WindowChecked, First, Length, Bytes
    <3>3. QED
      BY <3>1, <3>2
  <2>11. Sliced'
    <3>1. \A does : Did(does) => Did(does)'
      BY <1>1, <2>1 DEF Did
    <3>2. CASE now.do = "slice"
      <4>1. Did("slice")'
        BY <1>1, <2>1, <2>2, <3>2 DEF Did
      <4>2. source' = [source EXCEPT !.from = source.byteOffset + First, !.end = source.byteOffset + First + Length]
        BY <2>1, <3>2 DEF Converts
      <4>3. ViewEnd <= source.copied
        BY <2>2, <2>3, <3>2 DEF WindowsInOrder, WindowInv, ViewCopied
      <4>4. Length >= 0 /\ First + Length <= Bytes
        <5>1. CASE Before(Steps, pc, {"start", "size"})
          BY <2>2, <2>3, <3>2, <5>1 DEF WindowsInOrder, WindowInv, WindowChecked
        <5>2. CASE ~Before(Steps, pc, {"start", "size"})
          <6>1. source.start = 0 /\ source.size = -1
            BY <5>2 DEF WindowInv, Defaults
          <6>2. First = 0
            BY <6>1, Products DEF First
          <6>3. QED
            BY <6>1, <6>2, Products DEF Length
        <5>3. QED
          BY <5>1, <5>2
      <4>5. source.byteOffset + First <= source.byteOffset + First + Length
            /\ source.byteOffset + First + Length <= source.copied
        BY <4>3, <4>4, Products DEF ViewEnd, Bytes
      <4>6. source'.from = source.byteOffset + First /\ source'.end = source.byteOffset + First + Length
            /\ source'.copied = source.copied
        BY <2>4, <4>2 DEF Sources
      <4>7. QED
        BY <4>1, <4>5, <4>6 DEF Sliced, SourceInBounds
    <3>3. CASE now.do # "slice"
      <4>1. source'.from = source.from /\ source'.end = source.end
        <5>1. CASE now.do = "to"
          <6>1. source' = source \/ \E n : source' = [source EXCEPT ![now.role] = n]
            BY <2>1, <5>1 DEF Converts
          <6>2. now.role \notin {"from", "end"}
            BY <2>2 DEF PlanStep, Roles
          <6>3. QED
            BY <2>4, <6>1, <6>2 DEF Sources
        <5>2. CASE now.do # "to"
          BY <2>1, <2>4, <3>3, <5>2 DEF Converts, Sources
        <5>3. QED
          BY <5>1, <5>2
      <4>2. CASE source.from = 0 /\ source.end = 0
        BY <2>4, <4>1, <4>2 DEF Sliced, SourceInBounds, Sources
      <4>3. CASE Did("slice")
        <5>1. PICK i \in 1 .. pc - 1 : Steps[i].do = "slice"
          BY <4>3 DEF Did
        <5>2. i \in DOMAIN Steps /\ pc \in i + 1 .. Len(Steps)
          BY <2>1, <2>2, <5>1 DEF TypeOK, Planned
        <5>3. now.do \notin {"whole", "copy"}
          BY <2>2, <2>3, <5>1, <5>2 DEF WindowsInOrder
        <5>4. source'.copied = source.copied
          <6>1. CASE now.do = "to"
            <7>1. source' = source \/ \E n : source' = [source EXCEPT ![now.role] = n]
              BY <2>1, <6>1 DEF Converts
            <7>2. now.role # "copied"
              BY <2>2 DEF PlanStep, Roles
            <7>3. QED
              BY <2>4, <7>1, <7>2 DEF Sources
          <6>2. CASE now.do # "to"
            BY <2>1, <2>4, <3>3, <5>3, <6>2 DEF Converts, Sources
          <6>3. QED
            BY <6>1, <6>2
        <5>5. QED
          BY <3>1, <4>1, <4>3, <5>4 DEF WindowInv, Sliced, SourceInBounds
      <4>4. QED
        BY <4>2, <4>3 DEF WindowInv, Sliced
    <3>4. QED
      BY <3>2, <3>3
  <2>12. QED
    BY <2>7, <2>8, <2>9, <2>10, <2>11 DEF WindowInv
<1>4. QED
  BY <1>1, <1>2, <1>3 DEF Sound

(***************************************************************************)
(* What a call that throws leaves.                                         *)
(***************************************************************************)
LEMMA CallKept ==
  ASSUME TypeOK, CallInv, Next
  PROVE  CallInv'
<1>1. TypeOK' /\ Steps' = Steps /\ Sound
  BY NextTyped
<1>2. ActsAtTheEnd(Steps) /\ pc \in Nat \ {0}
      /\ native \in [sent : Nat, made : Nat, refused : BOOLEAN] /\ views \in [captured : Nat, kept : Nat]
  BY DEF TypeOK, Planned, AtStep
<1>3. ASSUME now.do # "over", NEW does, Did(does)
      PROVE  /\ does \in {"send", "make", "keep"} => now.do \notin MayThrow
             /\ does \in {"send", "make"} => now.do # "make"
             /\ does = "send" => now.do \notin {"register", "wrap"}
  <2>1. PICK i \in 1 .. pc - 1 : Steps[i].do = does
    BY <1>3 DEF Did
  <2>2. i \in DOMAIN Steps /\ pc \in DOMAIN Steps /\ now = Steps[pc] /\ i < pc
    BY <1>2, <1>3, <2>1, InPlan
  <2>3. QED
    BY <1>2, <2>1, <2>2 DEF ActsAtTheEnd
<1>4. CASE GoesOn
  <2>1. pc' = pc + 1 /\ now.do # "over" /\ Acts(now) /\ Acted /\ outcome' \in {"running", "returned"}
    BY <1>4 DEF GoesOn, CallInv
  <2>2. \A does : Did(does) \/ now.do = does => Did(does)'
    BY <1>1, <1>2, <2>1, InPlan DEF Did
  <2>3. Acted'
    <3>1. native'.sent # 0 => Did("send")'
      BY <1>2, <2>1, <2>2 DEF Acts, Acted
    <3>2. native'.made # 0 => Did("make")'
      BY <1>2, <2>1, <2>2 DEF Acts, Acted
    <3>3. views'.kept # 0 => Did("keep")'
      BY <1>2, <2>1, <2>2 DEF Acts, Acted
    <3>4. ~native'.refused
      BY <1>2, <2>1 DEF Acts, Acted
    <3>5. QED
      BY <3>1, <3>2, <3>3, <3>4 DEF Acted
  <2>4. QED
    BY <2>1, <2>3 DEF CallInv, ThrowLeavesNothing
<1>5. CASE Stops
  <2>1. pc' = pc /\ \A does : Did(does)' <=> Did(does)
    BY <1>1, <1>5 DEF Stops, Did
  <2>2. now' = now
    BY <1>1, <2>1 DEF TypeOK, AtStep
  <2>3. CASE Returns
    BY <2>1, <2>3 DEF Returns, CallInv, Acted, ThrowLeavesNothing
  <2>4. CASE Fails
    BY <2>1, <2>2, <2>4 DEF Fails, CallInv, Acted, ThrowLeavesNothing
  <2>5. CASE Leaves
    <3>1. now.do \in MayThrow /\ now.do # "over" /\ outcome # "threw"
      BY <2>5 DEF Leaves, CallInv, MayThrow
    <3>2. ~Did("send") /\ ~Did("make") /\ ~Did("keep")
      BY <1>3, <3>1
    <3>3. native.sent = 0 /\ native.made = 0 /\ views.kept = 0
      BY <3>1, <3>2 DEF CallInv, Acted
    <3>4. QED
      BY <1>2, <2>5, <3>3 DEF Leaves, CallInv, ThrowLeavesNothing
  <2>6. CASE Declined
    <3>1. ~Did("send") /\ ~Did("make")
      BY <1>3, <2>6 DEF Declined
    <3>2. native.sent = 0 /\ native.made = 0
      BY <2>6, <3>1 DEF Declined, CallInv, Acted
    <3>3. native'.sent = 0 /\ native'.made = 0 /\ views'.captured = 0 /\ native'.refused
      BY <1>2, <2>6, <3>2 DEF Declined
    <3>4. QED
      BY <2>6, <3>3 DEF Declined, CallInv, ThrowLeavesNothing
  <2>7. CASE Undone
    <3>1. ~Did("send")
      BY <1>3, <2>7 DEF Undone
    <3>2. native.sent = 0
      BY <2>7, <3>1 DEF Undone, CallInv, Acted
    <3>3. QED
      BY <1>2, <2>7, <3>2 DEF Undone, CallInv, ThrowLeavesNothing
  <2>8. CASE Waits
    BY <2>1, <2>2, <2>8 DEF Waits, CallInv, Acted, ThrowLeavesNothing
  <2>9. QED
    BY <1>5, <2>3, <2>4, <2>5, <2>6, <2>7, <2>8 DEF Stops
<1>6. QED
  BY <1>1, <1>4, <1>5 DEF Sound

(***************************************************************************)
(* Locks and labels.                                                       *)
(***************************************************************************)

(* What a step does to them, by what the call asks of script in it.        *)
Renamed == label' = [native |-> IF label.native = "none" THEN "none" ELSE "nested", stored |-> "nested"]
Onward == pc' = pc + 1 /\ outcome' \in {"running", "returned"}
Asks ==
  /\ outcome = "running" /\ now.do \in ScriptSteps
  /\ label' = label \/ Renamed
  /\ stuck' => held
  /\ (Onward /\ held' = held) \/ (pc' = pc /\ outcome' = "threw" /\ ~held')
Mistakes ==
  /\ outcome = "erring" /\ pc' = pc /\ (label' = label \/ Renamed)
  /\ IF stuck' THEN outcome' = "erring" ELSE outcome' = "threw"
LooksUp ==
  /\ outcome = "running" /\ now.do = "builtin" /\ (label' = label \/ Renamed)
  /\ \/ UNCHANGED <<pc, outcome, held>>
     \/ ~stuck' /\ Onward /\ held' = held
     \/ ~stuck' /\ pc' = pc /\ outcome' = "threw"
Quiet ==
  /\ outcome = "running" /\ now.do \notin {"over", "set", "store"}
  /\ label' = label /\ ~stuck'
  /\ \/ Onward /\ now.do \notin {"lock", "unlock"} /\ held' = held
     \/ Onward /\ now.do = "lock" /\ held'
     \/ Onward /\ now.do = "unlock" /\ ~held'
     \/ pc' = pc /\ outcome' # "running"
LabelGoes(do, new) ==
  /\ outcome = "running" /\ now.do = do /\ label' = new /\ ~stuck' /\ held' = held
  /\ pc' = pc + 1 /\ outcome' = IF now.last THEN "returned" ELSE "running"
SetsNative == LabelGoes("set", IF label.native = "none" THEN label ELSE [label EXCEPT !.native = "mine"])
Stores     == LabelGoes("store", [label EXCEPT !.stored = "mine"])
Orderly    == Asks \/ Mistakes \/ LooksUp \/ Quiet \/ SetsNative \/ Stores

LEMMA OrderlySteps ==
  ASSUME Happens
  PROVE  Orderly
<1> USE DEF At, Goes, Throws, Errs, NothingHappens, Orderly, Onward
<1>1. Reenters => (label' = label \/ Renamed) /\ (stuck' => held)
  BY DEF Reenters, Relabels, Renamed
<1>2. Script /\ ~stuck => (label' = label \/ Renamed) /\ (stuck' => held)
  BY <1>1 DEF Script, ScriptActs
<1>3. ASSUME NEW kind \in {"require", "get", "names", "iterate"}, Read(kind) PROVE Orderly
  BY <1>2, <1>3 DEF Read, Asks, ScriptSteps
<1>4. CASE Coerce
  BY <1>2, <1>4 DEF Coerce, Asks, ScriptSteps
<1>5. CASE Refuses
  BY <1>5 DEF Refuses, Quiet
<1>6. CASE TakeHandle
  BY <1>6 DEF TakeHandle, Quiet
<1>7. CASE TakeSlot
  BY <1>7 DEF TakeSlot, Quiet
<1>8. CASE MakeView
  BY <1>8 DEF MakeView, Quiet
<1>9. CASE Brand
  BY <1>9 DEF Brand, Quiet
<1>10. CASE Check
  BY <1>10 DEF Check, Quiet
<1>11. CASE Lock
  BY <1>11 DEF Lock, Quiet
<1>12. CASE Engine
  BY <1>12 DEF Engine, Quiet
<1>13. CASE Fallible
  BY <1>13 DEF Fallible, Quiet
<1>14. CASE Send
  BY <1>14 DEF Send, Quiet
<1>15. CASE Keep
  BY <1>15 DEF Keep, Quiet
<1>16. CASE Make
  BY <1>16 DEF Make, Quiet
<1>17. ASSUME NEW kind \in {"register", "wrap"}, Wraps(kind) PROVE Orderly
  BY <1>17 DEF Wraps, Undo, Quiet
<1>18. CASE SetLabel
  BY <1>18 DEF SetLabel, SetsNative, LabelGoes
<1>19. CASE StoreLabel
  BY <1>19 DEF StoreLabel, Stores, LabelGoes
<1>20. CASE MakeError
  BY <1>1, <1>20 DEF MakeError, Mistakes
<1>21. CASE SourceStep
  BY <1>21 DEF SourceStep, Knows, Whole, Measure, Bounds, Copy, Words, Start, Window, Slice, Quiet
<1>22. CASE Builtin
  BY <1>2, <1>22 DEF Builtin, LooksUp
<1>23. QED
  BY <1>3, <1>4, <1>5, <1>6, <1>7, <1>8, <1>9, <1>10, <1>11, <1>12, <1>13, <1>14, <1>15, <1>16, <1>17, <1>18,
     <1>19, <1>20, <1>21, <1>22 DEF Happens

(* A lock is kept until its step of the plan gives it up.                  *)
LEMMA LockedNext ==
  ASSUME NEW steps, NEW i \in Nat \ {0}
  PROVE  /\ steps[i].do = "lock" => LockedAt(steps, i + 1)
         /\ LockedAt(steps, i) /\ steps[i].do # "unlock" => LockedAt(steps, i + 1)
  BY DEF LockedAt

LEMMA LockKept ==
  ASSUME TypeOK, LockInv, Next
  PROVE  LockInv'
<1>1. Steps' = Steps /\ pc \in Nat \ {0}
  BY NextTyped DEF TypeOK, AtStep
<1>2. Orderly
  BY OrderlySteps DEF Next
<1>3. now.do # "over" => pc \in DOMAIN Steps /\ now = Steps[pc]
  BY InPlan
<1>4. CASE Asks
  <2>1. now.do # "over" /\ ScriptOutsideLocks(Steps)
    BY <1>4 DEF Asks, ScriptSteps, TypeOK, Planned
  <2>2. ~held
    BY <1>3, <1>4, <2>1 DEF Asks, LockInv, ScriptOutsideLocks
  <2>3. QED
    BY <1>4, <2>2 DEF Asks, LockInv, ArgumentsUnlocked
<1>5. CASE Mistakes
  BY <1>5 DEF Mistakes, LockInv, ArgumentsUnlocked
<1>6. CASE Quiet
  <2>1. ~stuck' /\ now = Steps[pc]
    BY <1>3, <1>6 DEF Quiet
  <2>2. ASSUME outcome' = "running", held' PROVE LockedAt(Steps, pc')
    BY <1>1, <1>6, <2>1, <2>2, LockedNext DEF Quiet, Onward, LockInv
  <2>3. QED
    BY <1>1, <2>1, <2>2 DEF LockInv, ArgumentsUnlocked
<1>7. CASE SetsNative \/ Stores
  <2>1. ~stuck' /\ held' = held /\ pc' = pc + 1 /\ outcome = "running" /\ now.do \in {"set", "store"}
    BY <1>7 DEF SetsNative, Stores, LabelGoes
  <2>2. held' => LockedAt(Steps, pc')
    BY <1>1, <1>3, <2>1, LockedNext DEF LockInv
  <2>3. QED
    BY <1>1, <2>1, <2>2 DEF LockInv, ArgumentsUnlocked
<1>8. CASE LooksUp
  <2>1. now = Steps[pc] /\ pc \in DOMAIN Steps /\ now.do = "builtin" /\ outcome = "running"
    BY <1>3, <1>8 DEF LooksUp
  <2>2. held => LockedAt(Steps, pc) /\ LockedAt(Steps, pc + 1)
    BY <1>1, <2>1, LockedNext DEF LockInv
  <2>3. outcome' = "running" /\ held' => LockedAt(Steps, pc')
    BY <1>8, <2>2 DEF LooksUp, Onward
  <2>4. stuck' => pc' = pc
    BY <1>8 DEF LooksUp
  <2>5. pc' = pc => now' = now
    BY <1>1, <2>1, NextTyped DEF TypeOK, AtStep
  <2>6. QED
    BY <1>1, <2>1, <2>3, <2>4, <2>5 DEF LockInv, ArgumentsUnlocked
<1>9. QED
  BY <1>2, <1>4, <1>5, <1>6, <1>7, <1>8 DEF Orderly

(* The two steps of a setter are next to each other, and no others.        *)
LEMMA FirstLabel ==
  ASSUME TypeOK, ~HalfSet, now.do \in {"set", "store"}
  PROVE  ~now.last /\ pc + 1 \in DOMAIN Steps /\ SetsLabel(Steps[pc + 1])
<1>1. pc \in DOMAIN Steps /\ now = Steps[pc] /\ SetsLabel(now) /\ LabelsAtOnce(Steps) /\ pc \in Nat
  BY InPlan DEF SetsLabel, TypeOK, Planned, AtStep
<1>2. PICK k \in {pc - 1, pc + 1} \cap DOMAIN Steps : SetsLabel(Steps[k]) /\ (k = pc + 1 => ~now.last)
  BY <1>1 DEF LabelsAtOnce
<1>3. k # pc - 1
  BY <1>1, <1>2 DEF HalfSet
<1>4. QED
  BY <1>2, <1>3

LEMMA SecondLabel ==
  ASSUME TypeOK, HalfSet
  PROVE  /\ now = Steps[pc] /\ SetsLabel(now) /\ Steps[pc - 1].do # now.do /\ SetsLabel(Steps[pc - 1])
         /\ pc + 1 \in DOMAIN Steps => ~SetsLabel(Steps[pc + 1])
<1>1. pc \in DOMAIN Steps /\ now = Steps[pc] /\ SetsLabel(now) /\ LabelsAtOnce(Steps) /\ pc \in Nat
  BY DEF HalfSet, TypeOK, Planned, AtStep
<1>2. PICK k \in {pc - 1, pc + 1} \cap DOMAIN Steps :
        Steps[k].do # now.do /\ \A j \in DOMAIN Steps : SetsLabel(Steps[j]) => j \in {pc, k}
  BY <1>1 DEF LabelsAtOnce
<1>3. k = pc - 1
  BY <1>1, <1>2 DEF HalfSet
<1>4. QED
  BY <1>1, <1>2, <1>3 DEF HalfSet

LEMMA LabelKept ==
  ASSUME TypeOK, CallInv, LabelInv, Next
  PROVE  LabelInv'
<1>1. Steps' = Steps /\ pc \in Nat \ {0} /\ Orderly
  BY NextTyped, OrderlySteps DEF Next, TypeOK, AtStep
<1>2. HalfSet' <=> pc' - 1 \in DOMAIN Steps /\ pc' \in DOMAIN Steps /\ SetsLabel(Steps[pc' - 1]) /\ SetsLabel(Steps[pc'])
  BY <1>1 DEF HalfSet
<1>3. ASSUME now.do \notin {"set", "store"}, label' = label \/ Renamed, pc' = pc \/ (pc' = pc + 1 /\ now.do # "over")
      PROVE  LabelInv'
  <2>1. ~HalfSet
    BY <1>3, SecondLabel DEF SetsLabel
  <2>2. ~HalfSet'
    <3>1. CASE pc' = pc
      BY <1>2, <2>1, <3>1 DEF HalfSet
    <3>2. CASE pc' = pc + 1 /\ now.do # "over"
      <4>1. now = Steps[pc] /\ pc' - 1 = pc
        BY <1>1, <3>2, InPlan
      <4>2. QED
        BY <1>2, <1>3, <4>1 DEF SetsLabel
    <3>3. QED
      BY <1>3, <3>1, <3>2
  <2>3. SameLabel(label)'
    BY <1>3, <2>1 DEF LabelInv, SameLabel, Renamed
  <2>4. label' \in [native : {"none", "old", "mine", "nested"}, stored : {"old", "mine", "nested"}]
    BY <1>3 DEF LabelInv, Renamed
  <2>5. QED
    BY <2>2, <2>3, <2>4 DEF LabelInv
<1>5. CASE Asks
  BY <1>3, <1>5 DEF Asks, Onward, ScriptSteps
<1>6. CASE Mistakes
  BY <1>3, <1>6 DEF Mistakes, CallInv
<1>7. CASE Quiet
  BY <1>3, <1>7 DEF Quiet, Onward
<1>8. CASE SetsNative \/ Stores
  <2>1. now.do \in {"set", "store"} /\ pc' = pc + 1 /\ outcome' = IF now.last THEN "returned" ELSE "running"
    BY <1>8 DEF SetsNative, Stores, LabelGoes
  <2>2. pc \in DOMAIN Steps /\ now = Steps[pc] /\ pc' - 1 = pc /\ SetsLabel(now)
    BY <1>1, <2>1, InPlan DEF SetsLabel
  <2>3. label' \in [native : {"none", "old", "mine", "nested"}, stored : {"old", "mine", "nested"}]
    BY <1>8 DEF SetsNative, Stores, LabelGoes, LabelInv
  <2>4. now.do = "set" => label'.native \in {"none", "mine"} /\ label'.stored = label.stored
    BY <1>8 DEF SetsNative, Stores, LabelGoes, LabelInv
  <2>5. now.do = "store" => label'.stored = "mine" /\ label'.native = label.native
    BY <1>8 DEF SetsNative, Stores, LabelGoes, LabelInv
  <2>6. CASE HalfSet
    <3>1. ~HalfSet'
      BY <1>2, <2>1, <2>6, SecondLabel
    <3>2. Steps[pc - 1].do # now.do /\ Steps[pc - 1].do \in {"set", "store"}
      BY <2>6, SecondLabel DEF SetsLabel
    <3>3. SameLabel(label)'
      BY <2>1, <2>4, <2>5, <2>6, <3>2 DEF LabelInv, SameLabel
    <3>4. QED
      BY <2>3, <3>1, <3>3 DEF LabelInv
  <2>7. CASE ~HalfSet
    <3>1. ~now.last /\ HalfSet'
      BY <1>2, <2>1, <2>2, <2>7, FirstLabel
    <3>2. Steps'[pc' - 1] = now
      BY <1>1, <2>2
    <3>3. QED
      BY <2>1, <2>3, <2>4, <2>5, <3>1, <3>2 DEF LabelInv
  <2>8. QED
    BY <2>6, <2>7
<1>9. CASE LooksUp
  BY <1>3, <1>9 DEF LooksUp, Onward
<1>10. QED
  BY <1>1, <1>5, <1>6, <1>7, <1>8, <1>9 DEF Orderly

(***************************************************************************)
(* The theorems.                                                           *)
(***************************************************************************)
LEMMA Invariance == Spec => [](TypeOK /\ WindowInv /\ CallInv /\ LockInv /\ LabelInv)
<1>1. Init => TypeOK /\ WindowInv /\ CallInv /\ LockInv /\ LabelInv
  <2> SUFFICES ASSUME Init PROVE TypeOK /\ WindowInv /\ CallInv /\ LockInv /\ LabelInv
    OBVIOUS
  <2>1. TypeOK
    BY InitTyped
  <2>2. pc = 1 /\ source = Unknown /\ outcome = "running" /\ views = [captured |-> 0, kept |-> 0]
        /\ native = [sent |-> 0, made |-> 0, refused |-> FALSE]
    BY DEF Init
  <2>3. \A does, roles : ~Since(Steps, 1, does, roles)
    BY DEF Since
  <2>4. WindowInv
    BY <2>2, <2>3 DEF WindowInv, ViewCopied, FirstChecked, WindowChecked, Defaults, Sliced, SourceInBounds, Unknown
  <2>5. CallInv
    BY <2>2 DEF CallInv, Acted, ThrowLeavesNothing
  <2>6. LockInv
    BY DEF Init, LockInv, ArgumentsUnlocked
  <2>7. ~HalfSet
    BY <2>1, <2>2 DEF HalfSet, TypeOK, Planned
  <2>8. LabelInv
    BY <2>7 DEF Init, LabelInv, SameLabel
  <2>9. QED
    BY <2>1, <2>4, <2>5, <2>6, <2>8
<1>2. TypeOK /\ WindowInv /\ CallInv /\ LockInv /\ LabelInv /\ [Next]_vars => (TypeOK /\ WindowInv /\ CallInv /\ LockInv /\ LabelInv)'
  <2> SUFFICES ASSUME TypeOK, WindowInv, CallInv, LockInv, LabelInv, [Next]_vars PROVE (TypeOK /\ WindowInv /\ CallInv /\ LockInv /\ LabelInv)'
    OBVIOUS
  <2>1. CASE Next
    BY <2>1, NextTyped, WindowKept, CallKept, LockKept, LabelKept
  <2>2. CASE UNCHANGED vars
    <3>1. Steps' = Steps
      BY <2>2 DEF vars, Steps
    <3>2. TypeOK'
      BY <2>2, <3>1 DEF vars, TypeOK, Planned, AtStep
    <3>3. WindowInv'
      BY <2>2, <3>1 DEF vars, WindowInv, ViewCopied, FirstChecked, WindowChecked, Defaults, Sliced, SourceInBounds,
         ViewEnd, First, Length, Bytes, Did
    <3>4. CallInv'
      BY <2>2, <3>1 DEF vars, CallInv, Acted, ThrowLeavesNothing, Did
    <3>5. LockInv'
      BY <2>2, <3>1 DEF vars, LockInv, ArgumentsUnlocked
    <3>6. LabelInv'
      BY <2>2, <3>1 DEF vars, LabelInv, HalfSet, SameLabel
    <3>7. QED
      BY <3>2, <3>3, <3>4, <3>5, <3>6
  <2>3. QED
    BY <2>1, <2>2
<1>3. QED
  BY <1>1, <1>2, PTL DEF Spec

(* Whatever script answers for a view's offset, length and element size,   *)
(* whatever it does to the buffer in between, and whatever numbers         *)
(* dataOffset and size are: the bytes a method hands to native are among   *)
(* those convert_buffer_source copied.                                     *)
THEOREM WindowsInBounds == Spec => []SourceInBounds
<1>1. WindowInv => SourceInBounds
  BY DEF WindowInv, Sliced
<1>2. QED
  BY <1>1, Invariance, PTL

(* A call that throws, at whichever step and whatever script did before,   *)
(* has had native do nothing and leaves no object and no view without an   *)
(* owner, but for the views of a create that native refuses.               *)
THEOREM FailedCallsLeaveNothing == Spec => []ThrowLeavesNothing
<1>1. CallInv => ThrowLeavesNothing
  BY DEF CallInv
<1>2. QED
  BY <1>1, Invariance, PTL

(* R27 for arguments: for every interface that converts none of its        *)
(* arguments under a lock, whatever else it does there, a call of script's *)
(* waits for the lock of the call it is in only while an error is being    *)
(* made or a built-in looked up, however script re-enters.                 *)
THEOREM ConversionsUnlocked == Spec => []ArgumentsUnlocked
<1>1. LockInv => ArgumentsUnlocked
  BY DEF LockInv
<1>2. QED
  BY <1>1, Invariance, PTL

(* R12: when a call is over, the label a wrapper gives is the one native   *)
(* has, also when script sets the label or destroys the wrapper in the     *)
(* conversion of the new one, or the call throws.                          *)
THEOREM LabelsInStep == Spec => []LabelsAgree
<1>1. LabelInv => LabelsAgree
  BY DEF LabelInv, LabelsAgree, Done, SameLabel
<1>2. QED
  BY <1>1, Invariance, PTL

(***************************************************************************)
(* Limits: the inductive invariant.                                         *)
(***************************************************************************)

(* What the request is about; supported has what native reports of it.     *)
Given ==
  /\ \A n \in Wanted : ask[n] \in Int
  /\ left \subseteq DOMAIN ask
  /\ \A n \in Wanted \cap Known :
        supported[n] \in Nat /\ supported[n] <= Undefined(n)

(* The names read so far are requested, each as the integer it stands for. *)
Coerced ==
  /\ DOMAIN requested \subseteq Wanted
  /\ \A n \in DOMAIN requested : InRange(ask[n]) /\ requested[n] = Truncate(ask[n])
  /\ step = "coerce" => DOMAIN requested = Wanted \ left /\ limits = InitialLimits
  /\ step \in {"query", "convert", "send", "sent", "created"} => DOMAIN requested = Wanted /\ Wanted \subseteq Known

Converted(filled, n) ==
  filled[n] = Truncate(ask[n]) /\ ~IsBetter(n, filled[n]) /\ Representable(n, filled[n])

(* The structure holds the converted names and nothing else.               *)
Filled(done) ==
  \A n \in Known : IF n \in done THEN Converted(limits, n) ELSE limits[n] = Undefined(n)

Progress ==
  /\ step \in {"query", "convert"} => Wanted # {}
  /\ step = "query" => limits = InitialLimits
  /\ step = "convert" => left \subseteq Wanted /\ DOMAIN limits = Known /\ Filled(Wanted \ left)
  /\ step = "send" => Wanted = {}
  /\ step \in {"sent", "created"} =>
        /\ handed.pointer <=> Wanted # {}
        /\ handed.limits = limits
        /\ Wanted # {} => Filled(Wanted)
  /\ step = "created" => device = [n \in Wanted |-> limits[n]]

(* A request is rejected for one of its names.                             *)
Refused ==
  step = "rejected" =>
    \/ \E n \in Wanted : ~InRange(ask[n])
    \/ ~(Wanted \subseteq Known)
    \/ \E n \in Wanted \cap Known : \/ IsBetter(n, Truncate(ask[n]))
                                    \/ ~Representable(n, Truncate(ask[n]))

LimitsInv == Given /\ Coerced /\ Progress /\ Refused

(***************************************************************************)
(* Numbers.                                                                *)
(***************************************************************************)

(* What is in range is truncated to an integer a double holds exactly.     *)
LEMMA Truncated ==
  ASSUME NEW d \in Int, InRange(d)
  PROVE  Truncate(d) \in Nat /\ Truncate(d) <= MaxSafe
BY LimitsAssumption DEF InRange, Truncate

(* Twice a safe integer is in range and truncated to that integer.         *)
LEMMA Doubled ==
  ASSUME NEW v \in Nat, v <= MaxSafe
  PROVE  InRange(2 * v) /\ Truncate(2 * v) = v
BY LimitsAssumption DEF InRange, Truncate

(* A number native can be asked for is not the one that means nothing.     *)
LEMMA RepresentableIsDefined ==
  ASSUME NEW n, NEW v \in Nat, v <= MaxSafe, Representable(n, v)
  PROVE  v # Undefined(n)
BY LimitsAssumption DEF Representable, Undefined

(* What native reports and cannot be asked for is its undefined.           *)
LEMMA ReportedUndefined ==
  ASSUME NEW n, NEW v \in Nat, v <= Undefined(n), ~Representable(n, v)
  PROVE  v = Undefined(n)
BY LimitsAssumption DEF Representable, Undefined

(***************************************************************************)
(* The invariant holds.                                                    *)
(***************************************************************************)
LEMMA LimitsInvInit == LimitsInit => LimitsInv
<1> SUFFICES ASSUME LimitsInit PROVE LimitsInv
  OBVIOUS
<1>1. PICK N \in Asked : /\ ask \in [N -> Doubles \cup {Missing}] /\ left = N
                         /\ supported \in {s \in [N \cap Known -> Reported] :
                                             \A n \in N \cap Known : s[n] <= Undefined(n)}
  BY DEF LimitsInit
<1>2. step = "coerce" /\ requested = <<>> /\ limits = InitialLimits
  BY DEF LimitsInit
<1>3. Given
  <2>1. \A n \in Wanted : ask[n] \in Int /\ n \in N
    BY <1>1, LimitsAssumption DEF Wanted
  <2>2. \A n \in N \cap Known : supported[n] \in Nat /\ supported[n] <= Undefined(n)
    BY <1>1, LimitsAssumption
  <2> QED
    BY <1>1, <2>1, <2>2 DEF Given
<1>4. Coerced
  <2>1. DOMAIN requested = {}
    BY <1>2
  <2>2. Wanted \ left = {}
    BY <1>1 DEF Wanted
  <2> QED
    BY <1>2, <2>1, <2>2 DEF Coerced
<1>5. Progress /\ Refused
  BY <1>2 DEF Progress, Refused
<1> QED
  BY <1>3, <1>4, <1>5 DEF LimitsInv

LEMMA LimitsInvStep ==
  ASSUME LimitsInv, [LimitsNext]_limitsVars
  PROVE  LimitsInv'
<1>0. Given /\ Coerced /\ Progress /\ Refused
  BY DEF LimitsInv
<1>1. ASSUME UNCHANGED <<ask, supported>>, left' \subseteq DOMAIN ask
      PROVE  Given' /\ Wanted' = Wanted
  BY <1>0, <1>1 DEF Given, Wanted
<1>2. CASE CoerceLimit
  <2>1. /\ step = "coerce" /\ UNCHANGED <<ask, supported, handed, device>>
        /\ limits = InitialLimits /\ DOMAIN requested = Wanted \ left
    BY <1>0, <1>2 DEF CoerceLimit, Coerced
  <2>2. PICK n \in left :
          \/ /\ ask[n] = Missing /\ left' = left \ {n}
             /\ UNCHANGED <<step, requested, limits>>
          \/ /\ ask[n] # Missing
             /\ IF InRange(ask[n])
                THEN /\ requested' = [m \in DOMAIN requested \cup {n} |->
                                         IF m = n THEN Truncate(ask[n]) ELSE requested[m]]
                     /\ left' = left \ {n} /\ UNCHANGED <<step, limits>>
                ELSE Rejects
    BY <1>2 DEF CoerceLimit
  <2>3. n \in DOMAIN ask /\ left \subseteq DOMAIN ask
    BY <1>0 DEF Given
  <2>4. CASE ask[n] = Missing
    <3>1. left' = left \ {n} /\ UNCHANGED <<step, requested, limits>>
      BY <2>2, <2>4
    <3>2. Wanted \ left' = Wanted \ left
      BY <2>4, <3>1 DEF Wanted
    <3>3. Given' /\ Wanted' = Wanted
      BY <1>1, <2>1, <2>3, <3>1
    <3>4. Coerced'
      BY <1>0, <2>1, <3>1, <3>2, <3>3 DEF Coerced
    <3> QED
      BY <2>1, <3>1, <3>3, <3>4 DEF LimitsInv, Progress, Refused
  <2>5. CASE ask[n] # Missing /\ InRange(ask[n])
    <3>1. /\ requested' = [m \in DOMAIN requested \cup {n} |-> IF m = n THEN Truncate(ask[n]) ELSE requested[m]]
          /\ left' = left \ {n} /\ UNCHANGED <<step, limits>>
      BY <2>2, <2>5
    <3>2. n \in Wanted
      BY <2>3, <2>5 DEF Wanted
    <3>3. Given' /\ Wanted' = Wanted
      BY <1>1, <2>1, <2>3, <3>1
    <3>4. DOMAIN requested' = Wanted \ left'
      BY <2>1, <3>1, <3>2
    <3>5. \A m \in DOMAIN requested' : InRange(ask[m]) /\ requested'[m] = Truncate(ask[m])
      BY <1>0, <2>5, <3>1 DEF Coerced
    <3>6. Coerced'
      BY <2>1, <3>1, <3>3, <3>4, <3>5 DEF Coerced, InRange, Truncate
    <3> QED
      BY <2>1, <3>1, <3>3, <3>6 DEF LimitsInv, Progress, Refused
  <2>6. CASE ask[n] # Missing /\ ~InRange(ask[n])
    <3>1. step' = "rejected" /\ UNCHANGED <<left, requested, limits>>
      BY <2>2, <2>6 DEF Rejects
    <3>2. n \in Wanted
      BY <2>3, <2>6 DEF Wanted
    <3>3. Given' /\ Wanted' = Wanted
      BY <1>1, <2>1, <2>3, <3>1
    <3>4. Coerced'
      BY <1>0, <2>1, <3>1, <3>3 DEF Coerced
    <3>5. Refused'
      BY <2>1, <2>6, <3>1, <3>2, <3>3 DEF Refused, InRange
    <3> QED
      BY <3>1, <3>3, <3>4, <3>5 DEF LimitsInv, Progress
  <2> QED
    BY <2>4, <2>5, <2>6
<1>3. CASE CheckKnown
  <2>1. /\ step = "coerce" /\ left = {} /\ UNCHANGED <<ask, left, requested, limits, supported, handed, device>>
        /\ limits = InitialLimits /\ DOMAIN requested = Wanted
    BY <1>0, <1>3 DEF CheckKnown, Coerced, Rejects
  <2>2. Given' /\ Wanted' = Wanted
    BY <1>1, <2>1
  <2>3. CASE Wanted \subseteq Known
    <3>1. step' = IF Wanted = {} THEN "send" ELSE "query"
      BY <1>3, <2>1, <2>3 DEF CheckKnown
    <3>2. Coerced'
      BY <1>0, <2>1, <2>2, <2>3, <3>1 DEF Coerced
    <3> QED
      BY <2>1, <2>2, <3>1, <3>2 DEF LimitsInv, Progress, Refused
  <2>4. CASE ~(Wanted \subseteq Known)
    <3>1. step' = "rejected"
      BY <1>3, <2>1, <2>4 DEF CheckKnown, Rejects
    <3>2. Coerced'
      BY <1>0, <2>1, <2>2, <3>1 DEF Coerced
    <3> QED
      BY <2>1, <2>2, <2>4, <3>1, <3>2 DEF LimitsInv, Progress, Refused
  <2> QED
    BY <2>3, <2>4
<1>4. CASE QuerySupported
  <2>1. /\ step = "query" /\ UNCHANGED <<ask, supported, handed, device, requested, limits>>
        /\ \/ step' = "convert" /\ left' = DOMAIN requested
           \/ step' = "failed" /\ left' = left
        /\ DOMAIN requested = Wanted /\ Wanted \subseteq Known /\ Wanted # {} /\ limits = InitialLimits
    BY <1>0, <1>4 DEF QuerySupported, Coerced, Progress
  <2>2. left' \subseteq DOMAIN ask
    BY <1>0, <2>1 DEF Given, Wanted
  <2>3. Given' /\ Wanted' = Wanted
    BY <1>1, <2>1, <2>2
  <2>4. Coerced'
    BY <1>0, <2>1, <2>3 DEF Coerced
  <2>5. step' = "convert" => left' = Wanted /\ DOMAIN limits' = Known /\ \A n \in Known : limits'[n] = Undefined(n)
    BY <2>1 DEF InitialLimits
  <2>6. Progress'
    BY <2>1, <2>3, <2>5 DEF Progress, Filled
  <2> QED
    BY <2>1, <2>3, <2>4, <2>6 DEF LimitsInv, Refused
<1>5. CASE Convert
  <2>1. /\ step = "convert" /\ UNCHANGED <<ask, supported, handed, device>>
        /\ DOMAIN requested = Wanted /\ Wanted \subseteq Known /\ Wanted # {}
        /\ left \subseteq Wanted /\ DOMAIN limits = Known /\ Filled(Wanted \ left)
        /\ \A n \in Wanted : InRange(ask[n]) /\ requested[n] = Truncate(ask[n])
    BY <1>0, <1>5 DEF Convert, Coerced, Progress
  <2>2. PICK n \in left :
          IF IsBetter(n, requested[n]) \/ ~Representable(n, requested[n]) THEN Rejects
          ELSE /\ limits' = [limits EXCEPT ![n] = requested[n]] /\ left' = left \ {n}
               /\ UNCHANGED <<step, requested>>
    BY <1>5 DEF Convert
  <2>3. n \in Wanted /\ n \in Known /\ requested[n] = Truncate(ask[n]) /\ left \subseteq DOMAIN ask
    BY <1>0, <2>1 DEF Given
  <2>4. CASE IsBetter(n, requested[n]) \/ ~Representable(n, requested[n])
    <3>1. step' = "rejected" /\ UNCHANGED <<left, requested, limits>>
      BY <2>2, <2>4 DEF Rejects
    <3>2. Given' /\ Wanted' = Wanted
      BY <1>1, <2>1, <2>3, <3>1
    <3>3. Coerced'
      BY <1>0, <2>1, <3>1, <3>2 DEF Coerced
    <3>4. Refused'
      BY <2>1, <2>3, <2>4, <3>1, <3>2 DEF Refused, IsBetter
    <3> QED
      BY <3>1, <3>2, <3>3, <3>4 DEF LimitsInv, Progress
  <2>5. CASE ~IsBetter(n, requested[n]) /\ Representable(n, requested[n])
    <3>1. limits' = [limits EXCEPT ![n] = requested[n]] /\ left' = left \ {n} /\ UNCHANGED <<step, requested>>
      BY <2>2, <2>5
    <3>2. Given' /\ Wanted' = Wanted
      BY <1>1, <2>1, <2>3, <3>1
    <3>3. Coerced'
      BY <1>0, <2>1, <3>1, <3>2 DEF Coerced
    <3>4. \A m \in Known : IF m \in Wanted \ left' THEN Converted(limits, m)' ELSE limits'[m] = Undefined(m)
      <4> SUFFICES ASSUME NEW m \in Known
                   PROVE  IF m \in Wanted \ left' THEN Converted(limits, m)' ELSE limits'[m] = Undefined(m)
        OBVIOUS
      <4>1. CASE m = n
        BY <2>1, <2>3, <2>5, <3>1, <4>1 DEF Converted, IsBetter
      <4>2. CASE m # n
        BY <2>1, <3>1, <4>2 DEF Filled, Converted, IsBetter
      <4> QED
        BY <4>1, <4>2
    <3>5. Progress'
      BY <2>1, <3>1, <3>2, <3>4 DEF Progress, Filled
    <3> QED
      BY <2>1, <3>1, <3>2, <3>3, <3>5 DEF LimitsInv, Refused
  <2> QED
    BY <2>4, <2>5
<1>6. CASE SendLimits
  <2>1. /\ step = "send" \/ (step = "convert" /\ left = {})
        /\ step' = "sent" /\ handed' = [pointer |-> DOMAIN requested # {}, limits |-> limits]
        /\ UNCHANGED <<ask, left, requested, supported, limits, device>>
    BY <1>6 DEF SendLimits
  <2>2. DOMAIN requested = Wanted /\ Wanted \subseteq Known
    BY <1>0, <2>1 DEF Coerced
  <2>3. Given' /\ Wanted' = Wanted
    BY <1>0, <1>1, <2>1 DEF Given
  <2>4. Coerced'
    BY <1>0, <2>1, <2>2, <2>3 DEF Coerced
  <2>5. Wanted # {} => Filled(Wanted)
    <3>1. CASE step = "send"
      BY <1>0, <3>1 DEF Progress
    <3>2. CASE step = "convert" /\ left = {}
      BY <1>0, <3>2 DEF Progress
    <3> QED
      BY <2>1, <3>1, <3>2
  <2>6. Wanted # {} => Filled(Wanted)'
    BY <2>1, <2>3, <2>5 DEF Filled, Converted, IsBetter
  <2>7. Progress'
    BY <2>1, <2>2, <2>3, <2>6 DEF Progress
  <2> QED
    BY <2>1, <2>3, <2>4, <2>7 DEF LimitsInv, Refused
<1>7. CASE CreateDevice
  <2>1. /\ step = "sent" /\ step' = "created" /\ device' = [n \in DOMAIN requested |-> handed.limits[n]]
        /\ UNCHANGED <<ask, left, requested, supported, limits, handed>>
    BY <1>7 DEF CreateDevice
  <2>2. /\ DOMAIN requested = Wanted /\ Wanted \subseteq Known /\ handed.limits = limits
        /\ (handed.pointer <=> Wanted # {}) /\ (Wanted # {} => Filled(Wanted))
    BY <1>0, <2>1 DEF Coerced, Progress
  <2>3. Given' /\ Wanted' = Wanted
    BY <1>0, <1>1, <2>1 DEF Given
  <2>4. Coerced'
    BY <1>0, <2>1, <2>2, <2>3 DEF Coerced
  <2>5. Wanted # {} => Filled(Wanted)'
    BY <2>1, <2>2, <2>3 DEF Filled, Converted, IsBetter
  <2>6. Progress'
    BY <2>1, <2>2, <2>3, <2>5 DEF Progress
  <2> QED
    BY <2>1, <2>3, <2>4, <2>6 DEF LimitsInv, Refused
<1>8. CASE UNCHANGED limitsVars
  BY <1>0, <1>8 DEF limitsVars, LimitsInv, Given, Coerced, Progress, Refused, Wanted, Filled, Converted, IsBetter,
                    InRange, Truncate
<1> QED
  BY <1>2, <1>3, <1>4, <1>5, <1>6, <1>7, <1>8 DEF LimitsNext

LEMMA AlwaysLimitsInv == LimitsSpec => []LimitsInv
BY LimitsInvInit, LimitsInvStep, PTL DEF LimitsSpec

(***************************************************************************)
(* The theorem.                                                            *)
(***************************************************************************)

(* Native is asked for what script asked for, as the integers it gave and  *)
(* never by the number that means nothing, and the getters give the same   *)
(* back; what an adapter says it supports is granted.                      *)
THEOREM LimitsKept == LimitsSpec => []LimitsHonoured
<1>1. ASSUME LimitsInv PROVE AskedAsGiven
  <2> SUFFICES ASSUME step \in {"sent", "created"}
               PROVE  /\ Wanted \subseteq Known
                      /\ handed.pointer <=> Wanted # {}
                      /\ Wanted # {} => \A n \in Known :
                           IF n \in Wanted
                           THEN /\ handed.limits[n] = Truncate(ask[n]) /\ handed.limits[n] # Undefined(n)
                                /\ ~IsBetter(n, handed.limits[n])
                                /\ step = "created" => Readable(device, n) /\ GetLimit(device, n) = Truncate(ask[n])
                           ELSE handed.limits[n] = Undefined(n)
    BY DEF AskedAsGiven
  <2>1. /\ DOMAIN requested = Wanted /\ Wanted \subseteq Known
        /\ \A n \in Wanted : InRange(ask[n]) /\ ask[n] \in Int
        /\ (handed.pointer <=> Wanted # {}) /\ handed.limits = limits
        /\ Wanted # {} => Filled(Wanted)
        /\ step = "created" => device = [n \in Wanted |-> limits[n]]
    BY <1>1 DEF LimitsInv, Given, Coerced, Progress
  <2>2. ASSUME Wanted # {}, NEW n \in Known, n \in Wanted
        PROVE  /\ handed.limits[n] = Truncate(ask[n]) /\ handed.limits[n] # Undefined(n)
               /\ ~IsBetter(n, handed.limits[n])
               /\ step = "created" => Readable(device, n) /\ GetLimit(device, n) = Truncate(ask[n])
    <3>1. limits[n] = Truncate(ask[n]) /\ ~IsBetter(n, limits[n]) /\ Representable(n, limits[n])
      BY <2>1, <2>2 DEF Filled, Converted
    <3>2. limits[n] \in Nat /\ limits[n] <= MaxSafe
      BY <2>1, <2>2, <3>1, Truncated
    <3>3. limits[n] # Undefined(n)
      BY <3>1, <3>2, RepresentableIsDefined
    <3>4. step = "created" => device[n] = limits[n]
      BY <2>1, <2>2
    <3> QED
      BY <2>1, <3>1, <3>2, <3>3, <3>4 DEF Readable, GetLimit, Getters
  <2>3. ASSUME Wanted # {}, NEW n \in Known, n \notin Wanted
        PROVE  handed.limits[n] = Undefined(n)
    BY <2>1, <2>3 DEF Filled
  <2> QED
    BY <2>1, <2>2, <2>3
<1>2. ASSUME LimitsInv PROVE SupportedIsGranted
  <2> SUFFICES ASSUME step = "rejected", Wanted \subseteq Known,
                      \A n \in Wanted : Readable(supported, n) /\ ask[n] = 2 * supported[n]
               PROVE  \E n \in Wanted : supported[n] = Undefined(n)
    BY DEF SupportedIsGranted
  <2>1. \A n \in Wanted : /\ supported[n] \in Nat /\ supported[n] <= Undefined(n)
                          /\ supported[n] <= MaxSafe /\ ask[n] = 2 * supported[n]
    BY <1>2 DEF LimitsInv, Given, Readable, GetLimit
  <2>2. \A n \in Wanted : InRange(ask[n]) /\ Truncate(ask[n]) = supported[n]
    BY <2>1, Doubled
  <2>3. \A n \in Wanted : ~IsBetter(n, supported[n])
    BY <2>1 DEF IsBetter
  <2>4. PICK n \in Wanted : ~Representable(n, supported[n])
    BY <1>2, <2>2, <2>3 DEF LimitsInv, Refused
  <2>5. supported[n] = Undefined(n)
    BY <2>1, <2>4, ReportedUndefined
  <2> QED
    BY <2>5
<1>3. LimitsInv => LimitsHonoured
  BY <1>1, <1>2 DEF LimitsHonoured
<1> QED
  BY <1>3, AlwaysLimitsInv, PTL

(***************************************************************************)
(* Messages.                                                               *)
(***************************************************************************)

(* What the callback copies of an answer, and how many of these are made.  *)
CopiesOf(messages) == [i \in DOMAIN messages |-> CopyMessage(code, messages[i])]
Answered == /\ reported.status = "success" /\ reported.messages \in Seq(Message \cup Report(code))
            /\ copied = CopiesOf(reported.messages)
MessagesInv ==
  /\ request \in {"idle", "created", "asked"} => made = <<>>
  /\ request # "idle" => kept = code
  /\ request \in {"copied", "fulfilled"} => Answered
  /\ request = "copied" => /\ made \in Seq({copied[i] : i \in DOMAIN copied}) /\ Len(made) <= Len(reported.messages)
                           /\ \A i \in DOMAIN made : made[i] = copied[i]
  /\ request = "fulfilled" => made = copied

LEMMA MessagesInvInit == MessagesInit => MessagesInv
BY DEF MessagesInit, MessagesInv

(* An answer that is copied is a sequence of messages.                     *)
LEMMA AnswerCopied ==
  ASSUME MessagesInv, NEW answer, CompilationInfoCallback(answer),
         answer.messages \in Seq(Message \cup Report(code))
  PROVE  MessagesInv'
<1>1. kept = code /\ made = <<>> /\ code' = code /\ kept' = kept /\ made' = made /\ reported' = answer
  BY DEF MessagesInv, CompilationInfoCallback
<1>2. CASE request' = "copied"
  <2>1. answer.status = "success" /\ copied' = CopiesOf(answer.messages)
    BY <1>1, <1>2 DEF CompilationInfoCallback, CopiesOf
  <2>2. Answered'
    BY <1>1, <2>1 DEF Answered, CopiesOf
  <2>3. <<>> \in Seq({copied'[i] : i \in DOMAIN copied'}) /\ Len(<<>>) <= Len(reported'.messages)
    BY <1>1
  <2>4. QED
    BY <1>1, <1>2, <2>2, <2>3 DEF MessagesInv
<1>3. CASE request' # "copied"
  <2>1. request' = "failed"
    BY <1>3 DEF CompilationInfoCallback
  <2>2. QED
    BY <1>1, <2>1 DEF MessagesInv
<1>4. QED
  BY <1>2, <1>3

LEMMA MessagesInvStep == MessagesInv /\ [MessagesNext]_messagesVars => MessagesInv'
<1> SUFFICES ASSUME MessagesInv, [MessagesNext]_messagesVars PROVE MessagesInv'
  OBVIOUS
<1>1. CASE MakeModule
  BY <1>1 DEF MakeModule, MessagesInv
<1>2. CASE AskForInfo
  BY <1>2 DEF AskForInfo, MessagesInv
<1>3. ASSUME NEW answer \in Answers, CompilationInfoCallback(answer) PROVE MessagesInv'
  <2>1. answer.messages = <<>>
    BY <1>3 DEF Answers
  <2> DEFINE both == Message \cup Report(code)
  <2>2. <<>> \in Seq(both)
    <3> HIDE DEF both
    <3>1. QED
      OBVIOUS
  <2>3. QED
    BY <1>3, <2>1, <2>2, AnswerCopied
<1>4. ASSUME request = "asked", NEW first \in Report(kept), NEW rest \in Tails,
             CompilationInfoCallback([status |-> "success", null |-> "nothing", messages |-> <<first>> \o rest])
      PROVE  MessagesInv'
  <2>1. first \in Message \cup Report(code)
    BY <1>4 DEF MessagesInv
  <2>2. rest \in Seq(Message)
    BY MessagesAssumption
  <2> DEFINE both == Message \cup Report(code)
  <2>3. first \in both /\ Message \subseteq both
    BY <2>1
  <2>4. rest \in Seq(both)
    <3> HIDE DEF both
    <3>1. QED
      BY <2>2, <2>3
  <2>5. <<first>> \o rest \in Seq(both)
    <3> HIDE DEF both
    <3>1. QED
      BY <2>3, <2>4
  <2>6. QED
    BY <1>4, <2>5, AnswerCopied
<1>5. CASE NewMessage
  <2>1. CASE request' = "rejected"
    BY <1>5, <2>1 DEF NewMessage, MessagesInv
  <2>2. CASE request' = request
    <3> DEFINE S == {copied[i] : i \in DOMAIN copied}
    <3>1. request = "copied" /\ Len(made) < Len(copied) /\ made' = Append(made, copied[Len(made) + 1])
          /\ UNCHANGED <<code, kept, reported, copied>>
      BY <1>5, <2>2 DEF NewMessage, MessagesInv
    <3>2. Answered /\ Answered' /\ made \in Seq(S) /\ \A i \in DOMAIN made : made[i] = copied[i]
      BY <3>1 DEF MessagesInv, Answered, CopiesOf
    <3>3. Len(reported.messages) \in Nat /\ DOMAIN copied = 1 .. Len(reported.messages) /\ Len(copied) = Len(reported.messages)
      BY <3>2 DEF Answered, CopiesOf
    <3>4. copied[Len(made) + 1] \in S
      BY <3>1, <3>2, <3>3
    <3>5. /\ made' \in Seq(S) /\ Len(made') = Len(made) + 1 /\ Len(made) \in Nat
          /\ \A i \in DOMAIN made' : made'[i] = copied[i]
      <4> HIDE DEF S
      <4>1. QED
        BY <3>1, <3>2, <3>4
    <3>6. QED
      BY <2>2, <3>1, <3>2, <3>3, <3>5 DEF MessagesInv
  <2>3. QED
    BY <1>5, <2>1, <2>2 DEF NewMessage
<1>6. CASE NewInfo
  <2>1. CASE request' = "rejected"
    BY <1>6, <2>1 DEF NewInfo, MessagesInv
  <2>2. CASE request' = "fulfilled"
    <3> DEFINE S == {copied[i] : i \in DOMAIN copied}
    <3>1. Answered /\ Answered' /\ made \in Seq(S) /\ (\A i \in DOMAIN made : made[i] = copied[i]) /\ Len(made) = Len(copied)
      BY <1>6 DEF NewInfo, MessagesInv, Answered, CopiesOf
    <3>2. Len(reported.messages) \in Nat /\ DOMAIN copied = 1 .. Len(reported.messages) /\ Len(copied) = Len(reported.messages)
          /\ copied = [i \in DOMAIN copied |-> copied[i]]
      BY <3>1 DEF Answered, CopiesOf
    <3>3. made = copied
      <4> HIDE DEF S
      <4>1. DOMAIN made = DOMAIN copied /\ made = [i \in DOMAIN made |-> made[i]]
        BY <3>1, <3>2
      <4>2. QED
        BY <3>1, <3>2, <4>1
    <3>4. QED
      BY <1>6, <2>2, <3>1, <3>3 DEF NewInfo, MessagesInv
  <2>3. QED
    BY <1>6, <2>1, <2>2 DEF NewInfo
<1>7. CASE Reject
  BY <1>7 DEF Reject, MessagesInv
<1>8. CASE UNCHANGED messagesVars
  BY <1>8 DEF messagesVars, MessagesInv, Answered, CopiesOf
<1>9. QED
  BY <1>1, <1>2, <1>3, <1>4, <1>5, <1>6, <1>7, <1>8 DEF MessagesNext

(* A promise of getCompilationInfo that is fulfilled shows script each     *)
(* message native reported, in native's order, as copied from the code     *)
(* script passed, and nothing else; whatever fails is a rejection.         *)
OneEach ==
  request = "fulfilled" =>
    /\ reported.status = "success" /\ DOMAIN Shown = DOMAIN reported.messages
    /\ \A i \in DOMAIN Shown : Shown[i] = CopyMessage(code, reported.messages[i])
THEOREM EveryMessageShown == MessagesSpec => []OneEach
<1>1. MessagesInv => OneEach
  BY DEF MessagesInv, Answered, CopiesOf, OneEach, Shown
<1>2. QED
  BY <1>1, MessagesInvInit, MessagesInvStep, PTL DEF MessagesSpec

(***************************************************************************)
(* Modules.                                                                *)
(***************************************************************************)

(* What is in the cache has run once and what is not has not; a factory    *)
(* that runs is in the cache, so that none is entered while it runs.       *)
RunsInv ==
  /\ present \subseteq Ids /\ cache \subseteq present
  /\ runs \in [Ids -> Nat] /\ \A id \in Ids : runs[id] = IF id \in cache THEN 1 ELSE 0
  /\ stack \in Seq(cache) /\ IsInjective(stack)
  /\ \A g \in got : g.id \in cache

LEMMA FirstIsPresent ==
  ASSUME NEW n \in {3, 4}, NEW candidates, DOMAIN candidates = 1 .. n, NEW m \in FirstPresent(candidates)
  PROVE  m \in present
<1> DEFINE hits == {i \in DOMAIN candidates : candidates[i] \in present}
<1>1. hits # {} /\ m = candidates[Min(hits)]
  BY DEF FirstPresent
<1>2. hits \subseteq 1 .. 4 /\ \A i \in hits : i \in 1 .. 4
  OBVIOUS
<1>3. \E i \in hits : \A j \in hits : i =< j
  <2> HIDE DEF hits
  <2>1. \A i \in hits : i = 1 \/ i = 2 \/ i = 3 \/ i = 4
    BY <1>2
  <2>2. QED
    BY <1>1, <2>1
<1>4. Min(hits) \in hits
  <2> HIDE DEF hits
  <2>1. QED
    BY <1>3 DEF Min
<1>5. QED
  BY <1>1, <1>4

LEMMA ResolvedIsPresent ==
  ASSUME NEW spec, NEW from, NEW m \in Resolve(spec, from)
  PROVE  m \in present
<1>1. CASE loader = "commonjs"
  <2>1. DOMAIN CandidateIds(spec, from) = 1 .. 3
    BY DEF CandidateIds
  <2>2. QED
    BY <1>1, <2>1, FirstIsPresent DEF Resolve
<1>2. CASE loader # "commonjs"
  <2>1. DOMAIN Probes(spec, CHOOSE id \in from : TRUE) = 1 .. 4
    BY DEF Probes
  <2>2. QED
    BY <1>2, <2>1, FirstIsPresent DEF Resolve
<1>3. QED
  BY <1>1, <1>2

(* __require puts a module on the stack that was not there.                *)
LEMMA Required ==
  ASSUME RunsInv, NEW spec, RequireModule(spec)
  PROVE  RunsInv'
<1>1. present' = present
  BY DEF RequireModule
<1>2. CASE UNCHANGED <<cache, runs, stack, got>>
  BY <1>1, <1>2 DEF RunsInv, IsInjective
<1>3. ASSUME NEW m \in Resolve(spec, Top) \cap cache, Hands(m, spec, Top, spec), UNCHANGED <<cache, runs, stack>>
      PROVE  RunsInv'
  <2>1. \A g \in got' : g.id \in cache
    BY <1>3 DEF Hands
  <2>2. QED
    BY <1>1, <1>3, <2>1 DEF RunsInv, IsInjective
<1>4. ASSUME NEW m \in Resolve(spec, Top) \ cache, cache' = cache \cup {m}, runs' = [runs EXCEPT ![m] = @ + 1],
             stack' = Append(stack, m), got' = got
      PROVE  RunsInv'
  <2>1. m \in present
    BY <1>4, ResolvedIsPresent
  <2>2. runs' \in [Ids -> Nat] /\ \A id \in Ids : runs'[id] = IF id \in cache' THEN 1 ELSE 0
    BY <1>4, <2>1 DEF RunsInv
  <2>3. stack \in Seq(cache) /\ stack \in Seq(cache') /\ \A i \in DOMAIN stack : stack[i] \in cache /\ stack[i] # m
    <3>1. stack \in Seq(cache)
      BY DEF RunsInv
    <3>2. QED
      BY <1>4, <3>1
  <2>4. stack' \in Seq(cache')
    BY <1>4, <2>3
  <2>5. DOMAIN stack' = 1 .. Len(stack) + 1 /\ DOMAIN stack = 1 .. Len(stack) /\ Len(stack) \in Nat
        /\ stack'[Len(stack) + 1] = m /\ \A i \in DOMAIN stack : stack'[i] = stack[i]
    BY <1>4, <2>3
  <2>6. IsInjective(stack)'
    BY <2>3, <2>5 DEF RunsInv, IsInjective
  <2>7. QED
    BY <1>1, <1>4, <2>1, <2>2, <2>4, <2>6 DEF RunsInv
<1>5. QED
  BY <1>2, <1>3, <1>4 DEF RequireModule

(* What a factory's end leaves on the stack was there.                     *)
LEMMA FactoryEnds ==
  ASSUME RunsInv, stack # <<>>, stack' = Front(stack), UNCHANGED <<present, cache, runs, got>>
  PROVE  RunsInv'
<1>1. stack \in Seq(cache) /\ Len(stack) \in Nat \ {0} /\ DOMAIN stack = 1 .. Len(stack)
  BY DEF RunsInv
<1>2. stack' = SubSeq(stack, 1, Len(stack) - 1)
  BY DEF Front
<1>3. stack' \in Seq(cache) /\ DOMAIN stack' = 1 .. Len(stack) - 1 /\ \A i \in DOMAIN stack' : stack'[i] = stack[i]
  BY <1>1, <1>2
<1>4. IsInjective(stack)'
  BY <1>1, <1>3 DEF RunsInv, IsInjective
<1>5. QED
  BY <1>3, <1>4 DEF RunsInv

(* A file that is there is parsed once.                                    *)
LEMMA Parsed ==
  ASSUME RunsInv, NEW m \in present, Parse(m), UNCHANGED <<present, stack>>,
         \A g \in got' : g \in got \/ g.id \in cache'
  PROVE  RunsInv'
<1>1. cache \subseteq cache' /\ cache' \subseteq cache \cup {m} /\ m \in Ids
  BY DEF Parse, RunsInv
<1>2. runs' \in [Ids -> Nat] /\ \A id \in Ids : runs'[id] = IF id \in cache' THEN 1 ELSE 0
  BY <1>1 DEF Parse, RunsInv
<1>3. stack' \in Seq(cache') /\ IsInjective(stack)'
  BY <1>1 DEF RunsInv, IsInjective
<1>4. QED
  BY <1>1, <1>2, <1>3 DEF RunsInv

LEMMA RunsInvInit == LoaderInit => RunsInv
<1> SUFFICES ASSUME LoaderInit PROVE RunsInv
  OBVIOUS
<1>1. present \subseteq Ids /\ cache = {} /\ runs = [id \in Ids |-> 0] /\ stack = <<>> /\ got = {}
  BY DEF LoaderInit
<1>2. QED
  BY <1>1 DEF RunsInv, IsInjective

LEMMA RunsInvStep == RunsInv /\ [LoaderNext]_loaderVars => RunsInv'
<1> SUFFICES ASSUME RunsInv, [LoaderNext]_loaderVars PROVE RunsInv'
  OBVIOUS
<1>1. CASE RunModules
  BY <1>1, Required DEF RunModules
<1>2. ASSUME NEW spec \in Specifiers, FactoryRequires(spec) PROVE RunsInv'
  BY <1>2, Required DEF FactoryRequires
<1>3. CASE FactoryReturns
  BY <1>3, FactoryEnds DEF FactoryReturns
<1>4. CASE FactoryThrows
  BY <1>4, FactoryEnds DEF FactoryThrows
<1>5. CASE FactoryCatches
  BY <1>5 DEF FactoryCatches, RunsInv, IsInjective
<1>6. ASSUME NEW mapped \in Aliases, SetModuleAlias(mapped) PROVE RunsInv'
  BY <1>6 DEF SetModuleAlias, RunsInv, IsInjective
<1>7. ASSUME NEW spec \in Specifiers, NEW from \in cache, LoadImportedModule(spec, from) PROVE RunsInv'
  <2>1. PICK m \in Resolve(spec, {from}) :
          Parse(m) /\ IF m \in cache' THEN Hands(m, spec, {from}, Base(spec, from)) ELSE UNCHANGED got
    BY <1>7 DEF LoadImportedModule
  <2>2. m \in present
    BY ResolvedIsPresent
  <2>3. \A g \in got' : g \in got \/ g.id \in cache'
    BY <2>1 DEF Hands
  <2>4. QED
    BY <1>7, <2>1, <2>2, <2>3, Parsed DEF LoadImportedModule
<1>8. ASSUME NEW path \in Ids, EvalModule(path) PROVE RunsInv'
  BY <1>8, Parsed DEF EvalModule
<1>9. CASE UNCHANGED loaderVars
  BY <1>9 DEF loaderVars, RunsInv, IsInjective
<1>10. QED
  BY <1>1, <1>2, <1>3, <1>4, <1>5, <1>6, <1>7, <1>8, <1>9 DEF LoaderNext

(* Whatever modules there are, however they require each other and         *)
(* whichever throw: a factory is called once, or a file parsed once, it is *)
(* not entered while it runs, and all who ask for it get the one module.   *)
THEOREM ModulesRunOnce == LoaderSpec => [](RunsOnce /\ IsInjective(stack))
<1>1. RunsInv => RunsOnce /\ IsInjective(stack)
  BY DEF RunsInv, RunsOnce
<1>2. QED
  BY <1>1, RunsInvInit, RunsInvStep, PTL DEF LoaderSpec

=============================================================================
