---------------------------- MODULE RetentionPlan ----------------------------
(***************************************************************************)
(* The generator's lifecycle pass: which native handles the wrapper of an  *)
(* interface keeps alive.  The plan is derived from the joined             *)
(* dictionaries and compared with what the hand-written policy captures.   *)
(*                                                                         *)
(* A schema s is the join report and the policy, as the derivation reads   *)
(* them:                                                                   *)
(*   s.handles     interfaces that have a C handle                         *)
(*   s.dicts       dictionary -> its members                               *)
(*   s.alias       typedef -> its type                                     *)
(*   s.descriptor  standard interface -> the dictionary its creator takes  *)
(*   s.creator     standard interface -> the interface that creates it     *)
(*   s.captures    standard interface -> fields the converted descriptor   *)
(*                 captures, in order                                      *)
(*   s.extensions  standard interface -> entries the policy adds           *)
(* A type is the identifiers it names, whether it is a sequence of them    *)
(* and whether it is nullable.  A member has a type, whether it may be     *)
(* absent or null, the handle arms a flattened union adds, whether the     *)
(* policy skips it and whether an enum value may stand for the handle.     *)
(***************************************************************************)
EXTENDS Naturals, Sequences, FiniteSets, SequencesExt

Rejected == "rejected"  \* CodegenError::Policy

\* As if only the last member on the way counted.
AbsentHere(inNull, member) == member.optional
\* What is reached through an absent member is absent.
Absent(inNull, member) == inNull \/ member.optional
\* A handle is stored unless it is in a sequence of its own, which native takes over.
Stored(type, inSeq) == ~type.sequence \/ inSeq

Types    == [ids : Seq(STRING), sequence : BOOLEAN, nullable : BOOLEAN]
TypeOf(id) == [ids |-> <<id>>, sequence |-> FALSE, nullable |-> FALSE]

\* derive_type_handles and derive_dictionary_handles: the handles of a type found at path, in
\* order.  A dictionary that contains itself is entered once.
TypeHandles(s) ==
  LET handles[type \in Types, path \in Seq(STRING), inSeq \in BOOLEAN, inNull \in BOOLEAN,
              visiting \in SUBSET DOMAIN s.dicts] ==
        LET seq  == inSeq \/ type.sequence
            null == inNull \/ type.nullable
            OfMember(d, member) ==
              LET at == Append(path, member.name)
                  Within(t, p) == handles[t, p, seq, Absent(null, member), visiting \cup {d}]
              IN  IF member.skip THEN <<>>
                  ELSE FlattenSeq([i \in DOMAIN member.arms |-> Within(TypeOf(member.arms[i]), Append(at, member.arms[i]))])
                       \o Within(member.type, at)
            Of(id) ==
              IF id \in s.handles
              THEN IF Stored(type, inSeq)
                   THEN << [handle |-> id, path |-> path, sequence |-> seq, nullable |-> null] >>
                   ELSE <<>>
              ELSE IF id \in visiting THEN <<>>
              ELSE IF id \in DOMAIN s.dicts
              THEN FlattenSeq([i \in DOMAIN s.dicts[id] |-> OfMember(id, s.dicts[id][i])])
              ELSE IF id \in DOMAIN s.alias THEN handles[s.alias[id], path, seq, null, visiting]
              ELSE <<>>
        IN  FlattenSeq([i \in DOMAIN type.ids |-> Of(type.ids[i])])
  IN  handles
DictionaryHandles(s, d) == TypeHandles(s)[TypeOf(d), <<>>, FALSE, FALSE, {}]

(***************************************************************************)
(* derived_retention.                                                      *)
(***************************************************************************)
\* The last name if no other handle has it, the whole path otherwise; all handles of an
\* interface that are in sequences share a field.
FieldName(found, h) ==
  IF h.sequence THEN <<"all", h.handle>>
  ELSE IF Cardinality({i \in DOMAIN found : Last(found[i].path) = Last(h.path)}) > 1 THEN h.path
  ELSE << Last(h.path) >>

\* An enum value in place of the handle leaves the handle null.
EnumInstead(s, d, h) ==
  \E i \in DOMAIN s.dicts[d] : /\ s.dicts[d][i].orEnum
                               /\ h.handle \in Range(s.dicts[d][i].type.ids)
                               /\ Last(h.path) = s.dicts[d][i].name

Derived(s, d) ==
  LET found == DictionaryHandles(s, d)
      Entry(h) == [field |-> FieldName(found, h), handle |-> h.handle, sequence |-> h.sequence,
                   nullable |-> h.nullable \/ EnumInstead(s, d, h), source |-> "descriptor"]
      Keep(kept, h) == IF \E i \in DOMAIN kept : kept[i].field = FieldName(found, h)
                       THEN kept ELSE Append(kept, Entry(h))
  IN  FoldLeft(Keep, <<>>, found)

Fields(entries) == {entries[i].field : i \in DOMAIN entries}

\* In the order of the captures, the extensions last.
DerivedRetention(s, itf) ==
  LET derived  == Derived(s, s.descriptor[itf])
      added    == s.extensions[itf]
      captured == SelectSeq(s.captures[itf], LAMBDA f : f \notin Fields(added))
  IN  IF Range(captured) # Fields(derived) THEN Rejected
      ELSE [k \in DOMAIN captured |-> CHOOSE e \in Range(derived) : e.field = captured[k]] \o added

\* standard_interfaces: a creator that is not the device is kept too, first.
Retains(s, itf) ==
  LET rest == DerivedRetention(s, itf)
      c    == s.creator[itf]
  IN  IF rest = Rejected \/ c = "GPUDevice" THEN rest
      ELSE << [field |-> <<c>>, handle |-> c, sequence |-> FALSE, nullable |-> FALSE,
               source |-> "creator"] >> \o rest

(***************************************************************************)
(* What the plan should be, said without walking the dictionaries: a chain *)
(* of members, from the descriptor through dictionaries that are not       *)
(* repeated, to a handle.                                                  *)
(***************************************************************************)
Named(s, member) ==
  UNION {IF id \in DOMAIN s.alias THEN Range(s.alias[id].ids) ELSE {id} : id \in Range(member.type.ids)}
Steps(s) ==
  UNION {UNION {{[dict |-> d, member |-> member, id |-> id, arm |-> FALSE] : id \in Named(s, member)}
                \cup {[dict |-> d, member |-> member, id |-> id, arm |-> TRUE] : id \in Range(member.arms)} :
                member \in {m \in Range(s.dicts[d]) : ~m.skip}} : d \in DOMAIN s.dicts}
Chains(s, d, depth) ==
  {c \in UNION {[1 .. n -> Steps(s)] : n \in 1 .. depth} :
     /\ c[1].dict = d /\ c[Len(c)].id \in s.handles
     /\ \A i \in 1 .. Len(c) - 1 : ~c[i].arm /\ c[i].id = c[i + 1].dict
     /\ \A i, j \in DOMAIN c : i # j => c[i].dict # c[j].dict}
InSequence(c) == \E i \in DOMAIN c : c[i].member.type.sequence /\ ~c[i].arm
\* A sequence of handles that is itself in no sequence belongs to native.
NativeOwned(c) == /\ c[Len(c)].member.type.sequence /\ ~c[Len(c)].arm
                  /\ \A i \in 1 .. Len(c) - 1 : ~c[i].member.type.sequence
MayBeNull(c) == \E i \in DOMAIN c : c[i].member.optional \/ c[i].member.type.nullable \/ c[i].member.orEnum

\* An accepted plan keeps every handle the descriptor can carry to native, and no other; a handle
\* that may be missing is null-checked; the fields have different names.
Complete(s, itf, depth) ==
  LET plan   == Retains(s, itf)
      chains == {c \in Chains(s, s.descriptor[itf], depth) : ~NativeOwned(c)}
      Keeps(e, c) == /\ e.handle = c[Len(c)].id /\ e.sequence = InSequence(c)
                     /\ MayBeNull(c) => e.nullable \/ e.sequence
  IN  plan # Rejected =>
        /\ \A c \in chains : \E e \in Range(plan) : e.source = "descriptor" /\ Keeps(e, c)
        /\ \A e \in Range(plan) : e.source = "descriptor" =>
             \E c \in chains : e.handle = c[Len(c)].id /\ e.sequence = InSequence(c)
        /\ Cardinality(Fields(plan)) = Len(plan)
        /\ s.creator[itf] # "GPUDevice" => plan[1].handle = s.creator[itf]
        \* Two handles of their own at two places have two fields.
        /\ Cardinality({c \in chains : ~InSequence(c)})
             = Cardinality({i \in DOMAIN plan : plan[i].source = "descriptor" /\ ~plan[i].sequence})
=============================================================================
