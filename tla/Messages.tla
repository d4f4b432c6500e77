------------------------------ MODULE Messages ------------------------------
(***************************************************************************)
(* getCompilationInfo: native's messages about a shader, which count in    *)
(* bytes of UTF-8, become frozen objects of script, which count in UTF-16  *)
(* code units.  A character is a member of Alphabet with the two widths it *)
(* has; an offset into the source is a number of characters once it has    *)
(* been moved down to a character boundary.                                *)
(***************************************************************************)
EXTENDS Integers, Sequences, SequencesExt, FiniteSetsExt, TLC

CONSTANTS
  Alphabet,    \* bound: the characters a source is made of, among those of Utf8 below
  MaxChars,    \* bound: how long a source is
  Tails        \* bound: the second messages native reports

Message == [type : STRING, offset : Nat, length : Nat, lineNum : Nat, linePos : Int]
ASSUME MessagesAssumption == \A tail \in Tails : tail \in Seq(Message)

Utf8 == [x |-> 1, lf |-> 1, vt |-> 1, cr |-> 1, nel |-> 2, ls |-> 3, ideograph |-> 3, emoji |-> 4]
Utf16 == [x |-> 1, lf |-> 1, vt |-> 1, cr |-> 1, nel |-> 1, ls |-> 1, ideograph |-> 1, emoji |-> 2]
Breaks == {"lf", "vt", "cr", "nel", "ls"}

VARIABLES
  code,     \* the code the module was created from
  kept,       \* ShaderModulePayload.source
  reported,   \* what native calls back with
  request,    \* idle, asked, answered, fulfilled, rejected
  copied,     \* SettlementRequest::CompilationInfo, or the error
  made        \* GPUCompilationInfo.messages

messagesVars == <<code, kept, reported, request, copied, made>>

(***************************************************************************)
(* Positions.  A place in a source is the number of characters before it.  *)
(***************************************************************************)
Width(s, from, to, width) == FoldLeft(LAMBDA n, c : n + width[c], 0, SubSeq(s, from + 1, to))
ByteOffset(s, k)          == Width(s, 0, k, Utf8)

\* clamp_utf8_byte_offset
ClampUtf8ByteOffset(s, offset) == Max({k \in 0 .. Len(s) : ByteOffset(s, k) <= offset})

\* utf16_code_units of s[from .. to]
Utf16CodeUnits(s, from, to) == Width(s, from, to, Utf16)

\* The characters a line ends before, and where the next line starts: CR LF is one break.
IsCrLf(s, i)     == s[i] = "cr" /\ i < Len(s) /\ s[i + 1] = "lf"
LineEnds(s)      == {i \in DOMAIN s : s[i] \in Breaks /\ ~(i > 1 /\ IsCrLf(s, i - 1))}
StartAfter(s, i) == IF IsCrLf(s, i) THEN i + 1 ELSE i

\* wgsl_line_range: a line past the last is the last.
WgslLineRange(s, line) ==
  LET ends  == SetToSortSeq(LineEnds(s), <)
      n     == Min({Max({line, 1}), Len(ends) + 1})
  IN  [start |-> IF n = 1 THEN 0 ELSE StartAfter(s, ends[n - 1]),
       end   |-> IF n > Len(ends) THEN Len(s) ELSE ends[n] - 1]

\* utf16_line_position
Utf16LinePosition(s, line, pos) ==
  IF line = 0 \/ pos = 0 THEN 0
  ELSE LET range == WgslLineRange(s, line)
           at    == ClampUtf8ByteOffset(s, ByteOffset(s, range.start) + pos - 1)
       IN  Utf16CodeUnits(s, range.start, Min({at, range.end})) + 1

\* As if a character were as wide in script as in native.
BytesMessageSpan(s, offset, length) ==
  [offset |-> Min({offset, ByteOffset(s, Len(s))}), length |-> length]
\* utf16_message_span
Utf16MessageSpan(s, offset, length) ==
  LET start == ClampUtf8ByteOffset(s, offset)
      end   == ClampUtf8ByteOffset(s, offset + length)
  IN  [offset |-> Utf16CodeUnits(s, 0, start), length |-> Utf16CodeUnits(s, start, end)]

(***************************************************************************)
(* Native, as src/ uses it: it names a byte, and a line and a byte of that *)
(* line, each counted from 1; 0 is no place.  Its two ways of naming a     *)
(* place agree, or it gives a line that is not there.                      *)
(***************************************************************************)
NativeLine(s, offset) ==
  LET k == ClampUtf8ByteOffset(s, offset)
      line == Cardinality({i \in LineEnds(s) : StartAfter(s, i) <= k}) + 1
  IN  [lineNum |-> line, linePos |-> offset - ByteOffset(s, WgslLineRange(s, line).start) + 1]
NoLine      == [lineNum |-> 0, linePos |-> 0]
PastTheEnd(s) == [lineNum |-> Len(s) + 2, linePos |-> 1]

Report(s) ==
  {[type |-> "error", offset |-> o, length |-> l, lineNum |-> p.lineNum, linePos |-> p.linePos] :
     o \in 0 .. ByteOffset(s, Len(s)) + 1, l \in {0, 1, 2, 4}, p \in {NoLine, PastTheEnd(s)}}
  \cup {[type |-> "error", offset |-> o, length |-> l] @@ NativeLine(s, o) : o \in 0 .. ByteOffset(s, Len(s)), l \in {0, 3}}
Nothing  == [status |-> "none"]
Statuses == {"success", "cancelled", "error"}

(***************************************************************************)
(* The request.                                                            *)
(***************************************************************************)
MessagesInit ==
  /\ code \in UNION {[1 .. n -> Alphabet] : n \in 0 .. MaxChars}
  /\ kept = <<>> /\ reported = Nothing /\ request = "idle" /\ copied = <<>> /\ made = <<>>

\* shader_module_source_to_owned, of the chain createShaderModule makes for `code'.
MakeModule ==
  /\ request = "idle" /\ request' = "created" /\ kept' = code
  /\ UNCHANGED <<code, reported, copied, made>>

AskForInfo ==
  /\ request = "created" /\ request' = "asked"
  /\ UNCHANGED <<code, kept, reported, copied, made>>

\* compilation_info_callback and copy_compilation_messages: a null structure, or a null list that is
\* said to have messages, is an error, and so is a message of no known type, with all the others.
CopyMessage(s, message) ==
  [type |-> message.type, lineNum |-> message.lineNum,
   linePos |-> Utf16LinePosition(s, message.lineNum, message.linePos)]
     @@ Utf16MessageSpan(s, message.offset, message.length)
Types == {"error", "warning", "info"}
CompilationInfoCallback(answer) ==
  /\ request = "asked" /\ reported' = answer
  /\ IF answer.status = "success" /\ answer.null = "nothing"
        /\ \A i \in DOMAIN answer.messages : answer.messages[i].type \in Types
     THEN /\ request' = "copied" /\ copied' = [i \in DOMAIN answer.messages |-> CopyMessage(kept, answer.messages[i])]
     ELSE /\ request' = "failed" /\ UNCHANGED copied
  /\ UNCHANGED <<code, kept, made>>

\* The settlement: new_compilation_info, one object after the other, then the array, which is frozen,
\* then the object that holds it.  Any of them may throw, and the promise is rejected with it.
NewMessage ==
  /\ request = "copied" /\ Len(made) < Len(copied)
  /\ \/ made' = Append(made, copied[Len(made) + 1]) /\ UNCHANGED request
     \/ request' = "rejected" /\ UNCHANGED made
  /\ UNCHANGED <<code, kept, reported, copied>>
NewInfo ==
  /\ request = "copied" /\ Len(made) = Len(copied) /\ request' \in {"fulfilled", "rejected"}
  /\ UNCHANGED <<code, kept, reported, copied, made>>
Reject ==
  /\ request = "failed" /\ request' = "rejected"
  /\ UNCHANGED <<code, kept, reported, copied, made>>

\* GPUCompilationInfo.messages, and the getters of a message.
Shown == made

Answers ==
  {[status |-> s, null |-> n, messages |-> <<>>] : s \in Statuses, n \in {"nothing", "structure", "list"}}
MessagesNext ==
  \/ MakeModule \/ AskForInfo
  \/ \E answer \in Answers : CompilationInfoCallback(answer)
  \/ /\ request = "asked"
     /\ \E first \in Report(kept), rest \in Tails :
          CompilationInfoCallback([status |-> "success", null |-> "nothing", messages |-> <<first>> \o rest])
  \/ NewMessage \/ NewInfo \/ Reject

MessagesSpec == MessagesInit /\ [][MessagesNext]_messagesVars

(***************************************************************************)
(* Properties.                                                             *)
(***************************************************************************)
\* The reference: the source as script has it, one entry a code unit, and the place of each unit in it.
Text(s) == FlattenSeq([i \in DOMAIN s |-> [u \in 1 .. Utf16[s[i]] |-> <<s[i], u>>]])
LineStarts(text) ==
  {0} \cup {u \in DOMAIN text :
              text[u][1] \in Breaks /\ ~(text[u][1] = "cr" /\ u < Len(text) /\ text[u + 1][1] = "lf")}
Place(text, unit) ==
  LET starts == {u \in LineStarts(text) : u <= unit}
  IN  [lineNum |-> Cardinality(starts), linePos |-> unit - Max(starts) + 1]

\* A message's span starts and ends between two characters of the source script passed, and never
\* between the halves of one.
OnCharacters(text, message) ==
  \A u \in {message.offset, message.offset + message.length} :
    /\ u <= Len(text)
    /\ u < Len(text) => text[u + 1][2] = 1

\* Where native named a place of the source both ways, so does the message: its line and its offset are
\* one place.  A place in the middle of CR LF, of which no line has a position, is the line's end.
SamePlace(s, message, native) ==
  LET k == ClampUtf8ByteOffset(s, native.offset)
  IN  IF k > 0 /\ k < Len(s) /\ IsCrLf(s, k)
      THEN Place(Text(s), message.offset - 1) = [lineNum |-> message.lineNum, linePos |-> message.linePos]
      ELSE Place(Text(s), message.offset) = [lineNum |-> message.lineNum, linePos |-> message.linePos]

\* The promise of getCompilationInfo is fulfilled with one message for each of native's, in their order,
\* each about the same characters of the code, and with none that native's answer does not carry.
MessagesPointAtSource ==
  request = "fulfilled" =>
    /\ reported.status = "success" /\ Len(Shown) = Len(reported.messages)
    /\ \A i \in DOMAIN Shown :
         LET native == reported.messages[i]
             place  == [lineNum |-> native.lineNum, linePos |-> native.linePos]
         IN  /\ Shown[i].type = native.type /\ Shown[i].lineNum = native.lineNum
             /\ OnCharacters(Text(code), Shown[i])
             /\ place = NoLine => Shown[i].linePos = 0
             /\ native.offset <= ByteOffset(code, Len(code)) /\ place = NativeLine(code, native.offset)
                  => SamePlace(code, Shown[i], native)
=============================================================================
