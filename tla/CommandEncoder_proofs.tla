----------------------- MODULE CommandEncoder_proofs -----------------------
(***************************************************************************)
(* Proofs about CommandEncoder, for any sets of encoders, passes and       *)
(* command buffers and any depth of re-entrant calls.                      *)
(***************************************************************************)
EXTENDS CommandEncoder, TLAPS

(* A command buffer comes from an encoder that has ended.                  *)
BuffersFromEnded ==
    \A b \in CmdBuffers :
       IF cmdBuffer[b] = "unused" THEN source[b] = None
                                  ELSE source[b] \in Encoders /\ ended[source[b]]

(* What the backend's queue was given is consumed.                         *)
SubmittedConsumed == \A i \in DOMAIN submitted : consumed[submitted[i]]

(* Until it ends, an encoder with a dropped command holds an error.        *)
DroppedPending == \A e \in dropped : ended[e] \/ pendingError[e]

(* The types the invariant needs.                                          *)
Types ==
    /\ ended \in [Encoders -> BOOLEAN]
    /\ pendingError \in [Encoders -> BOOLEAN]
    /\ cmdBuffer \in [CmdBuffers -> {"unused", "valid", "invalid"}]
    /\ source \in [CmdBuffers -> Encoders \cup {None}]
    /\ consumed \in [CmdBuffers -> BOOLEAN]
    /\ frames \in Seq(Frame)
    /\ dropped \in SUBSET Encoders
    /\ reported \in SUBSET Encoders
    /\ submitted \in Seq(CmdBuffers)

EncoderInv ==
    /\ Types
    /\ BuffersFromEnded
    /\ SubmittedConsumed
    /\ DroppedPending
    /\ FinishedOnce
    /\ SubmittedOnce
    /\ DroppedPoisons

(* The call on top of the stack, when it is of an encoder, names one.      *)
LEMMA TopFrame ==
    ASSUME Types, NEW op \in {"command", "beginPass"}, Returning(op)
    PROVE  /\ frames[Len(frames)].encoder \in Encoders
           /\ SubSeq(frames, 1, Len(frames) - 1) \in Seq(Frame)
<1>1. Len(frames) \in Nat /\ Len(frames) # 0
  BY DEF Types, Returning
<1>2. frames[Len(frames)] \in Frame /\ frames[Len(frames)].op = op
  BY <1>1 DEF Types, Returning
<1>3. frames[Len(frames)].encoder \in Encoders
  BY <1>2 DEF Frame
<1>4. SubSeq(frames, 1, Len(frames) - 1) \in Seq(Frame)
  BY <1>1 DEF Types
<1> QED
  BY <1>3, <1>4

(* A step that ends no encoder, makes no buffer, submits nothing and       *)
(* forgets no error keeps the invariant, whatever it does to the passes.   *)
LEMMA Harmless ==
    ASSUME EncoderInv, Types',
           UNCHANGED <<ended, bufferVars, dropped, reported, submitted>>,
           \A e \in Encoders : pendingError[e] => pendingError'[e]
    PROVE  EncoderInv'
<1> USE DEF bufferVars
<1>1. BuffersFromEnded' /\ SubmittedConsumed'
  BY DEF EncoderInv, BuffersFromEnded, SubmittedConsumed
<1>2. DroppedPending'
  BY DEF EncoderInv, DroppedPending, Types
<1>3. FinishedOnce' /\ SubmittedOnce' /\ DroppedPoisons'
  BY DEF EncoderInv, FinishedOnce, SubmittedOnce, DroppedPoisons
<1> QED
  BY <1>1, <1>2, <1>3 DEF EncoderInv

(* Dropping a command while the encoder has not ended.                     *)
LEMMA Dropping ==
    ASSUME EncoderInv, NEW e \in Encoders, ~ended[e],
           pendingError' = [pendingError EXCEPT ![e] = TRUE],
           dropped' = dropped \cup {e},
           UNCHANGED <<ended, bufferVars, frames, reported, submitted>>
    PROVE  EncoderInv'
<1> USE DEF bufferVars
<1>1. Types'
  BY DEF EncoderInv, Types
<1>2. BuffersFromEnded' /\ SubmittedConsumed' /\ FinishedOnce' /\ SubmittedOnce'
  BY DEF EncoderInv, BuffersFromEnded, SubmittedConsumed, FinishedOnce, SubmittedOnce
<1>3. DroppedPending'
  BY DEF EncoderInv, DroppedPending, Types
<1>4. \A b \in CmdBuffers : source[b] # e
  BY ConstantsAssumption DEF EncoderInv, BuffersFromEnded
<1>5. DroppedPoisons'
  BY <1>4 DEF EncoderInv, DroppedPoisons
<1> QED
  BY <1>1, <1>2, <1>3, <1>5 DEF EncoderInv

(* finish(): the encoder ends.  It yields a valid buffer only when it had  *)
(* not ended, and never when a command was dropped.                        *)
LEMMA Finishing ==
    ASSUME EncoderInv, NEW e \in Encoders, NEW b \in CmdBuffers, NEW v \in {"valid", "invalid"},
           FinishEncoder(e), UNCHANGED <<frames, dropped, submitted>>,
           NewBuffer(e, b, v) \/ UNCHANGED bufferVars,
           v = "valid" => ~ended[e] /\ ~pendingError[e],
           reported' = IF v = "valid" THEN reported ELSE reported \cup {e}
    PROVE  EncoderInv'
<1> USE DEF bufferVars, EncoderInv
<1>1. /\ ended' = [ended EXCEPT ![e] = TRUE]
      /\ pendingError' = [pendingError EXCEPT ![e] = FALSE]
  BY DEF FinishEncoder
<1>2. Types'
  BY <1>1 DEF Types, NewBuffer
<1>3. BuffersFromEnded'
  <2>1. \A f \in Encoders : ended[f] => ended'[f]
    BY <1>1 DEF Types
  <2>2. ended'[e]
    BY <1>1 DEF Types
  <2>3. CASE UNCHANGED bufferVars
    BY <2>1, <2>3 DEF BuffersFromEnded
  <2>4. CASE NewBuffer(e, b, v)
    BY <2>1, <2>2, <2>4 DEF BuffersFromEnded, NewBuffer, Types
  <2> QED
    BY <2>3, <2>4
<1>4. SubmittedConsumed'
  BY DEF SubmittedConsumed, NewBuffer
<1>5. SubmittedOnce'
  <2>1. \A c \in CmdBuffers : cmdBuffer[c] = "valid" => cmdBuffer'[c] = "valid"
    BY DEF NewBuffer, Types
  <2> QED
    BY <2>1 DEF SubmittedOnce, Types
<1>6. DroppedPending'
  BY <1>1 DEF DroppedPending, Types
<1>7. ~ended[e] => \A c \in CmdBuffers : source[c] # e
  BY ConstantsAssumption DEF BuffersFromEnded
<1>8. FinishedOnce'
  <2>1. CASE UNCHANGED bufferVars
    BY <2>1 DEF FinishedOnce
  <2>2. CASE NewBuffer(e, b, v)
    <3>1. \A c \in CmdBuffers :
             c # b => cmdBuffer'[c] = cmdBuffer[c] /\ source'[c] = source[c]
      BY <2>2 DEF NewBuffer, Types
    <3>2. cmdBuffer'[b] = v /\ source'[b] = e
      BY <2>2 DEF NewBuffer, Types
    <3> QED
      BY <1>7, <3>1, <3>2 DEF FinishedOnce
  <2> QED
    BY <2>1, <2>2
<1>9. DroppedPoisons'
  <2> SUFFICES ASSUME NEW d \in dropped
               PROVE  /\ \A c \in CmdBuffers : source'[c] = d => cmdBuffer'[c] = "invalid"
                      /\ ended'[d] => d \in reported'
    BY DEF DroppedPoisons
  <2>1. d \in Encoders /\ (d = e => v = "invalid" \/ ended[e])
    BY DEF DroppedPending, Types
  <2>2. d = e => v = "invalid"
    BY <2>1
  <2>3. ended'[d] => d \in reported'
    BY <1>1, <2>1, <2>2 DEF DroppedPoisons, Types
  <2>4. \A c \in CmdBuffers : source'[c] = d => cmdBuffer'[c] = "invalid"
    <3>1. CASE UNCHANGED bufferVars
      BY <3>1 DEF DroppedPoisons
    <3>2. CASE NewBuffer(e, b, v)
      BY <2>2, <3>2 DEF DroppedPoisons, NewBuffer, Types
    <3> QED
      BY <3>1, <3>2
  <2> QED
    BY <2>3, <2>4
<1> QED
  BY <1>2, <1>3, <1>4, <1>5, <1>6, <1>8, <1>9

(* submit(): what reaches the queue was neither consumed nor given twice.  *)
LEMMA Submitting ==
    ASSUME EncoderInv, NEW cmds \in Lists, Submit(cmds)
    PROVE  EncoderInv'
<1> USE DEF EncoderInv, encoderVars
<1>1. PICK n \in 0 .. MaxSubmit : cmds \in [1 .. n -> CmdBuffers]
  BY DEF Lists
<1>2. cmds \in Seq(CmdBuffers) /\ Len(cmds) = n /\ DOMAIN cmds = 1 .. n
  BY <1>1, ConstantsAssumption
<1>3. \A b \in CmdBuffers : consumed'[b] <=> consumed[b] \/ \E i \in DOMAIN cmds : cmds[i] = b
  BY DEF Submit
<1>4. submitted' = submitted \/ (Submittable(cmds) /\ submitted' = submitted \o cmds)
  BY DEF Submit
<1>5. submitted \o cmds \in Seq(CmdBuffers)
  BY <1>2 DEF Types
<1>6. consumed' \in [CmdBuffers -> BOOLEAN]
  BY Zenon DEF Submit
<1>7. Types'
  BY <1>4, <1>5, <1>6 DEF Submit, Types
<1>8. \A i \in DOMAIN submitted' :
         \/ i \in DOMAIN submitted /\ submitted'[i] = submitted[i]
         \/ /\ Submittable(cmds)
            /\ i - Len(submitted) \in DOMAIN cmds
            /\ submitted'[i] = cmds[i - Len(submitted)]
  <2>1. CASE submitted' = submitted
    BY <2>1
  <2>2. CASE Submittable(cmds) /\ submitted' = submitted \o cmds
    <3>1. submitted \in Seq(CmdBuffers)
      BY DEF Types
    <3>2. \A i \in DOMAIN submitted' : i \in 1 .. Len(submitted) + Len(cmds)
      BY <1>2, <2>2, <3>1
    <3>3. \A i \in 1 .. Len(submitted) + Len(cmds) :
             submitted'[i] = IF i <= Len(submitted) THEN submitted[i]
                                                    ELSE cmds[i - Len(submitted)]
      BY <1>2, <2>2, <3>1
    <3>4. DOMAIN submitted = 1 .. Len(submitted) /\ Len(submitted) \in Nat
      BY <3>1
    <3> QED
      BY <1>2, <2>2, <3>2, <3>3, <3>4
  <2> QED
    BY <1>4, <2>1, <2>2
<1>9. SubmittedConsumed'
  <2> SUFFICES ASSUME NEW i \in DOMAIN submitted' PROVE consumed'[submitted'[i]]
    BY DEF SubmittedConsumed
  <2>1. submitted'[i] \in CmdBuffers
    BY <1>7 DEF Types
  <2>2. consumed[submitted'[i]] \/ \E j \in DOMAIN cmds : cmds[j] = submitted'[i]
    BY <1>8 DEF SubmittedConsumed
  <2> QED
    BY <1>3, <2>1, <2>2
<1>10. SubmittedOnce'
  <2>1. \A i \in DOMAIN submitted' : cmdBuffer'[submitted'[i]] = "valid"
    BY <1>8 DEF Submit, SubmittedOnce, Submittable
  <2>2. ASSUME NEW i \in DOMAIN submitted', NEW j \in DOMAIN submitted',
               submitted'[i] = submitted'[j]
        PROVE  i = j
    <3>1. CASE i \in DOMAIN submitted /\ submitted'[i] = submitted[i]
      <4>1. consumed[submitted[i]]
        BY <3>1 DEF SubmittedConsumed
      <4>2. j \in DOMAIN submitted /\ submitted'[j] = submitted[j]
        <5>1. \A k \in DOMAIN cmds : Submittable(cmds) => ~consumed[cmds[k]]
          BY DEF Submittable
        <5> QED
          BY <1>8, <2>2, <3>1, <4>1, <5>1
      <4> QED
        BY <2>2, <3>1, <4>2 DEF SubmittedOnce
    <3>2. CASE /\ Submittable(cmds)
               /\ i - Len(submitted) \in DOMAIN cmds
               /\ submitted'[i] = cmds[i - Len(submitted)]
      <4>1. ~consumed[submitted'[i]]
        BY <3>2 DEF Submittable
      <4>2. /\ j - Len(submitted) \in DOMAIN cmds
            /\ submitted'[j] = cmds[j - Len(submitted)]
        BY <1>8, <2>2, <4>1 DEF SubmittedConsumed
      <4>3. i - Len(submitted) = j - Len(submitted)
        BY <2>2, <3>2, <4>2 DEF Submittable
      <4>4. i \in Nat /\ j \in Nat /\ Len(submitted) \in Nat
        BY <1>7 DEF Types
      <4> QED
        BY <4>3, <4>4
    <3> QED
      BY <1>8, <3>1, <3>2
  <2> QED
    BY <2>1, <2>2 DEF SubmittedOnce
<1>11. BuffersFromEnded' /\ FinishedOnce' /\ DroppedPending' /\ DroppedPoisons'
  BY DEF Submit, BuffersFromEnded, FinishedOnce, DroppedPending, DroppedPoisons
<1> QED
  BY <1>7, <1>9, <1>10, <1>11

(* One step keeps the invariant.                                           *)
LEMMA EncoderStep == EncoderInv /\ [Next]_vars => EncoderInv'
<1> SUFFICES ASSUME EncoderInv, [Next]_vars PROVE EncoderInv'
  OBVIOUS
<1>0. Types
  BY DEF EncoderInv
<1> USE DEF encoderVars, passVars, bufferVars, nativeVars
<1>1. ASSUME UNCHANGED <<ended, pendingError, bufferVars, dropped, reported, submitted>>,
             frames' \in Seq(Frame)
      PROVE  EncoderInv'
  BY <1>0, <1>1, Harmless DEF Types
<1>2. ASSUME NEW e \in Encoders, Command(e) \/ BeginPass(e) PROVE EncoderInv'
  <2>1. \A op \in {"command", "beginPass"} :
           Append(frames, [op |-> op, encoder |-> e]) \in Seq(Frame)
    BY <1>0 DEF Types, Frame
  <2> QED
    BY <1>1, <1>2, <2>1 DEF Command, BeginPass, Push
<1>3. ASSUME NEW e \in Encoders, CommandWhileLocked(e) PROVE EncoderInv'
  BY <1>3, Dropping DEF CommandWhileLocked
<1>4. ASSUME NEW p \in Passes, PassCommand(p) PROVE EncoderInv'
  <2>1. Append(frames, [op |-> "passCommand", pass |-> p]) \in Seq(Frame)
    BY <1>0 DEF Types, Frame
  <2> QED
    BY <1>1, <1>4, <2>1 DEF PassCommand, Push
<1>5. ASSUME NEW p \in Passes, ExecuteBundles(p) \/ EndPass(p) \/ EndInvalidPass(p)
      PROVE  EncoderInv'
  BY <1>0, <1>1, <1>5 DEF ExecuteBundles, EndPass, EndInvalidPass, Types
<1>6. CASE BeginPassReturnsNull \/ \E p \in Passes : BeginPassReturns(p)
  <2> DEFINE e == frames[Len(frames)].encoder
  <2>1. Returning("beginPass") /\ frames' = SubSeq(frames, 1, Len(frames) - 1)
    BY <1>6 DEF BeginPassReturns, BeginPassReturnsNull, Pop
  <2>2. e \in Encoders /\ frames' \in Seq(Frame)
    BY <1>0, <2>1, TopFrame
  <2>3. UNCHANGED <<ended, bufferVars, dropped, reported, submitted>> /\ DepthSliceError(e)
    BY <1>6 DEF BeginPassReturns, BeginPassReturnsNull
  <2>4. /\ pendingError' \in [Encoders -> BOOLEAN]
        /\ \A d \in Encoders : pendingError[d] => pendingError'[d]
    BY <1>0, <2>2, <2>3 DEF DepthSliceError, Types
  <2>5. Types'
    BY <1>0, <2>2, <2>3, <2>4 DEF Types
  <2> QED
    BY <2>3, <2>4, <2>5, Harmless
<1>7. ASSUME NEW e \in Encoders, NEW p \in Passes, BeginPassRefused(e, p) PROVE EncoderInv'
  <2>1. CASE UNCHANGED <<pendingError, dropped>>
    BY <1>0, <1>1, <1>7, <2>1 DEF BeginPassRefused, Types
  <2>2. CASE ~ended[e] /\ pendingError' = [pendingError EXCEPT ![e] = TRUE]
             /\ dropped' = dropped \cup {e}
    BY <1>7, <2>2, Dropping DEF BeginPassRefused
  <2> QED
    BY <1>7, <2>1, <2>2 DEF BeginPassRefused
<1>8. ASSUME NEW e \in Encoders, NEW b \in CmdBuffers, FinishInvalid(e, b) PROVE EncoderInv'
  BY <1>8, Finishing DEF FinishInvalid
<1>9. ASSUME NEW e \in Encoders, NEW b \in CmdBuffers, FinishValid(e, b) PROVE EncoderInv'
  BY <1>9, Finishing DEF FinishValid
<1>10. ASSUME NEW cmds \in Lists, Submit(cmds) PROVE EncoderInv'
  BY <1>10, Submitting
<1>11. CASE ConversionThrows \/ CommandReturns \/ PassCommandReturns
  <2>1. SubSeq(frames, 1, Len(frames) - 1) \in Seq(Frame)
    <3>1. frames # <<>>
      BY <1>11 DEF ConversionThrows, CommandReturns, PassCommandReturns, Returning
    <3> QED
      BY <1>0, <3>1 DEF Types
  <2> QED
    BY <1>1, <1>11, <2>1 DEF ConversionThrows, CommandReturns, PassCommandReturns, Pop
<1>12. CASE UNCHANGED vars
  BY <1>0, <1>1, <1>12 DEF vars, Types
<1> QED
  BY <1>2, <1>3, <1>4, <1>5, <1>6, <1>7, <1>8, <1>9, <1>10, <1>11, <1>12 DEF Next, Step

(* Whatever script does inside the conversions of encoder, pass and queue  *)
(* methods: an encoder yields one command buffer at most, the queue takes  *)
(* each valid one at most once, and a dropped command is reported and      *)
(* keeps its encoder from yielding a valid one.                            *)
THEOREM ReentrantSafety == Spec => [](FinishedOnce /\ SubmittedOnce /\ DroppedPoisons)
<1>1. Init => EncoderInv
  <2> SUFFICES ASSUME Init PROVE EncoderInv
    OBVIOUS
  <2>1. Types /\ submitted = <<>> /\ dropped = {}
    BY DEF Init, Types
  <2>2. BuffersFromEnded /\ FinishedOnce
    BY DEF Init, BuffersFromEnded, FinishedOnce
  <2> QED
    BY <2>1, <2>2 DEF EncoderInv, SubmittedConsumed, DroppedPending, SubmittedOnce,
                      DroppedPoisons
<1>2. EncoderInv => FinishedOnce /\ SubmittedOnce /\ DroppedPoisons
  BY DEF EncoderInv
<1> QED
  BY <1>1, <1>2, EncoderStep, PTL DEF Spec

(* The backend hands out one command buffer per encoder, also when one     *)
(* finish() is made inside the conversion of another.                      *)
THEOREM OneCommandBuffer == Spec => []FinishedOnce
BY ReentrantSafety, PTL

(* A command dropped under an open pass is never lost in silence.          *)
THEOREM DroppedIsReported == Spec => []DroppedPoisons
BY ReentrantSafety, PTL

----------------------------------------------------------------------------
(* The checks.  What the invariant above says nothing of: the passes, the  *)
(* locks and what the backend has been told.                               *)
PassTypes ==
    /\ depth \in 1..MaxDepth
    /\ locked \in [Encoders -> BOOLEAN]
    /\ passWrapper \in [Passes -> {"unused", "valid", "invalid", "lost"}]
    /\ parent \in [Passes -> Encoders \cup {None}]
    /\ \A p \in Passes : passWrapper[p] # "unused" => parent[p] # None
    /\ passEnded \in [Passes -> BOOLEAN]
    /\ nativePass \in [Passes -> {"none", "open", "ended"}]
    /\ nativeFinished \in SUBSET Encoders
    /\ misuse \in SUBSET {"command", "passCommand", "executeBundles", "beginPass", "endPass",
                          "finish"}

(* A pass the binding takes for live is open in the backend, and one that  *)
(* has not been begun is unknown there.                                    *)
PassesOpen ==
    \A p \in Passes :
       /\ passWrapper[p] = "valid" /\ ~passEnded[p] => nativePass[p] = "open"
       /\ passWrapper[p] = "unused" => nativePass[p] = "none"

(* The backend finishes only encoders the binding has ended.               *)
FinishedEnded == \A e \in nativeFinished : ended[e]

(* With depth 1 the object of the one call under way is as the call's      *)
(* check found it.                                                         *)
ChecksFresh ==
    depth = 1 =>
       /\ Len(frames) \in {0, 1}
       /\ \A i \in DOMAIN frames :
             IF frames[i].op = "passCommand"
             THEN LivePass(frames[i].pass)
             ELSE ~ended[frames[i].encoder] /\ ~locked[frames[i].encoder]

(* With depth 1 an encoder has one pass open at a time, until it ends.     *)
OneOpenPass ==
    depth = 1 =>
       \A p, q \in Passes :
          /\ nativePass[p] = "open" /\ nativePass[q] = "open"
          /\ parent[p] = parent[q] /\ ~ended[parent[p]]
          => p = q

ChecksInv ==
    /\ Types /\ PassTypes
    /\ PassesOpen /\ FinishedEnded /\ ChecksFresh /\ OneOpenPass
    /\ LockAgrees /\ NoMisuse

(* With depth 1: script runs when nothing converts, and what converts is   *)
(* the only call.                                                          *)
LEMMA OneFrame ==
    ASSUME ChecksInv, depth = 1
    PROVE  /\ CanCall => frames = <<>>
           /\ frames # <<>> => Len(frames) = 1
           /\ frames # <<>> /\ Pop => frames' = <<>>
<1>1. Len(frames) \in {0, 1} /\ frames \in Seq(Frame)
  BY DEF ChecksInv, ChecksFresh, Types
<1>2. CanCall => frames = <<>>
  BY <1>1 DEF CanCall
<1>3. frames # <<>> => Len(frames) = 1
  BY <1>1
<1>4. frames # <<>> /\ Pop => frames' = <<>>
  BY <1>1, <1>3 DEF Pop
<1> QED
  BY <1>2, <1>3, <1>4

(* The encoder of a call that converts; with depth 1 it is as checked.     *)
LEMMA TopEncoder ==
    ASSUME ChecksInv, NEW op \in {"command", "beginPass"}, Returning(op)
    PROVE  LET e == frames[Len(frames)].encoder
           IN  /\ e \in Encoders
               /\ depth = 1 => ~ended[e] /\ ~locked[e]
<1>1. frames[Len(frames)].encoder \in Encoders
  BY TopFrame DEF ChecksInv
<1>2. ASSUME depth = 1 PROVE ~ended[frames[Len(frames)].encoder] /\ ~locked[frames[Len(frames)].encoder]
  <2>1. Len(frames) = 1 /\ frames \in Seq(Frame)
    BY <1>2, OneFrame DEF Returning, ChecksInv, Types
  <2>2. 1 \in DOMAIN frames /\ frames[1].op = op
    BY <2>1 DEF Returning
  <2> QED
    BY <1>2, <2>1, <2>2 DEF ChecksInv, ChecksFresh
<1> QED
  BY <1>1, <1>2

(* Its pass, likewise.                                                     *)
LEMMA TopPass ==
    ASSUME ChecksInv, Returning("passCommand")
    PROVE  LET p == frames[Len(frames)].pass
           IN  /\ p \in Passes
               /\ depth = 1 => LivePass(p)
<1>1. Len(frames) \in Nat /\ Len(frames) # 0 /\ frames \in Seq(Frame)
  BY DEF ChecksInv, Types, Returning
<1>2. frames[Len(frames)] \in Frame /\ frames[Len(frames)].op = "passCommand"
  BY <1>1 DEF Returning
<1>3. frames[Len(frames)].pass \in Passes
  BY <1>2 DEF Frame
<1>4. ASSUME depth = 1 PROVE LivePass(frames[Len(frames)].pass)
  <2>1. Len(frames) = 1
    BY <1>4, OneFrame DEF Returning
  <2>2. 1 \in DOMAIN frames
    BY <1>1, <2>1
  <2> QED
    BY <1>2, <1>4, <2>1, <2>2 DEF ChecksInv, ChecksFresh
<1> QED
  BY <1>3, <1>4

(* A pass the binding takes for live is one the backend takes commands of, *)
(* at any depth.                                                           *)
LEMMA LivePassTaken ==
    ASSUME ChecksInv, NEW p \in Passes, LivePass(p)
    PROVE  TakesPassCommands(p) /\ parent[p] \in Encoders
BY DEF ChecksInv, LivePass, TakesPassCommands, PassesOpen, FinishedEnded, PassTypes

(* With depth 1, an encoder found usable is one the backend takes commands *)
(* of.                                                                     *)
LEMMA UsableEncoderTaken ==
    ASSUME ChecksInv, depth = 1, NEW e \in Encoders, ~ended[e], ~locked[e]
    PROVE  TakesCommands(e)
BY DEF ChecksInv, TakesCommands, FinishedEnded, LockAgrees

(* Every variable keeps its type.                                          *)
LEMMA PassTypesStep == ChecksInv /\ [Next]_vars => PassTypes'
<1> SUFFICES ASSUME ChecksInv, [Next]_vars PROVE PassTypes'
  OBVIOUS
<1> USE DEF encoderVars, passVars, bufferVars, nativeVars
<1>1. PassTypes /\ depth' = depth
  BY DEF ChecksInv, Next, vars
<1>2. CASE UNCHANGED <<locked, passVars, nativePass, nativeFinished, misuse>>
  BY <1>1, <1>2 DEF PassTypes
<1>3. ASSUME NEW op \in {"command", "passCommand", "executeBundles", "beginPass", "endPass", "finish"},
             NEW taken \in BOOLEAN, Use(op, taken)
      PROVE  misuse' \in SUBSET {"command", "passCommand", "executeBundles", "beginPass", "endPass",
                                 "finish"}
  BY <1>1, <1>3 DEF PassTypes, Use
<1>4. ASSUME NEW p \in Passes, ExecuteBundles(p) PROVE PassTypes'
  BY <1>1, <1>3, <1>4 DEF ExecuteBundles, PassTypes, TakesPassCommands
<1>5. ASSUME NEW p \in Passes, EndPass(p) PROVE PassTypes'
  BY <1>1, <1>3, <1>5 DEF EndPass, PassTypes, TakesPassCommands
<1>6. ASSUME NEW p \in Passes, EndInvalidPass(p) PROVE PassTypes'
  BY <1>1, <1>6 DEF EndInvalidPass, PassTypes
<1>7. ASSUME NEW e \in Encoders, NEW p \in Passes, BeginPassRefused(e, p) PROVE PassTypes'
  BY <1>1, <1>7, ConstantsAssumption DEF BeginPassRefused, PassTypes
<1>8. ASSUME NEW p \in Passes, BeginPassReturns(p) PROVE PassTypes'
  <2>1. frames[Len(frames)].encoder \in Encoders
    BY <1>8, TopEncoder DEF BeginPassReturns
  <2>2. misuse' \in SUBSET {"command", "passCommand", "executeBundles", "beginPass", "endPass", "finish"}
    BY <1>3, <1>8 DEF BeginPassReturns, TakesCommands
  <2> QED
    BY <1>1, <1>8, <2>1, <2>2, ConstantsAssumption DEF BeginPassReturns, PassTypes
<1>9. CASE BeginPassReturnsNull
  <2>1. frames[Len(frames)].encoder \in Encoders
    BY <1>9, TopEncoder DEF BeginPassReturnsNull
  <2>2. misuse' \in SUBSET {"command", "passCommand", "executeBundles", "beginPass", "endPass", "finish"}
    BY <1>3, <1>9 DEF BeginPassReturnsNull, TakesCommands
  <2> QED
    BY <1>1, <1>9, <2>1, <2>2 DEF BeginPassReturnsNull, PassTypes
<1>10. ASSUME NEW e \in Encoders, NEW b \in CmdBuffers, FinishInvalid(e, b) \/ FinishValid(e, b)
       PROVE  PassTypes'
  <2>1. misuse' \in SUBSET {"command", "passCommand", "executeBundles", "beginPass", "endPass", "finish"}
    BY <1>1, <1>3, <1>10 DEF FinishInvalid, FinishValid, TakesCommands, PassTypes
  <2> QED
    BY <1>1, <1>10, <2>1 DEF FinishInvalid, FinishValid, FinishEncoder, PassTypes
<1>11. CASE CommandReturns \/ PassCommandReturns
  <2>1. misuse' \in SUBSET {"command", "passCommand", "executeBundles", "beginPass", "endPass", "finish"}
    BY <1>3, <1>11 DEF CommandReturns, PassCommandReturns, TakesCommands, TakesPassCommands
  <2> QED
    BY <1>1, <1>11, <2>1 DEF CommandReturns, PassCommandReturns, PassTypes
<1>12. CASE UNCHANGED vars
  BY <1>2, <1>12 DEF vars
<1>13. ASSUME NEW e \in Encoders, Command(e) \/ CommandWhileLocked(e) \/ BeginPass(e) PROVE PassTypes'
  BY <1>2, <1>13 DEF Command, CommandWhileLocked, BeginPass
<1>14. ASSUME NEW p \in Passes, PassCommand(p) PROVE PassTypes'
  BY <1>2, <1>14 DEF PassCommand
<1>15. ASSUME NEW cmds \in Lists, Submit(cmds) PROVE PassTypes'
  BY <1>2, <1>15 DEF Submit
<1>16. CASE ConversionThrows
  BY <1>2, <1>16 DEF ConversionThrows
<1> QED
  BY <1>4, <1>5, <1>6, <1>7, <1>8, <1>9, <1>10, <1>11, <1>12, <1>13, <1>14, <1>15, <1>16 DEF Next, Step

(* A live pass stays open until its end(): only begins and ends touch it.  *)
LEMMA PassesOpenStep == ChecksInv /\ [Next]_vars => PassesOpen'
<1> SUFFICES ASSUME ChecksInv, [Next]_vars PROVE PassesOpen'
  OBVIOUS
<1> USE DEF encoderVars, passVars, bufferVars, nativeVars
<1>1. PassTypes /\ PassesOpen
  BY DEF ChecksInv
<1>2. CASE UNCHANGED <<passVars, nativePass>>
  BY <1>1, <1>2 DEF PassesOpen
<1>3. ASSUME NEW p \in Passes, EndPass(p) \/ EndInvalidPass(p) PROVE PassesOpen'
  BY <1>1, <1>3 DEF PassesOpen, PassTypes, EndPass, EndInvalidPass, LivePass
<1>4. ASSUME NEW e \in Encoders, NEW p \in Passes, BeginPassRefused(e, p) PROVE PassesOpen'
  BY <1>1, <1>4 DEF PassesOpen, PassTypes, BeginPassRefused
<1>5. ASSUME NEW p \in Passes, BeginPassReturns(p) PROVE PassesOpen'
  BY <1>1, <1>5 DEF PassesOpen, PassTypes, BeginPassReturns
<1>6. CASE \E e \in Encoders : Command(e) \/ CommandWhileLocked(e) \/ BeginPass(e)
  BY <1>2, <1>6 DEF Command, CommandWhileLocked, BeginPass
<1>7. CASE \E p \in Passes : PassCommand(p) \/ ExecuteBundles(p)
  BY <1>2, <1>7 DEF PassCommand, ExecuteBundles
<1>8. CASE \E e \in Encoders, b \in CmdBuffers : FinishInvalid(e, b) \/ FinishValid(e, b)
  BY <1>2, <1>8 DEF FinishInvalid, FinishValid
<1>9. CASE \E cmds \in Lists : Submit(cmds)
  BY <1>2, <1>9 DEF Submit
<1>10. CASE ConversionThrows \/ CommandReturns \/ PassCommandReturns \/ BeginPassReturnsNull
  BY <1>2, <1>10 DEF ConversionThrows, CommandReturns, PassCommandReturns, BeginPassReturnsNull
<1>11. CASE UNCHANGED vars
  BY <1>2, <1>11 DEF vars
<1> QED
  BY <1>3, <1>4, <1>5, <1>6, <1>7, <1>8, <1>9, <1>10, <1>11 DEF Next, Step

(* Nothing takes back that an encoder has ended.                           *)
LEMMA FinishedEndedStep == ChecksInv /\ [Next]_vars => FinishedEnded'
<1> SUFFICES ASSUME ChecksInv, [Next]_vars PROVE FinishedEnded'
  OBVIOUS
<1> USE DEF encoderVars, passVars, bufferVars, nativeVars
<1>1. Types /\ PassTypes /\ FinishedEnded
  BY DEF ChecksInv
<1>2. CASE UNCHANGED <<ended, nativeFinished>>
  BY <1>1, <1>2 DEF FinishedEnded
<1>3. ASSUME NEW e \in Encoders, NEW b \in CmdBuffers, FinishInvalid(e, b) \/ FinishValid(e, b)
      PROVE  FinishedEnded'
  <2>1. ended' = [ended EXCEPT ![e] = TRUE] /\ nativeFinished' \subseteq nativeFinished \cup {e}
    BY <1>3 DEF FinishInvalid, FinishValid, FinishEncoder
  <2> QED
    BY <1>1, <2>1 DEF FinishedEnded, Types, PassTypes
<1>4. CASE \E e \in Encoders : Command(e) \/ CommandWhileLocked(e) \/ BeginPass(e)
  BY <1>2, <1>4 DEF Command, CommandWhileLocked, BeginPass
<1>5. CASE \E p \in Passes : \/ PassCommand(p) \/ ExecuteBundles(p) \/ BeginPassReturns(p)
                             \/ EndPass(p) \/ EndInvalidPass(p)
  BY <1>2, <1>5 DEF PassCommand, ExecuteBundles, BeginPassReturns, EndPass, EndInvalidPass
<1>6. CASE \E e \in Encoders, p \in Passes : BeginPassRefused(e, p)
  BY <1>2, <1>6 DEF BeginPassRefused
<1>7. CASE \E cmds \in Lists : Submit(cmds)
  BY <1>2, <1>7 DEF Submit
<1>8. CASE ConversionThrows \/ CommandReturns \/ PassCommandReturns \/ BeginPassReturnsNull
  BY <1>2, <1>8 DEF ConversionThrows, CommandReturns, PassCommandReturns, BeginPassReturnsNull
<1>9. CASE UNCHANGED vars
  BY <1>2, <1>9 DEF vars
<1> QED
  BY <1>3, <1>4, <1>5, <1>6, <1>7, <1>8, <1>9 DEF Next, Step

(* With depth 1 nothing happens between a check and its use.               *)
LEMMA ChecksFreshStep == ChecksInv /\ [Next]_vars => ChecksFresh'
<1> SUFFICES ASSUME ChecksInv, [Next]_vars, depth = 1 PROVE ChecksFresh'
  BY DEF ChecksFresh, Next, vars
<1> USE DEF encoderVars, passVars, bufferVars, nativeVars
<1>1. /\ CanCall => frames = <<>>
      /\ frames # <<>> /\ Pop => frames' = <<>>
  BY OneFrame
<1>2. CASE frames' = <<>>
  BY <1>2 DEF ChecksFresh
<1>3. ASSUME frames = <<>>, UNCHANGED frames PROVE ChecksFresh'
  BY <1>2, <1>3
<1>4. ASSUME NEW e \in Encoders, Command(e) \/ BeginPass(e) PROVE ChecksFresh'
  <2>1. PICK op \in {"command", "beginPass"} : frames' = << [op |-> op, encoder |-> e] >>
    <3>1. \A f : Append(<<>>, f) = << f >>
      OBVIOUS
    <3>2. CASE Command(e)
      BY <1>1, <3>1, <3>2 DEF Command, Push
    <3>3. CASE BeginPass(e)
      BY <1>1, <3>1, <3>3 DEF BeginPass, Push
    <3> QED
      BY <1>4, <3>2, <3>3
  <2>2. ~ended'[e] /\ ~locked'[e]
    BY <1>4 DEF Command, BeginPass
  <2>3. Len(frames') = 1 /\ DOMAIN frames' = {1} /\ frames'[1] = [op |-> op, encoder |-> e]
    BY <2>1
  <2> QED
    BY <2>2, <2>3 DEF ChecksFresh
<1>5. ASSUME NEW p \in Passes, PassCommand(p) PROVE ChecksFresh'
  <2>1. frames' = << [op |-> "passCommand", pass |-> p] >>
    BY <1>1, <1>5 DEF PassCommand, Push
  <2>2. LivePass(p)'
    BY <1>5 DEF PassCommand, LivePass
  <2>3. Len(frames') = 1 /\ DOMAIN frames' = {1} /\ frames'[1].op = "passCommand" /\ frames'[1].pass = p
    BY <2>1
  <2> QED
    BY <2>2, <2>3 DEF ChecksFresh
<1>6. CASE \E p \in Passes : ExecuteBundles(p) \/ EndPass(p) \/ EndInvalidPass(p)
  BY <1>1, <1>3, <1>6 DEF ExecuteBundles, EndPass, EndInvalidPass
<1>7. CASE \E p \in Passes : BeginPassReturns(p)
  BY <1>1, <1>2, <1>7 DEF BeginPassReturns, Returning
<1>8. CASE \E e \in Encoders : CommandWhileLocked(e) \/ \E p \in Passes : BeginPassRefused(e, p)
  BY <1>1, <1>3, <1>8 DEF CommandWhileLocked, BeginPassRefused
<1>9. CASE \E e \in Encoders, b \in CmdBuffers : FinishInvalid(e, b) \/ FinishValid(e, b)
  BY <1>1, <1>3, <1>9 DEF FinishInvalid, FinishValid, FinishEncoder
<1>10. CASE \E cmds \in Lists : Submit(cmds)
  BY <1>1, <1>3, <1>10 DEF Submit
<1>11. CASE ConversionThrows \/ CommandReturns \/ PassCommandReturns \/ BeginPassReturnsNull
  BY <1>1, <1>2, <1>11 DEF ConversionThrows, CommandReturns, PassCommandReturns, BeginPassReturnsNull,
                           Returning
<1>12. CASE UNCHANGED vars
  BY <1>12 DEF vars, ChecksInv, ChecksFresh, LivePass
<1> QED
  BY <1>4, <1>5, <1>6, <1>7, <1>8, <1>9, <1>10, <1>11, <1>12 DEF Next, Step

(* With depth 1: a second pass is begun only on an encoder that has none.  *)
LEMMA OneOpenPassStep == ChecksInv /\ [Next]_vars => OneOpenPass'
<1> SUFFICES ASSUME ChecksInv, [Next]_vars, depth = 1 PROVE OneOpenPass'
  BY DEF OneOpenPass, Next, vars
<1> USE DEF encoderVars, passVars, bufferVars, nativeVars
<1>1. Types /\ PassTypes /\ OneOpenPass /\ PassesOpen
  BY DEF ChecksInv
<1>2. CASE UNCHANGED <<ended, parent, nativePass>>
  BY <1>1, <1>2 DEF OneOpenPass
<1>3. ASSUME NEW p \in Passes, BeginPassReturns(p) PROVE OneOpenPass'
  <2> DEFINE e == frames[Len(frames)].encoder
  <2>1. e \in Encoders /\ ~ended[e] /\ ~locked[e]
    BY <1>3, TopEncoder DEF BeginPassReturns
  <2>2. TakesCommands(e)
    BY <2>1, UsableEncoderTaken
  <2>3. /\ parent' = [parent EXCEPT ![p] = e]
        /\ nativePass' = [nativePass EXCEPT ![p] = "open"]
        /\ ended' = ended
    BY <1>3 DEF BeginPassReturns
  <2>4. \A q \in Passes \ {p} : nativePass'[q] = nativePass[q] /\ parent'[q] = parent[q]
    BY <1>1, <2>3 DEF PassTypes
  <2>5. parent'[p] = e
    BY <1>1, <2>3 DEF PassTypes
  <2>6. \A q \in Passes \ {p} : nativePass[q] = "open" => parent[q] # e
    BY <2>2 DEF TakesCommands, HasOpenPass
  <2> QED
    BY <1>1, <2>3, <2>4, <2>5, <2>6 DEF OneOpenPass
<1>4. ASSUME NEW e \in Encoders, NEW p \in Passes, BeginPassRefused(e, p) PROVE OneOpenPass'
  <2>1. nativePass[p] = "none" /\ \A q \in Passes \ {p} : parent'[q] = parent[q]
    BY <1>1, <1>4 DEF BeginPassRefused, PassesOpen, PassTypes
  <2> QED
    BY <1>1, <1>4, <2>1 DEF BeginPassRefused, OneOpenPass
<1>5. ASSUME NEW p \in Passes, EndPass(p) PROVE OneOpenPass'
  BY <1>1, <1>5 DEF EndPass, OneOpenPass, PassTypes
<1>6. ASSUME NEW e \in Encoders, NEW b \in CmdBuffers, FinishInvalid(e, b) \/ FinishValid(e, b)
      PROVE  OneOpenPass'
  <2>1. UNCHANGED <<parent, nativePass>> /\ ended' = [ended EXCEPT ![e] = TRUE]
    BY <1>6 DEF FinishInvalid, FinishValid, FinishEncoder
  <2>2. \A p \in Passes : ~ended'[parent[p]] => ~ended[parent[p]]
    BY <1>1, <2>1 DEF Types
  <2> QED
    BY <1>1, <2>1, <2>2 DEF OneOpenPass
<1>7. CASE \E e \in Encoders : Command(e) \/ CommandWhileLocked(e) \/ BeginPass(e)
  BY <1>2, <1>7 DEF Command, CommandWhileLocked, BeginPass
<1>8. CASE \E p \in Passes : PassCommand(p) \/ ExecuteBundles(p) \/ EndInvalidPass(p)
  BY <1>2, <1>8 DEF PassCommand, ExecuteBundles, EndInvalidPass
<1>9. CASE \E cmds \in Lists : Submit(cmds)
  BY <1>2, <1>9 DEF Submit
<1>10. CASE ConversionThrows \/ CommandReturns \/ PassCommandReturns \/ BeginPassReturnsNull
  BY <1>2, <1>10 DEF ConversionThrows, CommandReturns, PassCommandReturns, BeginPassReturnsNull
<1>11. CASE UNCHANGED vars
  BY <1>2, <1>11 DEF vars
<1> QED
  BY <1>3, <1>4, <1>5, <1>6, <1>7, <1>8, <1>9, <1>10, <1>11 DEF Next, Step

(* With depth 1 the binding's lock and the backend's open pass come and go *)
(* together, failing begins and lost wrappers included.                    *)
LEMMA LockAgreesStep == ChecksInv /\ [Next]_vars => LockAgrees'
<1> SUFFICES ASSUME ChecksInv, [Next]_vars, depth = 1 PROVE LockAgrees'
  BY DEF LockAgrees, Next, vars
<1> USE DEF encoderVars, passVars, bufferVars, nativeVars
<1> DEFINE Agrees(e) == IF ended[e] THEN ~locked[e] /\ ~pendingError[e] ELSE locked[e] <=> HasOpenPass(e)
<1>1. Types /\ PassTypes /\ PassesOpen /\ OneOpenPass /\ \A e \in Encoders : Agrees(e)
  BY DEF ChecksInv, LockAgrees
<1>2. (\A e \in Encoders : Agrees(e)') => LockAgrees'
  BY DEF LockAgrees
<1> HIDE DEF Agrees
<1>3. CASE UNCHANGED <<ended, locked, pendingError, parent, nativePass>>
  BY <1>1, <1>2, <1>3 DEF Agrees, HasOpenPass
\* An error noted on an encoder that has not ended.
<1>4. ASSUME NEW e \in Encoders, ~ended[e], pendingError' = [pendingError EXCEPT ![e] = TRUE],
             UNCHANGED <<ended, locked, nativePass>>,
             \A q \in Passes : nativePass[q] = "open" => parent'[q] = parent[q],
             \A q \in Passes : nativePass[q] = "open" => parent[q] # None
      PROVE  LockAgrees'
  <2>1. \A f \in Encoders : HasOpenPass(f)' <=> HasOpenPass(f)
    BY <1>4 DEF HasOpenPass
  <2> QED
    BY <1>1, <1>2, <1>4, <2>1 DEF Agrees, Types
<1>5. \A q \in Passes : nativePass[q] = "open" => parent[q] # None
  BY <1>1 DEF PassTypes, PassesOpen
<1>6. ASSUME NEW e \in Encoders, CommandWhileLocked(e) PROVE LockAgrees'
  BY <1>4, <1>5, <1>6 DEF CommandWhileLocked
<1>7. ASSUME NEW e \in Encoders, NEW p \in Passes, BeginPassRefused(e, p) PROVE LockAgrees'
  <2>1. nativePass[p] = "none" /\ \A q \in Passes \ {p} : parent'[q] = parent[q]
    BY <1>1, <1>7 DEF BeginPassRefused, PassesOpen, PassTypes
  <2>2. CASE UNCHANGED <<pendingError, dropped>>
    <3>1. \A f \in Encoders : HasOpenPass(f)' <=> HasOpenPass(f)
      BY <1>7, <2>1 DEF BeginPassRefused, HasOpenPass
    <3> QED
      BY <1>1, <1>2, <1>7, <2>2, <3>1 DEF BeginPassRefused, Agrees
  <2>3. CASE ~ended[e] /\ pendingError' = [pendingError EXCEPT ![e] = TRUE]
    BY <1>4, <1>5, <1>7, <2>1, <2>3 DEF BeginPassRefused
  <2> QED
    BY <1>7, <2>2, <2>3 DEF BeginPassRefused
\* The pass that is begun, or not, is of an encoder that has not ended.
<1>8. ASSUME NEW p \in Passes, BeginPassReturns(p) PROVE LockAgrees'
  <2>0. PICK e \in Encoders : e = frames[Len(frames)].encoder
    BY <1>8, TopEncoder DEF BeginPassReturns
  <2>1. ~ended[e] /\ ~locked[e]
    BY <1>8, <2>0, TopEncoder DEF BeginPassReturns
  <2>2. /\ UNCHANGED ended
        /\ locked' = [locked EXCEPT ![e] = TRUE]
        /\ parent' = [parent EXCEPT ![p] = e]
        /\ nativePass' = [nativePass EXCEPT ![p] = "open"]
        /\ DepthSliceError(e)
        /\ nativePass[p] = "none"
    BY <1>1, <1>8, <2>0 DEF BeginPassReturns, PassesOpen
  <2>3. \A f \in Encoders \ {e} : HasOpenPass(f)' <=> HasOpenPass(f)
    BY <1>1, <2>1, <2>2 DEF HasOpenPass, PassTypes
  <2>4. HasOpenPass(e)'
    BY <1>1, <2>2 DEF HasOpenPass, PassTypes
  <2>5. \A f \in Encoders \ {e} : pendingError'[f] = pendingError[f]
    <3>1. CASE UNCHANGED pendingError
      BY <3>1
    <3>2. CASE pendingError' = [pendingError EXCEPT ![e] = TRUE]
      BY <1>1, <3>2 DEF Types
    <3> QED
      BY <2>2, <3>1, <3>2 DEF DepthSliceError
  <2>6. \A f \in Encoders \ {e} : locked'[f] = locked[f]
    BY <1>1, <2>2 DEF PassTypes
  <2>7. locked'[e]
    BY <1>1, <2>1, <2>2 DEF PassTypes
  <2>8. Agrees(e)'
    BY <2>1, <2>2, <2>4, <2>7 DEF Agrees
  <2>9. ASSUME NEW f \in Encoders \ {e} PROVE Agrees(f)'
    <3>1. ended'[f] = ended[f] /\ locked'[f] = locked[f] /\ pendingError'[f] = pendingError[f]
      BY <2>2, <2>5, <2>6
    <3>2. Agrees(f) /\ (HasOpenPass(f)' <=> HasOpenPass(f))
      BY <1>1, <2>3
    <3> QED
      BY <3>1, <3>2, Zenon DEF Agrees
  <2> QED
    BY <1>2, <2>8, <2>9
<1>9. CASE BeginPassReturnsNull
  <2> DEFINE e == frames[Len(frames)].encoder
  <2>1. e \in Encoders /\ ~ended[e] /\ ~locked[e]
    BY <1>9, TopEncoder DEF BeginPassReturnsNull
  <2>2. /\ UNCHANGED <<ended, parent, nativePass>>
        /\ locked' = [locked EXCEPT ![e] = FALSE]
        /\ DepthSliceError(e)
    BY <1>9 DEF BeginPassReturnsNull
  <2> HIDE DEF e
  <2>3. locked' = locked
    BY <1>1, <2>1, <2>2 DEF PassTypes
  <2>4. \A f \in Encoders \ {e} : pendingError'[f] = pendingError[f]
    BY <1>1, <2>1, <2>2 DEF Types, DepthSliceError
  <2> QED
    BY <1>1, <1>2, <2>1, <2>2, <2>3, <2>4 DEF Agrees, HasOpenPass
\* The pass that ends was its encoder's only one.
<1>10. ASSUME NEW p \in Passes, EndPass(p) PROVE LockAgrees'
  <2> DEFINE e == parent[p]
  <2>1. e \in Encoders /\ nativePass[p] = "open" /\ ~ended[e]
    BY <1>10, LivePassTaken DEF EndPass, LivePass, TakesPassCommands
  <2>2. /\ UNCHANGED <<ended, parent, pendingError>>
        /\ locked' = [locked EXCEPT ![e] = FALSE]
        /\ nativePass' = [nativePass EXCEPT ![p] = "ended"]
    BY <1>10 DEF EndPass
  <2>3. \A q \in Passes \ {p} : nativePass[q] = "open" => parent[q] # e
    BY <1>1, <2>1 DEF OneOpenPass
  <2>4. ~HasOpenPass(e)'
    BY <1>1, <2>2, <2>3 DEF HasOpenPass, PassTypes
  <2>5. \A f \in Encoders \ {e} : (HasOpenPass(f)' <=> HasOpenPass(f)) /\ locked'[f] = locked[f]
    BY <1>1, <2>2 DEF HasOpenPass, PassTypes
  <2>6. ~locked'[e]
    BY <1>1, <2>1, <2>2 DEF PassTypes
  <2> QED
    BY <1>1, <1>2, <2>1, <2>2, <2>4, <2>5, <2>6 DEF Agrees
<1>11. ASSUME NEW e \in Encoders, NEW b \in CmdBuffers, FinishInvalid(e, b) \/ FinishValid(e, b)
       PROVE  LockAgrees'
  <2>1. UNCHANGED <<parent, nativePass>> /\ FinishEncoder(e)
    BY <1>11 DEF FinishInvalid, FinishValid
  <2> QED
    BY <1>1, <1>2, <2>1 DEF Agrees, FinishEncoder, HasOpenPass, Types, PassTypes
<1>12. CASE \E e \in Encoders : Command(e) \/ BeginPass(e)
  BY <1>3, <1>12 DEF Command, BeginPass
<1>13. CASE \E p \in Passes : PassCommand(p) \/ ExecuteBundles(p) \/ EndInvalidPass(p)
  BY <1>3, <1>13 DEF PassCommand, ExecuteBundles, EndInvalidPass
<1>14. CASE \E cmds \in Lists : Submit(cmds)
  BY <1>3, <1>14 DEF Submit
<1>15. CASE ConversionThrows \/ CommandReturns \/ PassCommandReturns
  BY <1>3, <1>15 DEF ConversionThrows, CommandReturns, PassCommandReturns
<1>16. CASE UNCHANGED vars
  BY <1>3, <1>16 DEF vars
<1> QED
  BY <1>6, <1>7, <1>8, <1>9, <1>10, <1>11, <1>12, <1>13, <1>14, <1>15, <1>16 DEF Next, Step

(* Every call the checks let through is one the backend takes: at any      *)
(* depth for executeBundles and end(), with depth 1 for all of them.       *)
LEMMA NoMisuseStep == ChecksInv /\ [Next]_vars => NoMisuse'
<1> SUFFICES ASSUME ChecksInv, [Next]_vars PROVE NoMisuse'
  OBVIOUS
<1> USE DEF encoderVars, passVars, bufferVars, nativeVars
<1>1. NoMisuse /\ depth' = depth
  BY DEF ChecksInv, Next, vars
<1>2. ASSUME UNCHANGED misuse PROVE NoMisuse'
  BY <1>1, <1>2 DEF NoMisuse
<1>3. ASSUME NEW p \in Passes, ExecuteBundles(p) \/ EndPass(p) PROVE NoMisuse'
  BY <1>1, <1>3, LivePassTaken DEF ExecuteBundles, EndPass, Use, NoMisuse
<1>4. ASSUME NEW p \in Passes, BeginPassReturns(p) PROVE NoMisuse'
  BY <1>1, <1>4, TopEncoder, UsableEncoderTaken DEF BeginPassReturns, Use, NoMisuse
<1>5. CASE BeginPassReturnsNull
  BY <1>1, <1>5, TopEncoder, UsableEncoderTaken DEF BeginPassReturnsNull, Use, NoMisuse
<1>6. CASE CommandReturns
  BY <1>1, <1>6, TopEncoder, UsableEncoderTaken DEF CommandReturns, Use, NoMisuse
<1>7. CASE PassCommandReturns
  BY <1>1, <1>7, TopPass, LivePassTaken DEF PassCommandReturns, Use, NoMisuse
<1>8. ASSUME NEW e \in Encoders, NEW b \in CmdBuffers, FinishValid(e, b) PROVE NoMisuse'
  BY <1>1, <1>8, UsableEncoderTaken DEF FinishValid, FinishEncoder, Use, NoMisuse
<1>9. CASE \E e \in Encoders, b \in CmdBuffers : FinishInvalid(e, b)
  BY <1>2, <1>9 DEF FinishInvalid
<1>10. CASE \E e \in Encoders : Command(e) \/ CommandWhileLocked(e) \/ BeginPass(e)
  BY <1>2, <1>10 DEF Command, CommandWhileLocked, BeginPass
<1>11. CASE \E p \in Passes : PassCommand(p) \/ EndInvalidPass(p)
  BY <1>2, <1>11 DEF PassCommand, EndInvalidPass
<1>12. CASE \E e \in Encoders, p \in Passes : BeginPassRefused(e, p)
  BY <1>2, <1>12 DEF BeginPassRefused
<1>13. CASE \E cmds \in Lists : Submit(cmds)
  BY <1>2, <1>13 DEF Submit
<1>14. CASE ConversionThrows
  BY <1>2, <1>14 DEF ConversionThrows
<1>15. CASE UNCHANGED vars
  BY <1>2, <1>15 DEF vars
<1> QED
  BY <1>3, <1>4, <1>5, <1>6, <1>7, <1>8, <1>9, <1>10, <1>11, <1>12, <1>13, <1>14, <1>15
     DEF Next, Step

(* The two invariants are kept together: the second takes its types from   *)
(* the first.                                                              *)
LEMMA AllInv == Spec => [](EncoderInv /\ ChecksInv)
<1>1. Init => EncoderInv /\ ChecksInv
  <2> SUFFICES ASSUME Init PROVE EncoderInv /\ ChecksInv
    OBVIOUS
  <2>1. Types /\ PassTypes /\ frames = <<>> /\ submitted = <<>> /\ dropped = {}
    BY ConstantsAssumption DEF Init, Types, PassTypes
  <2>2. BuffersFromEnded /\ FinishedOnce /\ SubmittedConsumed /\ SubmittedOnce
    BY <2>1 DEF Init, BuffersFromEnded, FinishedOnce, SubmittedConsumed, SubmittedOnce
  <2>3. DroppedPending /\ DroppedPoisons
    BY <2>1 DEF DroppedPending, DroppedPoisons
  <2>4. PassesOpen /\ FinishedEnded /\ OneOpenPass /\ NoMisuse
    BY DEF Init, PassesOpen, FinishedEnded, OneOpenPass, NoMisuse
  <2>5. ChecksFresh
    BY <2>1 DEF ChecksFresh
  <2>6. LockAgrees
    BY DEF Init, LockAgrees, HasOpenPass
  <2> QED
    BY <2>1, <2>2, <2>3, <2>4, <2>5, <2>6 DEF EncoderInv, ChecksInv
<1>2. EncoderInv /\ ChecksInv /\ [Next]_vars => EncoderInv' /\ ChecksInv'
  <2> SUFFICES ASSUME EncoderInv, ChecksInv, [Next]_vars PROVE EncoderInv' /\ ChecksInv'
    OBVIOUS
  <2>1. EncoderInv'
    BY EncoderStep
  <2>2. Types'
    BY <2>1 DEF EncoderInv
  <2> QED
    BY <2>1, <2>2, PassTypesStep, PassesOpenStep, FinishedEndedStep, ChecksFreshStep,
       OneOpenPassStep, LockAgreesStep, NoMisuseStep DEF ChecksInv
<1> QED
  BY <1>1, <1>2, PTL DEF Spec

(* Every variable has its type, for any number of objects and any depth.   *)
THEOREM TypeCorrect == Spec => []TypeOK
<1>1. EncoderInv /\ ChecksInv => TypeOK
  BY DEF EncoderInv, ChecksInv, Types, PassTypes, TypeOK
<1> QED
  BY <1>1, AllInv, PTL

(* What the binding's checks let through, the backend takes: all calls     *)
(* when no conversion calls back, end() and executeBundles() always.       *)
THEOREM ChecksComplete == Spec => []NoMisuse
<1>1. ChecksInv => NoMisuse
  BY DEF ChecksInv
<1> QED
  BY <1>1, AllInv, PTL

(* When no conversion calls back, the lock of an encoder and the backend's *)
(* open pass come and go together, through failing begins and lost         *)
(* wrappers, and a finished encoder holds neither lock nor error.          *)
THEOREM LockFollowsPass == Spec => []LockAgrees
<1>1. ChecksInv => LockAgrees
  BY DEF ChecksInv
<1> QED
  BY <1>1, AllInv, PTL
=============================================================================
