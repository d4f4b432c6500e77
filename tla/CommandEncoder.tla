-------------------------- MODULE CommandEncoder --------------------------
(***************************************************************************)
(* Command encoding and submission, from core/src/lib.rs.                  *)
(*                                                                         *)
(* A GPUCommandEncoder is locked while one of its passes is open, collects *)
(* the first error of what script did to it meanwhile, and is ended by     *)
(* finish(), which reports that error and makes the command buffer         *)
(* invalid.  The binding checks all this itself and calls the backend only *)
(* when the check passes.                                                  *)
(*                                                                         *)
(* Most methods check first and convert their arguments afterwards, and a  *)
(* conversion runs script: getters, iterators, valueOf.  That script can   *)
(* call any method of the same objects before the checked call goes on     *)
(* with what it has read.  A call between its check and its end is a frame *)
(* of the call stack.                                                      *)
(***************************************************************************)
EXTENDS Naturals, Sequences

CONSTANTS
    Encoders,   \* GPUCommandEncoder wrappers
    Passes,     \* compute or render passes that may be begun
    CmdBuffers, \* GPUCommandBuffer wrappers that finish() may return
    None,       \* no encoder
    MaxSubmit,  \* bound: command buffers in one submit()
    MaxDepth    \* bound: calls on the stack that are converting arguments

ASSUME ConstantsAssumption ==
    /\ None \notin Encoders
    /\ MaxSubmit \in Nat
    /\ MaxDepth \in Nat \ {0}

VARIABLES
    depth,                           \* how deep this behaviour's script re-enters; 1 is
                                     \* script whose conversions never call back
    ended, locked, pendingError,     \* CommandEncoderState
    passWrapper, parent, passEnded,  \* the pass wrappers and their state
    cmdBuffer, source, consumed,     \* CommandBufferState, its encoder
    frames,                          \* calls that have checked, and convert
    dropped, reported,               \* encoders with a dropped command, an error at finish()
    nativePass, nativeFinished,      \* what the backend has been told
    submitted, misuse

encoderVars == <<ended, locked, pendingError>>
passVars == <<passWrapper, parent, passEnded>>
bufferVars == <<cmdBuffer, source, consumed>>
nativeVars == <<nativePass, nativeFinished, submitted, misuse>>
vars == <<depth, encoderVars, passVars, bufferVars, frames, dropped, reported, nativeVars>>

Frame == [op : {"command", "beginPass"}, encoder : Encoders]
           \cup [op : {"passCommand"}, pass : Passes]

TypeOK ==
    /\ depth \in 1..MaxDepth
    /\ ended \in [Encoders -> BOOLEAN]
    /\ locked \in [Encoders -> BOOLEAN]
    /\ pendingError \in [Encoders -> BOOLEAN]
    /\ passWrapper \in [Passes -> {"unused", "valid", "invalid", "lost"}]
    /\ parent \in [Passes -> Encoders \cup {None}]
    /\ \A p \in Passes : passWrapper[p] # "unused" => parent[p] # None
    /\ passEnded \in [Passes -> BOOLEAN]
    /\ cmdBuffer \in [CmdBuffers -> {"unused", "valid", "invalid"}]
    /\ source \in [CmdBuffers -> Encoders \cup {None}]
    /\ consumed \in [CmdBuffers -> BOOLEAN]
    /\ frames \in Seq(Frame)
    /\ dropped \in SUBSET Encoders
    /\ reported \in SUBSET Encoders
    /\ nativePass \in [Passes -> {"none", "open", "ended"}]
    /\ nativeFinished \in SUBSET Encoders
    /\ submitted \in Seq(CmdBuffers)
    /\ misuse \in SUBSET {"command", "passCommand", "executeBundles", "beginPass", "endPass",
                          "finish"}

----------------------------------------------------------------------------
(* The backend: which calls it takes without an error of its own.          *)

HasOpenPass(e) == \E p \in Passes : parent[p] = e /\ nativePass[p] = "open"

TakesCommands(e) == e \notin nativeFinished /\ ~HasOpenPass(e)

TakesPassCommands(p) == nativePass[p] = "open" /\ parent[p] \notin nativeFinished

Use(op, taken) == misuse' = misuse \cup (IF taken THEN {} ELSE {op})

----------------------------------------------------------------------------
Init ==
    /\ depth \in 1..MaxDepth
    /\ ended = [e \in Encoders |-> FALSE]
    /\ locked = [e \in Encoders |-> FALSE]
    /\ pendingError = [e \in Encoders |-> FALSE]
    /\ passWrapper = [p \in Passes |-> "unused"]
    /\ parent = [p \in Passes |-> None]
    /\ passEnded = [p \in Passes |-> FALSE]
    /\ cmdBuffer = [b \in CmdBuffers |-> "unused"]
    /\ source = [b \in CmdBuffers |-> None]
    /\ consumed = [b \in CmdBuffers |-> FALSE]
    /\ frames = <<>>
    /\ dropped = {}
    /\ reported = {}
    /\ nativePass = [p \in Passes |-> "none"]
    /\ nativeFinished = {}
    /\ submitted = <<>>
    /\ misuse = {}

(* Script runs when no call is converting, or inside a conversion.         *)
CanCall == Len(frames) < depth

Push(frame) == frames' = Append(frames, frame)

Returning(op) == frames # <<>> /\ frames[Len(frames)].op = op

Pop == frames' = SubSeq(frames, 1, Len(frames) - 1)

(* A conversion may throw: the call ends without reaching the backend.     *)
ConversionThrows ==
    /\ frames # <<>>
    /\ Pop
    /\ UNCHANGED <<encoderVars, passVars, bufferVars, dropped, reported, nativeVars>>

----------------------------------------------------------------------------
(* Commands of the encoder itself: copies, clears, debug groups.           *)

(* live_command_encoder finds the encoder usable.  On a finished one it    *)
(* reports an error and nothing changes.                                   *)
Command(e) ==
    /\ CanCall
    /\ ~ended[e] /\ ~locked[e]
    /\ Push([op |-> "command", encoder |-> e])
    /\ UNCHANGED <<encoderVars, passVars, bufferVars, dropped, reported, nativeVars>>

(* Mutant: the command is dropped without a trace.                         *)
CommandWhileLockedSilent(e) ==
    /\ CanCall
    /\ ~ended[e] /\ locked[e]
    /\ dropped' = dropped \cup {e}
    /\ UNCHANGED <<encoderVars, passVars, bufferVars, frames, reported, nativeVars>>

(* While a pass is open, the command is dropped and the encoder remembers. *)
CommandWhileLocked(e) ==
    /\ CanCall
    /\ ~ended[e] /\ locked[e]
    /\ pendingError' = [pendingError EXCEPT ![e] = TRUE]
    /\ dropped' = dropped \cup {e}
    /\ UNCHANGED <<ended, locked, passVars, bufferVars, frames, reported, nativeVars>>

CommandReturns ==
    /\ Returning("command")
    /\ Pop
    /\ Use("command", TakesCommands(frames[Len(frames)].encoder))
    /\ UNCHANGED <<encoderVars, passVars, bufferVars, dropped, reported,
                   nativePass, nativeFinished, submitted>>

----------------------------------------------------------------------------
(* Passes.                                                                 *)

LivePass(p) ==
    /\ passWrapper[p] = "valid"
    /\ ~passEnded[p]
    /\ ~ended[parent[p]]
    /\ locked[parent[p]]

PassCommand(p) ==
    /\ CanCall
    /\ LivePass(p)
    /\ Push([op |-> "passCommand", pass |-> p])
    /\ UNCHANGED <<encoderVars, passVars, bufferVars, dropped, reported, nativeVars>>

PassCommandReturns ==
    /\ Returning("passCommand")
    /\ Pop
    /\ Use("passCommand", TakesPassCommands(frames[Len(frames)].pass))
    /\ UNCHANGED <<encoderVars, passVars, bufferVars, dropped, reported,
                   nativePass, nativeFinished, submitted>>

(* executeBundles converts before it checks: nothing comes in between.     *)
ExecuteBundles(p) ==
    /\ CanCall
    /\ LivePass(p)
    /\ Use("executeBundles", TakesPassCommands(p))
    /\ UNCHANGED <<encoderVars, passVars, bufferVars, frames, dropped, reported,
                   nativePass, nativeFinished, submitted>>

(* beginComputePass or beginRenderPass on a finished or locked encoder     *)
(* returns a pass with no native handle.                                   *)
BeginPassRefused(e, p) ==
    /\ CanCall /\ passWrapper[p] = "unused"
    /\ \/ ended[e] /\ UNCHANGED <<pendingError, dropped>>
       \/ /\ ~ended[e] /\ locked[e]
          /\ pendingError' = [pendingError EXCEPT ![e] = TRUE]
          /\ dropped' = dropped \cup {e}
    /\ passWrapper' = [passWrapper EXCEPT ![p] = "invalid"]
    /\ parent' = [parent EXCEPT ![p] = e]
    /\ UNCHANGED <<ended, locked, passEnded, bufferVars, frames, reported, nativeVars>>

BeginPass(e) ==
    /\ CanCall
    /\ ~ended[e] /\ ~locked[e]
    /\ Push([op |-> "beginPass", encoder |-> e])
    /\ UNCHANGED <<encoderVars, passVars, bufferVars, dropped, reported, nativeVars>>

(* A render pass descriptor may carry a depthSlice error, which the        *)
(* encoder remembers, finished or not.                                     *)
DepthSliceError(e) ==
    \/ UNCHANGED pendingError
    \/ pendingError' = [pendingError EXCEPT ![e] = TRUE]

(* The encoder is locked and the pass begun, whatever script has done to   *)
(* the encoder since the check.  Without a wrapper the pass is released,   *)
(* never ended, and the encoder stays locked.                              *)
BeginPassReturns(p) ==
    LET e == frames[Len(frames)].encoder
    IN  /\ Returning("beginPass") /\ passWrapper[p] = "unused"
        /\ Pop
        /\ DepthSliceError(e)
        /\ locked' = [locked EXCEPT ![e] = TRUE]
        /\ \E w \in {"valid", "lost"} : passWrapper' = [passWrapper EXCEPT ![p] = w]
        /\ parent' = [parent EXCEPT ![p] = e]
        /\ nativePass' = [nativePass EXCEPT ![p] = "open"]
        /\ Use("beginPass", TakesCommands(e))
        /\ UNCHANGED <<ended, passEnded, bufferVars, dropped, reported, nativeFinished,
                       submitted>>

(* Mutant: the encoder stays locked when the backend returns no pass.      *)
BeginPassReturnsNullLocked ==
    LET e == frames[Len(frames)].encoder
    IN  /\ Returning("beginPass")
        /\ Pop
        /\ DepthSliceError(e)
        /\ locked' = [locked EXCEPT ![e] = TRUE]
        /\ Use("beginPass", TakesCommands(e))
        /\ UNCHANGED <<ended, passVars, bufferVars, dropped, reported, nativePass,
                       nativeFinished, submitted>>

(* The backend returns null: the encoder is locked and unlocked again.     *)
BeginPassReturnsNull ==
    LET e == frames[Len(frames)].encoder
    IN  /\ Returning("beginPass")
        /\ Pop
        /\ DepthSliceError(e)
        /\ locked' = [locked EXCEPT ![e] = FALSE]
        /\ Use("beginPass", TakesCommands(e))
        /\ UNCHANGED <<ended, passVars, bufferVars, dropped, reported, nativePass,
                       nativeFinished, submitted>>

(* Mutant: end() unlocks the encoder and forgets to end the native pass.   *)
EndPassNotNative(p) ==
    /\ CanCall
    /\ LivePass(p)
    /\ locked' = [locked EXCEPT ![parent[p]] = FALSE]
    /\ passEnded' = [passEnded EXCEPT ![p] = TRUE]
    /\ UNCHANGED <<ended, pendingError, passWrapper, parent, bufferVars, frames, dropped,
                   reported, nativeVars>>

(* end() of a live pass unlocks its encoder.                               *)
EndPass(p) ==
    /\ CanCall
    /\ LivePass(p)
    /\ locked' = [locked EXCEPT ![parent[p]] = FALSE]
    /\ Use("endPass", TakesPassCommands(p))
    /\ nativePass' = [nativePass EXCEPT ![p] = "ended"]
    /\ passEnded' = [passEnded EXCEPT ![p] = TRUE]
    /\ UNCHANGED <<ended, pendingError, passWrapper, parent, bufferVars, frames, dropped,
                   reported, nativeFinished, submitted>>

(* end() of a pass without a native handle only ends the wrapper; any      *)
(* other end() is refused with an error and no change.                     *)
EndInvalidPass(p) ==
    /\ CanCall
    /\ passWrapper[p] = "invalid" /\ ~passEnded[p] /\ ~ended[parent[p]]
    /\ passEnded' = [passEnded EXCEPT ![p] = TRUE]
    /\ UNCHANGED <<encoderVars, passWrapper, parent, bufferVars, frames, dropped, reported,
                   nativeVars>>

----------------------------------------------------------------------------
(* finish() and submit() convert before they read any state.               *)

(* Mutant: the encoder is not marked ended.                                *)
FinishNotEnded(e) ==
    /\ CanCall
    /\ locked' = [locked EXCEPT ![e] = FALSE]
    /\ pendingError' = [pendingError EXCEPT ![e] = FALSE]
    /\ UNCHANGED ended

(* What every finish() does first: end and unlock the encoder, and take    *)
(* its pending error.                                                      *)
FinishEncoder(e) ==
    /\ CanCall
    /\ ended' = [ended EXCEPT ![e] = TRUE]
    /\ locked' = [locked EXCEPT ![e] = FALSE]
    /\ pendingError' = [pendingError EXCEPT ![e] = FALSE]

NewBuffer(e, b, validity) ==
    /\ cmdBuffer[b] = "unused"
    /\ cmdBuffer' = [cmdBuffer EXCEPT ![b] = validity]
    /\ source' = [source EXCEPT ![b] = e]
    /\ UNCHANGED consumed

(* An encoder finished before, locked, or with an error pending: reported, *)
(* and the command buffer, if its wrapper can be made, is invalid.         *)
FinishInvalid(e, b) ==
    /\ ended[e] \/ locked[e] \/ pendingError[e]
    /\ FinishEncoder(e)
    /\ reported' = reported \cup {e}
    /\ NewBuffer(e, b, "invalid") \/ UNCHANGED bufferVars
    /\ UNCHANGED <<passVars, frames, dropped, nativeVars>>

(* The backend finishes the encoder; it, or the wrapper, may fail, and the *)
(* encoder is ended all the same.                                          *)
FinishValid(e, b) ==
    /\ ~ended[e] /\ ~locked[e] /\ ~pendingError[e]
    /\ FinishEncoder(e)
    /\ Use("finish", TakesCommands(e))
    /\ nativeFinished' = nativeFinished \cup {e}
    /\ NewBuffer(e, b, "valid") \/ UNCHANGED bufferVars
    /\ UNCHANGED <<passVars, frames, dropped, reported, nativePass, submitted>>

(* Mutant: an occurrence is checked by itself, not against the others.     *)
SubmittableEach(cmds) ==
    \A i \in DOMAIN cmds : ~consumed[cmds[i]] /\ cmdBuffer[cmds[i]] = "valid"

(* submit() passes its buffers on only if all are valid, none is consumed, *)
(* and none is given twice.                                                *)
Submittable(cmds) ==
    /\ \A i, j \in DOMAIN cmds : cmds[i] = cmds[j] => i = j
    /\ \A i \in DOMAIN cmds : ~consumed[cmds[i]] /\ cmdBuffer[cmds[i]] = "valid"

(* Every buffer given is consumed, the submit refused or not.              *)
Submit(cmds) ==
    /\ CanCall
    /\ \A i \in DOMAIN cmds : cmdBuffer[cmds[i]] # "unused"
    /\ consumed' = [b \in CmdBuffers |-> consumed[b] \/ \E i \in DOMAIN cmds : cmds[i] = b]
    /\ submitted' = IF Submittable(cmds) THEN submitted \o cmds ELSE submitted
    /\ UNCHANGED <<encoderVars, passVars, cmdBuffer, source, frames, dropped, reported,
                   nativePass, nativeFinished, misuse>>

Lists == UNION {[1..n -> CmdBuffers] : n \in 0..MaxSubmit}

----------------------------------------------------------------------------
Step ==
    \/ \E e \in Encoders : Command(e) \/ CommandWhileLocked(e) \/ BeginPass(e)
    \/ \E p \in Passes :
          \/ PassCommand(p)
          \/ ExecuteBundles(p)
          \/ BeginPassReturns(p)
          \/ EndPass(p)
          \/ EndInvalidPass(p)
    \/ \E e \in Encoders, p \in Passes : BeginPassRefused(e, p)
    \/ \E e \in Encoders, b \in CmdBuffers : FinishInvalid(e, b) \/ FinishValid(e, b)
    \/ \E cmds \in Lists : Submit(cmds)
    \/ ConversionThrows \/ CommandReturns \/ PassCommandReturns \/ BeginPassReturnsNull

Next == Step /\ UNCHANGED depth

Spec == Init /\ [][Next]_vars

----------------------------------------------------------------------------
(* What holds however script re-enters.                                    *)

(* The backend is asked for an encoder's command buffer once: two finish() *)
(* calls, one inside the other's conversion included, never both yield one.*)
FinishedOnce ==
    \A b, c \in CmdBuffers :
       cmdBuffer[b] = "valid" /\ cmdBuffer[c] = "valid" /\ source[b] = source[c] => b = c

(* No command buffer reaches the backend's queue twice, in one submit() or *)
(* in several, and none that finish() found invalid reaches it at all.     *)
SubmittedOnce ==
    /\ \A i, j \in DOMAIN submitted : submitted[i] = submitted[j] => i = j
    /\ \A i \in DOMAIN submitted : cmdBuffer[submitted[i]] = "valid"

(* A command that was dropped because a pass had the encoder locked is not *)
(* lost in silence: the encoder never yields a valid command buffer, and   *)
(* finish() reports an error.                                              *)
DroppedPoisons ==
    \A e \in dropped :
       /\ \A b \in CmdBuffers : source[b] = e => cmdBuffer[b] = "invalid"
       /\ ended[e] => e \in reported

----------------------------------------------------------------------------
(* The checks of the binding.                                              *)

(* The binding's checks are complete: every call they let through is one   *)
(* the backend takes, failed begins and lost passes included.  A           *)
(* conversion that calls back into the same objects can break this for the *)
(* calls that check before they convert, but never for executeBundles and  *)
(* end(), which check when no script can run any more.                     *)
NoMisuse ==
    misuse \subseteq
       IF depth = 1 THEN {} ELSE {"command", "passCommand", "beginPass", "finish"}

(* When no conversion calls back (depth = 1), an unfinished encoder is     *)
(* locked exactly while a pass of it is open in the backend, and a         *)
(* finished one holds neither a lock nor an error that nobody would report *)
(* any more.                                                               *)
LockAgrees ==
    depth = 1 => \A e \in Encoders :
       IF ended[e] THEN ~locked[e] /\ ~pendingError[e] ELSE locked[e] <=> HasOpenPass(e)

=============================================================================
