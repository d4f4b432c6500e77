--------------------------- MODULE MCConversions ---------------------------
(***************************************************************************)
(* The conversions with a script that does one thing in a call, and next   *)
(* to them the limits requestDevice converts, the messages                 *)
(* getCompilationInfo does and the modules a script is made of: a          *)
(* behaviour is of one of the four, since they share no state.             *)
(***************************************************************************)
EXTENDS Conversions, Limits, Messages, Loader

\* Halves of -1/2, 0, 1/2, 3, the numbers around both undefined ones and the safe integers.
MCDoubles == {-1, 0, 1, 6, 13, 14, 15, 24, 26}

NoLimits ==
  /\ step = "failed" /\ ask = <<>> /\ left = {} /\ requested = <<>> /\ supported = <<>>
  /\ limits = <<>> /\ handed = <<>> /\ device = <<>>
NoCall ==
  /\ call = [access |-> "call", op |-> "requestDevice", given |-> FALSE, arm |-> 1, slot |-> FALSE] /\ now = Over
  /\ pc = 1 /\ outcome = "returned" /\ events = 0 /\ changed = {} /\ full = TRUE /\ held = FALSE
  /\ stuck = FALSE /\ backing = 0 /\ source = Unknown
  /\ native = [sent |-> 0, made |-> 0, refused |-> FALSE] /\ views = [captured |-> 0, kept |-> 0]
  /\ label = [native |-> "old", stored |-> "old"]

NoMessages ==
  /\ code = <<>> /\ kept = <<>> /\ reported = Nothing /\ request = "none" /\ copied = <<>> /\ made = <<>>

MCTails == {<<>>} \cup
  {<<[type |-> t, offset |-> 0, length |-> 1, lineNum |-> 1, linePos |-> 1]>> : t \in {"info", "unknown"}}

MCIds == {Path(FALSE, p) : p \in {<<"main.js">>, <<"lib", "index.js">>, <<"lib", ".a.js">>, <<"a.js">>, <<"..", "a.js">>}}
  \cup {Path(TRUE, <<"a.js">>)}
MCSpecifiers == {Path(FALSE, p) : p \in {
  <<"a">>, <<".a">>, <<".", "lib">>, <<"..", "a">>, <<"..", "main">>, <<".", "lib", "..", "a">>,
  <<".", "x", "..", "..", "a.js">>, <<".", "lib", "", ".a">>}}
MCEntry == Path(FALSE, <<"main.js">>)
MCAliases == {Path(FALSE, <<"a">>) :> p : p \in {
  Path(FALSE, <<"lib">>), Path(FALSE, <<"lib", "..", "a.js">>), Path(TRUE, <<"..", "lib", "..", "a.js">>)}}
NoLoader ==
  /\ loader = "none" /\ present = {} /\ cache = {} /\ runs = [id \in Ids |-> 0] /\ stack = <<>>
  /\ thrown = FALSE /\ loads = 0 /\ alias = <<>> /\ got = {}

MCInit ==
  \/ Init /\ NoLimits /\ NoMessages /\ NoLoader
  \/ NoCall /\ LimitsInit /\ NoMessages /\ NoLoader
  \/ NoCall /\ NoLimits /\ MessagesInit /\ NoLoader
  \/ NoCall /\ NoLimits /\ NoMessages /\ LoaderInit
MCNext ==
  \/ Next /\ UNCHANGED <<limitsVars, messagesVars, loaderVars>>
  \/ LimitsNext /\ UNCHANGED <<vars, messagesVars, loaderVars>>
  \/ MessagesNext /\ UNCHANGED <<vars, limitsVars, loaderVars>>
  \/ LoaderNext /\ UNCHANGED <<vars, limitsVars, messagesVars>>
=============================================================================
