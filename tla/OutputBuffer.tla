---------------------------- MODULE OutputBuffer ----------------------------
(***************************************************************************)
(* The output path of dbgscript: what a script prints and what the         *)
(* debugger commands it executes print, on the way to the debugger window. *)
(*                                                                         *)
(* While IsBuffering > 0 text collects in MessageBuf (support/util.cpp)    *)
(* and the output of an executed command is captured by swapping the       *)
(* client's output callbacks (support/outputcallback.cpp).  !runscript and *)
(* !evalstring (dllmain.cpp) bound the life of a script; a command         *)
(* executed by a script may itself be one of these two, so invocations     *)
(* form a stack.                                                           *)
(*                                                                         *)
(* A text is a sequence of characters, because capacity is counted in      *)
(* characters; which characters they are is left to the constants.  A call *)
(* that CHECK_ABORT cuts short changes nothing here: it is a stuttering    *)
(* step.                                                                   *)
(***************************************************************************)
EXTENDS Integers, Sequences

CONSTANTS
  Char,               \* the characters texts are made of
  Text,               \* the texts a script writes in one call
  Chunk,              \* the texts a debugger command prints in one call
  Timing,             \* the line runscript -t prints after a successful run
  MSG_CCH,            \* _countof(DbgScriptHostContext::MessageBuf), 8192
  CAP_CCH,            \* _countof(DbgScriptOutputCallbacks::Buf), 4096
  Provider,           \* the script providers in use: "lua", "py", "rb"
  HostCommand,        \* the host commands in use: "runscript", "evalstring"
  TimeRun,            \* the values of the -t switch in use
  CallbackFailure,    \* calls around a capture that may fail: "get", "set", "revert"
  NestWhileBuffering, \* may a captured command be a host command?
  MaxDepth,           \* bound: nested invocations
  MaxNest,            \* bound: nested start_buffering calls
  MaxSaid,            \* bound: characters handed to the output path
  MaxEmitted,         \* bound: characters printed by one captured command
  MaxFailures,        \* bound: failure messages
  MaxRefusals         \* bound: calls that cost the client its callbacks

ASSUME OutputBufferAssumption ==
  /\ Text \subseteq Seq(Char) \ {<<>>}
  /\ Chunk \subseteq Seq(Char) \ {<<>>}
  /\ Timing \in Seq(Char) \ {<<>>}
  /\ MSG_CCH \in Nat \ {0}
  /\ CAP_CCH \in 1 .. MSG_CCH
  /\ Provider \subseteq {"lua", "py", "rb"}
  /\ HostCommand \subseteq {"runscript", "evalstring"}
  /\ TimeRun \subseteq BOOLEAN
  /\ CallbackFailure \subseteq {"get", "set", "revert"}
  /\ NestWhileBuffering \in BOOLEAN

VARIABLES
  IsBuffering, \* hostCtxt->IsBuffering
  MessageBuf,  \* hostCtxt->MessageBuf[0 .. BufPosition - 1]
  callback,    \* output callbacks installed on DebugClient
  Buf,         \* DbgScriptOutputCallbacks::Buf, up to its NUL
  stack,       \* the invocations in progress, innermost last
  shown,       \* history: characters the debugger has shown, in order
  said,        \* history: characters handed to the output path, in order
  failures,    \* history: messages about failed scripts printed
  unexplained, \* history: messages that there is no message to print
  refusals     \* history: calls that cost the client its callbacks

tallies == <<unexplained, refusals>>
vars == <<IsBuffering, MessageBuf, callback, Buf, stack, shown, said, failures, tallies>>

BufPosition == Len(MessageBuf)

Callback == {"client", "capture", "none"}

\* A host command running a script, or a debugger command being executed:
\* `prev' is CAutoSetOutputCallback::m_Prev, `emitted' what the command has
\* printed so far.
Frame == [kind : {"runscript", "evalstring", "capture", "direct"},
          prov : Provider,
          timed : BOOLEAN,
          prev : Callback,
          emitted : Seq(Char)]

TypeOK ==
  /\ IsBuffering \in Nat
  /\ MessageBuf \in Seq(Char)
  /\ callback \in Callback
  /\ Buf \in Seq(Char)
  /\ stack \in Seq(Frame)
  /\ shown \in Seq(Char)
  /\ said \in Seq(Char)
  /\ failures \in Nat
  /\ unexplained \in Nat
  /\ refusals \in Nat

Top == stack[Len(stack)]
Pop == SubSeq(stack, 1, Len(stack) - 1)
InKind(kinds) == stack # <<>> /\ Top.kind \in kinds
ScriptRunning(p) == InKind({"runscript", "evalstring"}) /\ Top.prov = p

Truncate(text, cch) == IF Len(text) <= cch THEN text ELSE SubSeq(text, 1, cch)

Init ==
  /\ IsBuffering = 0
  /\ MessageBuf = <<>>
  /\ callback = "client"
  /\ Buf = <<>>
  /\ stack = <<>>
  /\ shown = <<>>
  /\ said = <<>>
  /\ failures = 0
  /\ unexplained = 0
  /\ refusals = 0

-----------------------------------------------------------------------------
(* support/util.cpp and support/outputcallback.cpp                         *)

\* DebugControl->Output(DEBUG_OUTPUT_NORMAL, text) reaches the callbacks cb that
\* the client has: the debugger's own, or the capturing ones, which copy the
\* text over what they held (DbgScriptOutputCallbacks::Output).
Shown(cb, text) == IF cb = "client" THEN shown \o text ELSE shown
Copied(cb, old, text) ==
  IF cb = "capture" /\ text # <<>> THEN Truncate(text, CAP_CCH - 1) ELSE old

Output(cb, text) ==
  /\ shown' = Shown(cb, text)
  /\ Buf' = Copied(cb, Buf, text)

UtilFlushMessageBuffer ==
  /\ Output(callback, MessageBuf)
  /\ MessageBuf' = <<>>

\* Fault: the comparison forgets the NUL.
UtilBufferOutputNoNul(cb, text) ==
  /\ \/ /\ BufPosition + Len(text) <= MSG_CCH
        /\ MessageBuf' = MessageBuf \o text
        /\ UNCHANGED <<shown, Buf>>
     \/ /\ BufPosition + Len(text) > MSG_CCH
        /\ Output(cb, MessageBuf)
        /\ MessageBuf' = Truncate(text, MSG_CCH - 1)
  /\ said' = said \o text

\* Fault: a full buffer starts over without being flushed.
UtilBufferOutputOverwrites(cb, text) ==
  /\ MessageBuf' = IF BufPosition + Len(text) <= MSG_CCH - 1
                   THEN MessageBuf \o text
                   ELSE Truncate(text, MSG_CCH - 1)
  /\ said' = said \o text
  /\ UNCHANGED <<shown, Buf>>

UtilBufferOutput(cb, text) ==
  /\ \/ /\ BufPosition + Len(text) <= MSG_CCH - 1
        /\ MessageBuf' = MessageBuf \o text
        /\ UNCHANGED <<shown, Buf>>
     \/ /\ BufPosition + Len(text) > MSG_CCH - 1
        /\ Output(cb, MessageBuf)
        /\ MessageBuf' = Truncate(text, MSG_CCH - 1)
  /\ said' = said \o text

\* What each provider's print does with a text.
Emit(text) ==
  \/ /\ IsBuffering > 0
     /\ UtilBufferOutput(callback, text)
  \/ /\ IsBuffering = 0
     /\ Output(callback, text)
     /\ said' = said \o text
     /\ UNCHANGED MessageBuf

-----------------------------------------------------------------------------
(* Printing: the stdio redirection of each provider                        *)

Writes(p, text) ==
  /\ ScriptRunning(p)
  /\ Len(said) + Len(text) <= MaxSaid
  /\ Emit(text)
  /\ UNCHANGED <<IsBuffering, callback, stack, failures, tallies>>

luaOutputCb(text) == Writes("lua", text)
DbgScriptIO_write(text) == Writes("py", text)
DbgScriptStdIO_write(text) == Writes("rb", text)

-----------------------------------------------------------------------------
(* start_buffering and stop_buffering, in each provider                    *)

StartBuffering(p) ==
  /\ ScriptRunning(p)
  /\ IsBuffering < MaxNest
  /\ IsBuffering' = IsBuffering + 1
  /\ UNCHANGED <<MessageBuf, callback, Buf, stack, shown, said, failures, tallies>>

dbgscript_startBuffering == StartBuffering("lua")
dbgscript_start_buffering == StartBuffering("py")
DbgScript_start_buffering == StartBuffering("rb")

\* Fault: an unmatched stop leaves the count below zero.
StopBufferingUnclamped(p) ==
  /\ ScriptRunning(p)
  /\ IsBuffering > -1
  /\ IsBuffering' = IsBuffering - 1
  /\ IF IsBuffering = 1
     THEN UtilFlushMessageBuffer
     ELSE UNCHANGED <<MessageBuf, shown, Buf>>
  /\ UNCHANGED <<callback, stack, said, failures, tallies>>

\* Fault: every stop flushes, whatever is nested around it.
StopBufferingFlushesAlways(p) ==
  /\ ScriptRunning(p)
  /\ IsBuffering' = IF IsBuffering = 0 THEN 0 ELSE IsBuffering - 1
  /\ UtilFlushMessageBuffer
  /\ UNCHANGED <<callback, stack, said, failures, tallies>>

\* Fault: the outermost stop does not flush.
StopBufferingKeeps(p) ==
  /\ ScriptRunning(p)
  /\ IsBuffering' = IF IsBuffering = 0 THEN 0 ELSE IsBuffering - 1
  /\ UNCHANGED <<MessageBuf, callback, Buf, stack, shown, said, failures, tallies>>

\* A count that would go below zero is put back to zero and the script gets an
\* error; only the call that brings it to exactly zero flushes.
StopBuffering(p) ==
  /\ ScriptRunning(p)
  /\ IsBuffering' = IF IsBuffering = 0 THEN 0 ELSE IsBuffering - 1
  /\ IF IsBuffering = 1
     THEN UtilFlushMessageBuffer
     ELSE UNCHANGED <<MessageBuf, shown, Buf>>
  /\ UNCHANGED <<callback, stack, said, failures, tallies>>

dbgscript_stopBuffering == StopBuffering("lua")
dbgscript_stop_buffering == StopBuffering("py")
DbgScript_stop_buffering == StopBuffering("rb")

-----------------------------------------------------------------------------
(* An unhandled script error, where the provider reports it past the       *)
(* buffer.  Python prints its traceback through DbgScriptIO_write instead. *)

\* A message printed as DEBUG_OUTPUT_ERROR: the capturing callbacks drop it.
FailureMessage ==
  /\ failures < MaxFailures
  /\ failures' = IF callback = "client" THEN failures + 1 ELSE failures

\* Fault: the error overtakes what is still buffered.
ReportErrorFirst(p) ==
  /\ ScriptRunning(p)
  /\ FailureMessage
  /\ UNCHANGED <<IsBuffering, MessageBuf, callback, Buf, stack, shown, said, tallies>>

ReportError(p) ==
  /\ ScriptRunning(p)
  /\ UtilFlushMessageBuffer
  /\ FailureMessage
  /\ UNCHANGED <<IsBuffering, callback, stack, said, tallies>>

luaRuntimeError == ReportError("lua")

\* The exception's own message raises: that is said at once, past the buffer, and
\* nothing is flushed.
MessageUnobtainable ==
  /\ ScriptRunning("rb")
  /\ unexplained < MaxFailures
  /\ unexplained' = IF callback = "client" THEN unexplained + 1 ELSE unexplained
  /\ UNCHANGED <<IsBuffering, MessageBuf, callback, Buf, stack, shown, said,
                 failures, refusals>>

topLevelExceptionHandler == ReportError("rb") \/ MessageUnobtainable

-----------------------------------------------------------------------------
(* UtilExecuteCommand                                                      *)

Push(kind, prov, timed, prev) ==
  stack' = Append(stack, [kind |-> kind, prov |-> prov, timed |-> timed,
                          prev |-> prev, emitted |-> <<>>])

\* Buffering: CAutoSetOutputCallback::Install, then Execute begins.
ExecuteCaptured(p) ==
  /\ ScriptRunning(p)
  /\ IsBuffering > 0
  /\ Len(said) < MaxSaid
  /\ Len(stack) < MaxDepth
  /\ Push("capture", p, FALSE, callback)
  /\ callback' = "capture"
  /\ UNCHANGED <<IsBuffering, MessageBuf, Buf, shown, said, failures, tallies>>

\* A call after which the client has not the callbacks it should have.
Refused == refusals < MaxRefusals /\ refusals' = refusals + 1

\* Install fails.  The destructor still calls SetOutputCallbacks(m_Prev), and
\* m_Prev is null when it was GetOutputCallbacks that failed.
InstallFails(p) ==
  /\ ScriptRunning(p)
  /\ IsBuffering > 0
  /\ \/ "get" \in CallbackFailure /\ callback' = "none" /\ Refused
     \/ "set" \in CallbackFailure /\ UNCHANGED <<callback, refusals>>
  /\ UNCHANGED <<IsBuffering, MessageBuf, Buf, stack, shown, said, failures, unexplained>>

\* The destructor puts back what Install found.  Should the engine refuse, which
\* is asserted not to happen, the capturing callbacks stay.
Revert(prev) ==
  \/ callback' = prev /\ UNCHANGED refusals
  \/ "revert" \in CallbackFailure /\ UNCHANGED callback /\ Refused

\* Not buffering: Execute begins with the client's own callbacks.
ExecuteDirect(p) ==
  /\ ScriptRunning(p)
  /\ IsBuffering = 0
  /\ Len(stack) < MaxDepth
  /\ Push("direct", p, FALSE, callback)
  /\ UNCHANGED <<IsBuffering, MessageBuf, callback, Buf, shown, said, failures, tallies>>

\* The command prints.  Output that is not DEBUG_OUTPUT_NORMAL is ignored by
\* the capturing callbacks.
CommandPrints(text) ==
  /\ \/ /\ InKind({"capture"})
        /\ Len(Top.emitted) + Len(text) <= MaxEmitted
        /\ stack' = [stack EXCEPT ![Len(stack)].emitted = @ \o text]
        /\ UNCHANGED said
     \/ /\ InKind({"direct"})
        /\ Len(said) + Len(text) <= MaxSaid
        /\ said' = said \o text
        /\ UNCHANGED stack
  /\ Output(callback, text)
  /\ UNCHANGED <<IsBuffering, MessageBuf, callback, failures, tallies>>

\* Execute succeeded: the destructor reverts the callbacks, and what they
\* captured goes to the buffer.
CapturedReturns ==
  /\ InKind({"capture"})
  /\ Revert(Top.prev)
  /\ UtilBufferOutput(callback', Buf)
  /\ stack' = Pop
  /\ UNCHANGED <<IsBuffering, failures, unexplained>>

\* Fault: an error leaves the capturing callbacks installed.
CapturedFailsUnreverted ==
  /\ InKind({"capture"})
  /\ stack' = Pop
  /\ UNCHANGED <<IsBuffering, MessageBuf, callback, Buf, shown, said, failures, tallies>>

\* Execute failed: the error message goes to the capturing callbacks, which
\* ignore it, and nothing is buffered.
CapturedFails ==
  /\ InKind({"capture"})
  /\ Revert(Top.prev)
  /\ stack' = Pop
  /\ UNCHANGED <<IsBuffering, MessageBuf, Buf, shown, said, failures, unexplained>>

DirectReturns ==
  /\ InKind({"direct"})
  /\ stack' = Pop
  /\ UNCHANGED <<IsBuffering, MessageBuf, callback, Buf, shown, said, failures, tallies>>

-----------------------------------------------------------------------------
(* The host commands of dllmain.cpp                                        *)

\* The debugger invokes a host command at its prompt, or because a script
\* executes it.
MayInvoke ==
  \/ stack = <<>>
  \/ /\ Len(stack) < MaxDepth
     /\ \/ InKind({"direct"})
        \/ InKind({"capture"}) /\ NestWhileBuffering

runscript(p) ==
  /\ "runscript" \in HostCommand
  /\ MayInvoke
  /\ \E timed \in TimeRun :
       /\ timed => Len(said) < MaxSaid
       /\ Push("runscript", p, timed, "none")
  /\ UNCHANGED <<IsBuffering, MessageBuf, callback, Buf, shown, said, failures, tallies>>

evalstring(p) ==
  /\ "evalstring" \in HostCommand
  /\ MayInvoke
  /\ Push("evalstring", p, FALSE, "none")
  /\ UNCHANGED <<IsBuffering, MessageBuf, callback, Buf, shown, said, failures, tallies>>

\* Fault: the run ends with buffering still on.
runscript_exit_still_buffering(failed) ==
  /\ InKind({"runscript"})
  /\ UtilFlushMessageBuffer
  /\ IF failed THEN FailureMessage ELSE UNCHANGED failures
  /\ stack' = Pop
  /\ UNCHANGED <<IsBuffering, callback, said, tallies>>

\* runscript from the return of Run: the timing line of a successful -t run,
\* then the reset of IsBuffering, the flush, and the failure message.
runscript_exit(failed) ==
  LET line == IF Top.timed /\ ~failed THEN Timing ELSE <<>> IN
  /\ InKind({"runscript"})
  /\ said' = said \o line
  /\ shown' = Shown(callback, line \o MessageBuf)
  /\ Buf' = Copied(callback, Copied(callback, Buf, line), MessageBuf)
  /\ MessageBuf' = <<>>
  /\ IsBuffering' = 0
  /\ IF failed THEN FailureMessage ELSE UNCHANGED failures
  /\ stack' = Pop
  /\ UNCHANGED <<callback, tallies>>

\* evalstring from the return of RunString: nothing but the failure message.
evalstring_exit(failed) ==
  /\ InKind({"evalstring"})
  /\ IF failed THEN FailureMessage ELSE UNCHANGED failures
  /\ stack' = Pop
  /\ UNCHANGED <<IsBuffering, MessageBuf, callback, Buf, shown, said, tallies>>

-----------------------------------------------------------------------------

Printing ==
  \E text \in Text :
    luaOutputCb(text) \/ DbgScriptIO_write(text) \/ DbgScriptStdIO_write(text)

Buffering ==
  \/ dbgscript_startBuffering \/ dbgscript_stopBuffering
  \/ dbgscript_start_buffering \/ dbgscript_stop_buffering
  \/ DbgScript_start_buffering \/ DbgScript_stop_buffering

Reporting == luaRuntimeError \/ topLevelExceptionHandler

Executing ==
  \/ \E p \in Provider : ExecuteCaptured(p) \/ InstallFails(p) \/ ExecuteDirect(p)
  \/ \E text \in Chunk : CommandPrints(text)
  \/ CapturedReturns
  \/ CapturedFails
  \/ DirectReturns

Hosting ==
  \/ \E p \in Provider : runscript(p) \/ evalstring(p)
  \/ \E failed \in BOOLEAN : runscript_exit(failed) \/ evalstring_exit(failed)

Next == Printing \/ Buffering \/ Reporting \/ Executing \/ Hosting

Spec == Init /\ [][Next]_vars

-----------------------------------------------------------------------------
(* Properties                                                              *)

\* The asserts of UtilFlushMessageBuffer and UtilBufferOutput: the last byte of
\* MessageBuf stays free for the NUL, whatever is written, captured, flushed or
\* truncated, by however many nested invocations.
RoomForNul == BufPosition <= MSG_CCH - 1

\* No text is lost, doubled or overtaken between a script's print and the
\* debugger window: what was handed over is what was shown followed by what is
\* still held, across overflow flushes, captures and nested start/stop calls.
TextInOrder == shown \o MessageBuf = said

\* Text is held back only while somebody asked for buffering: otherwise the
\* next print, which then goes out directly, would overtake it.
HeldOnlyWhileBuffering == IsBuffering = 0 => MessageBuf = <<>>

\* "The buffer will also automatically be flushed on script terminaton, for any
\* reason" (docs/shared/stop_buffering.txt): no text is held at the prompt.
FlushedAtTermination == stack = <<>> => MessageBuf = <<>>

\* After !runscript the prompt finds no text held and buffering off, however
\* unbalanced the script's calls and however it ended.
NothingLeftAtPrompt == stack = <<>> => IsBuffering = 0 /\ MessageBuf = <<>>

\* The assert at the top of UtilBufferOutput, at the point where
\* UtilExecuteCommand calls it: buffering was on when the command was started
\* and is still on when it returns.
BufferingWhenCaptureReturns == InKind({"capture"}) => IsBuffering > 0

\* The callbacks the client has once the captures in progress are over: those
\* the outermost of them found.
ClientHas(cb) ==
  LET Capture(i) == stack[i].kind = "capture" IN
  \/ /\ \A i \in 1 .. Len(stack) : ~Capture(i)
     /\ callback = cb
  \/ \E i \in 1 .. Len(stack) :
       /\ Capture(i)
       /\ \A j \in 1 .. i - 1 : ~Capture(j)
       /\ stack[i].prev = cb

\* CAutoSetOutputCallback: whichever way captures end and however they nest, the
\* callbacks that are put back at last are those that were found at first, except
\* by a step in which the engine refuses: GetOutputCallbacks, after which the
\* destructor puts back null, or the destructor's own SetOutputCallbacks.
CallbacksReverted ==
  [][ refusals' = refusals =>
        \A cb \in Callback : ClientHas(cb) => ClientHas(cb)' ]_vars

\* The message about a failed script follows everything printed before the failure,
\* so that the traceback is read after the output that led to it.  The exception,
\* counted apart, is Ruby's message that the exception's own could not be had: it
\* overtakes what is buffered, and no other provider prints such a one.  (What the
\* engine helpers say of a failed call is printed at once and is not counted.)
FailureFollowsText ==
  [][ /\ failures' # failures => shown' = said
      /\ unexplained' # unexplained => ScriptRunning("rb") /\ UNCHANGED failures ]_vars

\* Start and stop nest: what a script has buffered leaves the buffer before its
\* outermost stop only because the buffer filled or the script ended with an
\* error report.
HeldUntilOutermostStop ==
  [][ (IsBuffering' > 0 /\ failures' = failures /\ shown' # shown)
        => BufPosition + Len(said') - Len(said) > MSG_CCH - 1 ]_vars

\* What a captured command printed reaches the script's output whole: "Executes a
\* debugger command `cmd` and prints the output" (docs/Lua/dbgscript.rst).
CapturedWhole ==
  [][ CapturedReturns => said' = said \o Top.emitted ]_vars

-----------------------------------------------------------------------------
(* The abstract specification                                              *)

Stream == INSTANCE TextStream WITH
  Capacity <- MSG_CCH - 1,
  written <- said,
  seen <- shown,
  holding <- IsBuffering > 0,
  prompt <- stack = <<>>,
  reports <- failures

\* The buffer, the captures and the nested invocations together are the stream of
\* text that the documents of start_buffering and stop_buffering describe.
ImplementsStream == Stream!Spec
=============================================================================
