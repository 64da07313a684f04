------------------------- MODULE OutputBufferProofs -------------------------
(***************************************************************************)
(* Theorems about OutputBuffer, for every capacity, every set of texts and *)
(* every bound.                                                            *)
(***************************************************************************)
EXTENDS OutputBuffer, SequenceFacts

-----------------------------------------------------------------------------
(* Lemmas about the operators the actions are built from                   *)

\* Truncation keeps a text a text and brings it within the given length.
LEMMA TruncateFits ==
  ASSUME NEW text \in Seq(Char), NEW cch \in Nat
  PROVE  /\ Truncate(text, cch) \in Seq(Char)
         /\ Len(Truncate(text, cch)) <= cch
         /\ Len(text) <= cch => Truncate(text, cch) = text
<1>1. CASE Len(text) <= cch
  BY <1>1 DEF Truncate
<1>2. CASE ~(Len(text) <= cch)
  <2>1. Len(text) \in Nat /\ \A i \in 1 .. cch : text[i] \in Char
    BY <1>2, LenProperties, ElementOfSeq
  <2>2. SubSeq(text, 1, cch) \in Seq(Char) /\ Len(SubSeq(text, 1, cch)) <= cch
    BY <2>1, SubSeqProperties
  <2> QED BY <1>2, <2>2 DEF Truncate
<1> QED BY <1>1, <1>2

\* Entering an invocation appends its frame.
LEMMA PushFrame ==
  ASSUME stack \in Seq(Frame), NEW kind, NEW p \in Provider, NEW timed \in BOOLEAN,
         NEW prev \in Callback,
         kind \in {"runscript", "evalstring", "capture", "direct"},
         Push(kind, p, timed, prev)
  PROVE  /\ stack' \in Seq(Frame)
         /\ Len(stack') = Len(stack) + 1
         /\ \A i \in 1 .. Len(stack) : stack'[i] = stack[i]
         /\ stack'[Len(stack')].kind = kind
         /\ stack'[Len(stack')].prev = prev
         /\ stack'[Len(stack')].timed = timed
<1> DEFINE f == [kind |-> kind, prov |-> p, timed |-> timed,
                 prev |-> prev, emitted |-> <<>>]
<1>1. f \in Frame
  BY EmptySeq DEF Frame
<1>2. stack' = Append(stack, f)
  BY DEF Push
<1> HIDE DEF f
<1>3. /\ stack' \in Seq(Frame)
      /\ Len(stack') = Len(stack) + 1
      /\ \A i \in 1 .. Len(stack) : stack'[i] = stack[i]
      /\ stack'[Len(stack')] = f
  BY <1>1, <1>2, PushFacts
<1> QED BY <1>3 DEF f

\* Leaving an invocation keeps the frames below it.
LEMMA PopFrame ==
  ASSUME stack \in Seq(Frame), stack # <<>>
  PROVE  /\ Len(stack) \in Nat \ {0}
         /\ Top \in Frame
         /\ Pop \in Seq(Frame)
         /\ Len(Pop) = Len(stack) - 1
         /\ \A i \in 1 .. Len(stack) - 1 : Pop[i] = stack[i]
<1>1. /\ Len(stack) \in Nat \ {0}
      /\ Pop \in Seq(Frame)
      /\ Len(Pop) = Len(stack) - 1
      /\ \A i \in 1 .. Len(stack) - 1 : Pop[i] = stack[i]
  BY FrontFacts DEF Pop
<1>2. Len(stack) \in 1 .. Len(stack)
  BY <1>1
<1> QED BY <1>1, <1>2, ElementOfSeq DEF Top

\* Output reaches one of the two places texts can go.
LEMMA OutputType ==
  ASSUME OutputBufferAssumption, TypeOK, NEW cb, NEW text \in Seq(Char), Output(cb, text)
  PROVE  shown' \in Seq(Char) /\ Buf' \in Seq(Char)
<1>1. shown \o text \in Seq(Char)
  BY ConcatProperties DEF TypeOK
<1>2. CAP_CCH - 1 \in Nat
  BY DEF OutputBufferAssumption
<1> QED BY <1>1, <1>2, TruncateFits DEF Output, Shown, Copied, TypeOK

\* UtilBufferOutput keeps the NUL's byte free, whatever it is given, and when
\* the text fits and the debugger has its own callbacks, it keeps every
\* character, in order.
LEMMA BufferOutput ==
  ASSUME OutputBufferAssumption, TypeOK, RoomForNul,
         NEW cb, NEW text \in Seq(Char), UtilBufferOutput(cb, text)
  PROVE  /\ MessageBuf' \in Seq(Char) /\ shown' \in Seq(Char)
         /\ Buf' \in Seq(Char) /\ said' \in Seq(Char)
         /\ RoomForNul'
         /\ cb = "client" /\ Len(text) <= MSG_CCH - 1 /\ TextInOrder => TextInOrder'
<1>1. MSG_CCH - 1 \in Nat
  BY DEF OutputBufferAssumption
<1>2. said' \in Seq(Char)
  BY ConcatProperties DEF UtilBufferOutput, TypeOK
<1>3. CASE /\ BufPosition + Len(text) <= MSG_CCH - 1
           /\ MessageBuf' = MessageBuf \o text
           /\ UNCHANGED <<shown, Buf>>
  <2>1. MessageBuf' \in Seq(Char) /\ Len(MessageBuf') = Len(MessageBuf) + Len(text)
    BY <1>3, ConcatProperties DEF TypeOK
  <2>2. shown \o (MessageBuf \o text) = (shown \o MessageBuf) \o text
    <3>1. shown \in Seq(Char) /\ MessageBuf \in Seq(Char)
      BY DEF TypeOK
    <3> QED BY <3>1, ConcatRegroup
  <2> QED BY <1>2, <1>3, <2>1, <2>2
          DEF BufPosition, RoomForNul, TextInOrder, UtilBufferOutput, TypeOK
<1>4. CASE /\ BufPosition + Len(text) > MSG_CCH - 1
           /\ Output(cb, MessageBuf)
           /\ MessageBuf' = Truncate(text, MSG_CCH - 1)
  <2>1. MessageBuf' \in Seq(Char) /\ Len(MessageBuf') <= MSG_CCH - 1
    BY <1>1, <1>4, TruncateFits
  <2>2. shown' \in Seq(Char) /\ Buf' \in Seq(Char)
    BY <1>4, OutputType DEF TypeOK
  <2>3. ASSUME cb = "client", Len(text) <= MSG_CCH - 1, TextInOrder
        PROVE  TextInOrder'
    <3>1. shown' = shown \o MessageBuf /\ MessageBuf' = text
      BY <1>1, <1>4, <2>3, TruncateFits DEF Output, Shown
    <3> QED BY <2>3, <3>1 DEF TextInOrder, UtilBufferOutput
  <2> QED BY <1>2, <2>1, <2>2, <2>3 DEF RoomForNul, BufPosition
<1> QED BY <1>3, <1>4 DEF UtilBufferOutput

\* A command's print changes only what its frame has recorded of it.
LEMMA EmitFrame ==
  ASSUME stack \in Seq(Frame), stack # <<>>, NEW text \in Seq(Char),
         stack' = [stack EXCEPT ![Len(stack)].emitted = @ \o text]
  PROVE  /\ stack' \in Seq(Frame)
         /\ Len(stack') = Len(stack)
         /\ \A i \in 1 .. Len(stack) :
              /\ stack'[i].kind = stack[i].kind
              /\ stack'[i].prev = stack[i].prev
              /\ stack'[i].timed = stack[i].timed
<1> DEFINE f == [Top EXCEPT !.emitted = @ \o text]
<1>1. Top \in Frame /\ Len(stack) \in 1 .. Len(stack)
  BY PopFrame
<1>2. Top.emitted \o text \in Seq(Char)
  BY <1>1, ConcatProperties DEF Frame
<1>3. /\ f \in Frame
      /\ f.kind = Top.kind /\ f.prev = Top.prev /\ f.timed = Top.timed
  BY <1>1, <1>2 DEF Frame
<1> DEFINE t == [stack EXCEPT ![Len(stack)] = f]
<1>4. stack' = t
  BY DEF Top
<1> HIDE DEF f
<1>5. /\ t \in Seq(Frame)
      /\ Len(t) = Len(stack)
      /\ t[Len(stack)] = f
      /\ \A i \in 1 .. Len(stack) : i # Len(stack) => t[i] = stack[i]
  BY <1>1, <1>3, ReplaceFacts
<1> HIDE DEF t
<1>6. /\ stack' \in Seq(Frame)
      /\ Len(stack') = Len(stack)
      /\ stack'[Len(stack)] = f
      /\ \A i \in 1 .. Len(stack) : i # Len(stack) => stack'[i] = stack[i]
  BY <1>4, <1>5
<1> QED BY <1>3, <1>6 DEF Top

-----------------------------------------------------------------------------
(* Types and the bound of MessageBuf: no restriction on the constants      *)

\* Printing, by any provider, buffered or not.
LEMMA WritesBounded ==
  ASSUME OutputBufferAssumption, TypeOK, RoomForNul,
         NEW p, NEW text \in Seq(Char), Writes(p, text)
  PROVE  TypeOK' /\ RoomForNul'
<1>1. CASE IsBuffering > 0 /\ UtilBufferOutput(callback, text)
  BY <1>1, BufferOutput DEF Writes, TypeOK, tallies
<1>2. CASE /\ IsBuffering = 0
           /\ Output(callback, text)
           /\ said' = said \o text
           /\ UNCHANGED MessageBuf
  <2>1. said' \in Seq(Char)
    BY <1>2, ConcatProperties DEF TypeOK
  <2> QED BY <1>2, <2>1, OutputType DEF Writes, TypeOK, RoomForNul, BufPosition, tallies
<1> QED BY <1>1, <1>2 DEF Writes, Emit

\* Emptying MessageBuf to the debugger.
LEMMA FlushBounded ==
  ASSUME OutputBufferAssumption, TypeOK, UtilFlushMessageBuffer
  PROVE  /\ MessageBuf' \in Seq(Char) /\ shown' \in Seq(Char) /\ Buf' \in Seq(Char)
         /\ RoomForNul'
<1>1. shown' \in Seq(Char) /\ Buf' \in Seq(Char)
  BY OutputType DEF UtilFlushMessageBuffer, TypeOK
<1> QED BY <1>1, EmptySeq
        DEF UtilFlushMessageBuffer, RoomForNul, BufPosition, OutputBufferAssumption

\* The exit path of runscript.
LEMMA RunscriptExitBounded ==
  ASSUME OutputBufferAssumption, TypeOK, NEW failed \in BOOLEAN, runscript_exit(failed)
  PROVE  TypeOK' /\ RoomForNul'
<1> DEFINE line == IF Top.timed /\ ~failed THEN Timing ELSE <<>>
<1>1. line \in Seq(Char)
  BY EmptySeq DEF OutputBufferAssumption
<1>2. /\ said' = said \o line
      /\ shown' = Shown(callback, line \o MessageBuf)
      /\ Buf' = Copied(callback, Copied(callback, Buf, line), MessageBuf)
      /\ MessageBuf' = <<>> /\ IsBuffering' = 0 /\ stack' = Pop
      /\ failures' \in {failures, failures + 1}
      /\ UNCHANGED <<callback, unexplained, refusals>>
      /\ stack # <<>>
  BY DEF runscript_exit, FailureMessage, InKind, tallies
<1> HIDE DEF line
<1>3. /\ said \o line \in Seq(Char)
      /\ line \o MessageBuf \in Seq(Char)
  BY <1>1, ConcatProperties DEF TypeOK
<1>4. shown \o (line \o MessageBuf) \in Seq(Char)
  BY <1>3, ConcatProperties DEF TypeOK
<1>5. CAP_CCH - 1 \in Nat
  BY DEF OutputBufferAssumption
<1>6. \A old, text \in Seq(Char) : Copied(callback, old, text) \in Seq(Char)
  BY <1>5, TruncateFits DEF Copied
<1>7. said' \in Seq(Char) /\ shown' \in Seq(Char) /\ Buf' \in Seq(Char)
  BY <1>1, <1>2, <1>3, <1>4, <1>6 DEF Shown, TypeOK
<1>8. stack' \in Seq(Frame) /\ failures' \in Nat
  BY <1>2, PopFrame DEF TypeOK
<1> QED BY <1>2, <1>7, <1>8, EmptySeq
        DEF TypeOK, RoomForNul, BufPosition, OutputBufferAssumption

\* Every step keeps the types and the NUL's byte.
LEMMA StepBounded ==
  ASSUME TypeOK, RoomForNul, [Next]_vars
  PROVE  TypeOK' /\ RoomForNul'
<1> USE OutputBufferAssumption DEF tallies
<1>1. CASE Printing
  <2>1. PICK text \in Text :
          luaOutputCb(text) \/ DbgScriptIO_write(text) \/ DbgScriptStdIO_write(text)
    BY <1>1 DEF Printing
  <2>2. text \in Seq(Char)
    BY DEF OutputBufferAssumption
  <2> QED BY <2>1, <2>2, WritesBounded
          DEF luaOutputCb, DbgScriptIO_write, DbgScriptStdIO_write
<1>2. ASSUME NEW p, StartBuffering(p) PROVE TypeOK' /\ RoomForNul'
  BY <1>2 DEF StartBuffering, TypeOK, RoomForNul, BufPosition
<1>3. ASSUME NEW p, StopBuffering(p) PROVE TypeOK' /\ RoomForNul'
  <2>1. CASE IsBuffering = 1
    BY <1>3, <2>1, FlushBounded DEF StopBuffering, TypeOK
  <2>2. CASE IsBuffering # 1
    BY <1>3, <2>2 DEF StopBuffering, TypeOK, RoomForNul, BufPosition
  <2> QED BY <2>1, <2>2
<1>4. ASSUME NEW p, ReportError(p) PROVE TypeOK' /\ RoomForNul'
  BY <1>4, FlushBounded DEF ReportError, FailureMessage, TypeOK
<1>5. CASE Executing
  <2>1. ASSUME NEW p \in Provider, ExecuteCaptured(p) PROVE TypeOK' /\ RoomForNul'
    <3>1. stack' \in Seq(Frame)
      BY <2>1, PushFrame DEF ExecuteCaptured, TypeOK
    <3> QED BY <2>1, <3>1 DEF ExecuteCaptured, TypeOK, Callback, RoomForNul, BufPosition
  <2>2. ASSUME NEW p \in Provider, InstallFails(p) PROVE TypeOK' /\ RoomForNul'
    BY <2>2 DEF InstallFails, Refused, TypeOK, Callback, RoomForNul, BufPosition
  <2>3. ASSUME NEW p \in Provider, ExecuteDirect(p) PROVE TypeOK' /\ RoomForNul'
    <3>1. stack' \in Seq(Frame)
      BY <2>3, PushFrame DEF ExecuteDirect, TypeOK
    <3> QED BY <2>3, <3>1 DEF ExecuteDirect, TypeOK, RoomForNul, BufPosition
  <2>4. ASSUME NEW text \in Chunk, CommandPrints(text) PROVE TypeOK' /\ RoomForNul'
    <3>1. text \in Seq(Char)
      BY DEF OutputBufferAssumption
    <3>2. shown' \in Seq(Char) /\ Buf' \in Seq(Char)
      BY <2>4, <3>1, OutputType DEF CommandPrints
    <3>3. said \o text \in Seq(Char)
      BY <3>1, ConcatProperties DEF TypeOK
    <3>4. stack' \in Seq(Frame)
      BY <2>4, <3>1, EmitFrame DEF CommandPrints, InKind, TypeOK
    <3> QED BY <2>4, <3>2, <3>3, <3>4 DEF CommandPrints, TypeOK, RoomForNul, BufPosition
  <2>5. CASE CapturedReturns
    <3>1. stack' \in Seq(Frame) /\ callback' \in Callback /\ refusals' \in Nat
      BY <2>5, PopFrame DEF CapturedReturns, Revert, Refused, InKind, TypeOK, Frame
    <3>2. /\ MessageBuf' \in Seq(Char) /\ shown' \in Seq(Char)
          /\ Buf' \in Seq(Char) /\ said' \in Seq(Char)
          /\ RoomForNul'
      BY <2>5, BufferOutput DEF CapturedReturns, TypeOK
    <3> QED BY <2>5, <3>1, <3>2 DEF CapturedReturns, TypeOK
  <2>6. CASE CapturedFails
    <3>1. stack' \in Seq(Frame) /\ callback' \in Callback /\ refusals' \in Nat
      BY <2>6, PopFrame DEF CapturedFails, Revert, Refused, InKind, TypeOK, Frame
    <3> QED BY <2>6, <3>1 DEF CapturedFails, TypeOK, RoomForNul, BufPosition
  <2>7. CASE DirectReturns
    <3>1. stack' \in Seq(Frame)
      BY <2>7, PopFrame DEF DirectReturns, InKind, TypeOK
    <3> QED BY <2>7, <3>1 DEF DirectReturns, TypeOK, RoomForNul, BufPosition
  <2> QED BY <1>5, <2>1, <2>2, <2>3, <2>4, <2>5, <2>6, <2>7 DEF Executing
<1>6. CASE Hosting
  <2>1. ASSUME NEW p \in Provider, runscript(p) PROVE TypeOK' /\ RoomForNul'
    <3>1. PICK timed \in BOOLEAN : Push("runscript", p, timed, "none")
      BY <2>1 DEF runscript, OutputBufferAssumption
    <3>2. stack' \in Seq(Frame)
      BY <3>1, PushFrame DEF TypeOK, Callback
    <3> QED BY <2>1, <3>2 DEF runscript, TypeOK, RoomForNul, BufPosition
  <2>2. ASSUME NEW p \in Provider, evalstring(p) PROVE TypeOK' /\ RoomForNul'
    <3>1. stack' \in Seq(Frame)
      BY <2>2, PushFrame DEF evalstring, TypeOK, Callback
    <3> QED BY <2>2, <3>1 DEF evalstring, TypeOK, RoomForNul, BufPosition
  <2>3. ASSUME NEW failed \in BOOLEAN, runscript_exit(failed) PROVE TypeOK' /\ RoomForNul'
    BY <2>3, RunscriptExitBounded
  <2>4. ASSUME NEW failed \in BOOLEAN, evalstring_exit(failed) PROVE TypeOK' /\ RoomForNul'
    <3>1. stack' \in Seq(Frame)
      BY <2>4, PopFrame DEF evalstring_exit, InKind, TypeOK
    <3> QED BY <2>4, <3>1 DEF evalstring_exit, FailureMessage, TypeOK, RoomForNul, BufPosition
  <2> QED BY <1>6, <2>1, <2>2, <2>3, <2>4 DEF Hosting
<1>7. CASE UNCHANGED vars
  BY <1>7 DEF vars, TypeOK, RoomForNul, BufPosition
<1>8. CASE Buffering
  BY <1>2, <1>3, <1>8 DEF Buffering, dbgscript_startBuffering, dbgscript_stopBuffering,
     dbgscript_start_buffering, dbgscript_stop_buffering,
     DbgScript_start_buffering, DbgScript_stop_buffering
<1>9. CASE Reporting
  <2>1. ASSUME MessageUnobtainable PROVE TypeOK' /\ RoomForNul'
    BY <2>1 DEF MessageUnobtainable, TypeOK, RoomForNul, BufPosition
  <2> QED BY <1>4, <1>9, <2>1 DEF Reporting, luaRuntimeError, topLevelExceptionHandler
<1> QED BY <1>1, <1>5, <1>6, <1>7, <1>8, <1>9 DEF Next

\* The state always has its types.
THEOREM TypeCorrect == Spec => []TypeOK
<1>1. Init => TypeOK /\ RoomForNul
  BY OutputBufferAssumption, EmptySeq
     DEF Init, TypeOK, RoomForNul, BufPosition, Callback, OutputBufferAssumption
<1>2. TypeOK /\ RoomForNul /\ [Next]_vars => TypeOK' /\ RoomForNul'
  BY StepBounded
<1> QED BY <1>1, <1>2, PTL DEF Spec

\* The asserts that guard MessageBuf hold whatever scripts print, whatever the
\* commands they run print and however invocations nest: the buffer never runs
\* over its end and always has room for its NUL.
THEOREM MessageBufBounded == Spec => []RoomForNul
<1>1. Init => TypeOK /\ RoomForNul
  BY OutputBufferAssumption, EmptySeq
     DEF Init, TypeOK, RoomForNul, BufPosition, Callback, OutputBufferAssumption
<1>2. TypeOK /\ RoomForNul /\ [Next]_vars => TypeOK' /\ RoomForNul'
  BY StepBounded
<1> QED BY <1>1, <1>2, PTL DEF Spec

-----------------------------------------------------------------------------
(* The callbacks of the client: no restriction on the constants            *)

\* A step that leaves the frames' kinds, what they found and the callbacks alone.
LEMMA SameFramesKeepClient ==
  ASSUME NEW cb, ClientHas(cb), callback' = callback, Len(stack') = Len(stack),
         \A i \in 1 .. Len(stack) :
           stack'[i].kind = stack[i].kind /\ stack'[i].prev = stack[i].prev
  PROVE  ClientHas(cb)'
<1>1. CASE /\ \A i \in 1 .. Len(stack) : stack[i].kind # "capture"
           /\ callback = cb
  BY <1>1 DEF ClientHas
<1>2. ASSUME NEW i \in 1 .. Len(stack), stack[i].kind = "capture", stack[i].prev = cb,
             \A j \in 1 .. i - 1 : stack[j].kind # "capture"
      PROVE  ClientHas(cb)'
  <2>1. \A j \in 1 .. i - 1 : j \in 1 .. Len(stack)
    OBVIOUS
  <2> QED BY <1>2, <2>1 DEF ClientHas
<1> QED BY <1>1, <1>2 DEF ClientHas

\* Entering an invocation: a capture keeps the callbacks it found, any other
\* leaves them.
LEMMA EnterKeepsClient ==
  ASSUME stack \in Seq(Frame), NEW cb, ClientHas(cb), NEW kind, NEW p \in Provider,
         NEW timed \in BOOLEAN, NEW prev \in Callback,
         kind \in {"runscript", "evalstring", "capture", "direct"},
         Push(kind, p, timed, prev),
         IF kind = "capture" THEN prev = callback ELSE callback' = callback
  PROVE  ClientHas(cb)'
<1>1. /\ Len(stack) \in Nat
      /\ Len(stack') = Len(stack) + 1
      /\ \A i \in 1 .. Len(stack) : stack'[i] = stack[i]
      /\ stack'[Len(stack')].kind = kind
      /\ stack'[Len(stack')].prev = prev
  BY PushFrame, LenProperties
<1>2. CASE /\ \A i \in 1 .. Len(stack) : stack[i].kind # "capture"
           /\ callback = cb
  <2>1. CASE kind = "capture"
    <3>1. /\ Len(stack') \in 1 .. Len(stack')
          /\ stack'[Len(stack')].kind = "capture"
          /\ stack'[Len(stack')].prev = cb
          /\ \A j \in 1 .. Len(stack') - 1 : stack'[j].kind # "capture"
      BY <1>1, <1>2, <2>1
    <3> QED BY <3>1 DEF ClientHas
  <2>2. CASE kind # "capture"
    <3>1. \A i \in 1 .. Len(stack') : stack'[i].kind # "capture"
      BY <1>1, <1>2, <2>2
    <3> QED BY <1>2, <2>2, <3>1 DEF ClientHas
  <2> QED BY <2>1, <2>2
<1>3. ASSUME NEW i \in 1 .. Len(stack), stack[i].kind = "capture", stack[i].prev = cb,
             \A j \in 1 .. i - 1 : stack[j].kind # "capture"
      PROVE  ClientHas(cb)'
  <2>1. /\ i \in 1 .. Len(stack')
        /\ stack'[i].kind = "capture" /\ stack'[i].prev = cb
        /\ \A j \in 1 .. i - 1 : stack'[j].kind # "capture"
    BY <1>1, <1>3
  <2> QED BY <2>1 DEF ClientHas
<1> QED BY <1>2, <1>3 DEF ClientHas

\* Leaving one: a capture puts back what it found.
LEMMA LeaveKeepsClient ==
  ASSUME stack \in Seq(Frame), stack # <<>>, stack' = Pop, NEW cb, ClientHas(cb),
         callback' = IF Top.kind = "capture" THEN Top.prev ELSE callback
  PROVE  ClientHas(cb)'
<1>1. /\ Len(stack) \in Nat \ {0}
      /\ Len(stack') = Len(stack) - 1
      /\ \A i \in 1 .. Len(stack) - 1 : stack'[i] = stack[i]
  BY PopFrame
<1>2. CASE /\ \A i \in 1 .. Len(stack) : stack[i].kind # "capture"
           /\ callback = cb
  <2>1. callback' = cb
    BY <1>1, <1>2 DEF Top
  <2>2. \A i \in 1 .. Len(stack') : stack'[i].kind # "capture"
    BY <1>1, <1>2
  <2> QED BY <2>1, <2>2 DEF ClientHas
<1>3. ASSUME NEW i \in 1 .. Len(stack), stack[i].kind = "capture", stack[i].prev = cb,
             \A j \in 1 .. i - 1 : stack[j].kind # "capture"
      PROVE  ClientHas(cb)'
  <2>1. CASE i = Len(stack)
    <3>1. callback' = cb /\ \A j \in 1 .. Len(stack') : stack'[j].kind # "capture"
      BY <1>1, <1>3, <2>1 DEF Top
    <3> QED BY <3>1 DEF ClientHas
  <2>2. CASE i # Len(stack)
    <3>1. i \in 1 .. Len(stack) - 1 /\ \A j \in 1 .. i - 1 : j \in 1 .. Len(stack) - 1
      BY <1>1, <2>2
    <3>2. /\ i \in 1 .. Len(stack')
          /\ stack'[i].kind = "capture" /\ stack'[i].prev = cb
          /\ \A j \in 1 .. i - 1 : stack'[j].kind # "capture"
      BY <1>1, <1>3, <3>1
    <3> QED BY <3>2 DEF ClientHas
  <2> QED BY <2>1, <2>2
<1> QED BY <1>2, <1>3 DEF ClientHas

LEMMA StepCallbacks ==
  ASSUME TypeOK, NEW cb, ClientHas(cb), [Next]_vars, refusals' = refusals
  PROVE  ClientHas(cb)'
<1> USE OutputBufferAssumption
<1>1. stack \in Seq(Frame) /\ callback \in Callback /\ refusals \in Nat
  BY DEF TypeOK
<1>2. ASSUME stack' = stack, callback' = callback PROVE ClientHas(cb)'
  BY <1>2 DEF ClientHas
<1>3. CASE Printing \/ Buffering \/ Reporting
  <2>1. \A p, text : Writes(p, text) => UNCHANGED <<stack, callback>>
    BY DEF Writes
  <2>2. \A p : StartBuffering(p) \/ StopBuffering(p) => UNCHANGED <<stack, callback>>
    BY DEF StartBuffering, StopBuffering
  <2>3. \A p : ReportError(p) \/ MessageUnobtainable => UNCHANGED <<stack, callback>>
    BY DEF ReportError, MessageUnobtainable
  <2>4. CASE Printing
    BY <1>2, <2>1, <2>4
       DEF Printing, luaOutputCb, DbgScriptIO_write, DbgScriptStdIO_write
  <2>5. CASE Buffering
    BY <1>2, <2>2, <2>5 DEF Buffering, dbgscript_startBuffering, dbgscript_stopBuffering,
       dbgscript_start_buffering, dbgscript_stop_buffering,
       DbgScript_start_buffering, DbgScript_stop_buffering
  <2>6. CASE Reporting
    BY <1>2, <2>3, <2>6 DEF Reporting, luaRuntimeError, topLevelExceptionHandler
  <2> QED BY <1>3, <2>4, <2>5, <2>6
<1>4. CASE Executing
  <2>1. ASSUME NEW p \in Provider, ExecuteCaptured(p) PROVE ClientHas(cb)'
    <3>1. Push("capture", p, FALSE, callback)
      BY <2>1 DEF ExecuteCaptured
    <3> QED BY <1>1, <3>1, EnterKeepsClient
  <2>2. ASSUME NEW p \in Provider, InstallFails(p) PROVE ClientHas(cb)'
    <3>1. stack' = stack /\ callback' = callback
      BY <1>1, <2>2 DEF InstallFails, Refused
    <3> QED BY <1>2, <3>1
  <2>3. ASSUME NEW p \in Provider, ExecuteDirect(p) PROVE ClientHas(cb)'
    <3>1. Push("direct", p, FALSE, callback) /\ callback' = callback
      BY <2>3 DEF ExecuteDirect
    <3> QED BY <1>1, <3>1, EnterKeepsClient
  <2>4. ASSUME NEW text \in Chunk, CommandPrints(text) PROVE ClientHas(cb)'
    <3>1. text \in Seq(Char)
      BY DEF OutputBufferAssumption
    <3>2. callback' = callback
      BY <2>4 DEF CommandPrints
    <3>3. CASE UNCHANGED stack
      BY <1>2, <3>2, <3>3
    <3>4. CASE /\ InKind({"capture"})
               /\ stack' = [stack EXCEPT ![Len(stack)].emitted = @ \o text]
      <4>1. /\ Len(stack') = Len(stack)
            /\ \A i \in 1 .. Len(stack) :
                  stack'[i].kind = stack[i].kind /\ stack'[i].prev = stack[i].prev
        BY <1>1, <3>1, <3>4, EmitFrame DEF InKind
      <4> QED BY <3>2, <4>1, SameFramesKeepClient
    <3> QED BY <2>4, <3>3, <3>4 DEF CommandPrints
  <2>5. CASE CapturedReturns \/ CapturedFails
    <3>1. stack # <<>> /\ Top.kind = "capture" /\ stack' = Pop /\ Revert(Top.prev)
      BY <2>5 DEF CapturedReturns, CapturedFails, InKind
    <3>2. callback' = Top.prev
      BY <1>1, <3>1 DEF Revert, Refused
    <3> QED BY <1>1, <3>1, <3>2, LeaveKeepsClient
  <2>6. CASE DirectReturns
    <3>1. stack # <<>> /\ Top.kind # "capture" /\ stack' = Pop /\ callback' = callback
      BY <2>6 DEF DirectReturns, InKind
    <3> QED BY <1>1, <3>1, LeaveKeepsClient
  <2> QED BY <1>4, <2>1, <2>2, <2>3, <2>4, <2>5, <2>6 DEF Executing
<1>5. CASE Hosting
  <2>1. ASSUME NEW p \in Provider, runscript(p) PROVE ClientHas(cb)'
    <3>1. PICK timed \in BOOLEAN : Push("runscript", p, timed, "none")
      BY <2>1 DEF runscript, OutputBufferAssumption
    <3>2. callback' = callback /\ "none" \in Callback
      BY <2>1 DEF runscript, Callback
    <3> QED BY <1>1, <3>1, <3>2, EnterKeepsClient
  <2>2. ASSUME NEW p \in Provider, evalstring(p) PROVE ClientHas(cb)'
    <3>1. Push("evalstring", p, FALSE, "none") /\ callback' = callback /\ "none" \in Callback
      BY <2>2 DEF evalstring, Callback
    <3> QED BY <1>1, <3>1, EnterKeepsClient
  <2>3. ASSUME NEW failed \in BOOLEAN, runscript_exit(failed) \/ evalstring_exit(failed)
        PROVE  ClientHas(cb)'
    <3>1. stack # <<>> /\ Top.kind # "capture" /\ stack' = Pop /\ callback' = callback
      BY <2>3 DEF runscript_exit, evalstring_exit, InKind
    <3> QED BY <1>1, <3>1, LeaveKeepsClient
  <2> QED BY <1>5, <2>1, <2>2, <2>3 DEF Hosting
<1>6. CASE UNCHANGED vars
  BY <1>2, <1>6 DEF vars
<1> QED BY <1>3, <1>4, <1>5, <1>6 DEF Next

\* However captures end and nest, also under host commands that were captured, the
\* client has its callbacks back unless the engine refused it a call.
THEOREM CallbacksComeBack == Spec => CallbacksReverted
<1>1. TypeOK /\ [Next]_vars =>
        [ refusals' = refusals =>
            \A cb \in Callback : ClientHas(cb) => ClientHas(cb)' ]_vars
  BY StepCallbacks
<1> QED BY <1>1, TypeCorrect, PTL DEF Spec, CallbacksReverted

-----------------------------------------------------------------------------
(* When scripts do not invoke host commands from a captured command        *)

NotReentered == ~NestWhileBuffering

\* A command is executed by a script, so its frame lies above a script's.
ExecutedByScript ==
  \A i \in 1 .. Len(stack) :
    stack[i].kind \in {"capture", "direct"} =>
      i > 1 /\ stack[i - 1].kind \in {"runscript", "evalstring"}

\* A capture is the innermost invocation: nothing can change the count under it.
CaptureInnermost ==
  \A i \in 1 .. Len(stack) :
    stack[i].kind = "capture" => i = Len(stack) /\ IsBuffering > 0

HeldInv ==
  /\ TypeOK
  /\ RoomForNul
  /\ ExecutedByScript
  /\ CaptureInnermost
  /\ HeldOnlyWhileBuffering

\* With a frame that is not a capture on top there is no capture at all.
LEMMA NoCapture ==
  ASSUME HeldInv, stack # <<>>, Top.kind # "capture"
  PROVE  \A i \in 1 .. Len(stack) : stack[i].kind # "capture"
<1>1. Len(stack) \in Nat \ {0}
  BY PopFrame DEF HeldInv, TypeOK
<1> QED BY <1>1 DEF HeldInv, CaptureInnermost, Top

\* A script's or a command's frame appended by a step that leaves the count, the
\* buffer and the callbacks alone.
LEMMA EnterKeepsHeld ==
  ASSUME HeldInv, TypeOK', RoomForNul',
         NEW kind \in {"runscript", "evalstring", "direct"}, NEW p \in Provider,
         NEW timed \in BOOLEAN, NEW prev \in Callback, Push(kind, p, timed, prev),
         stack = <<>> \/ Top.kind # "capture",
         kind = "direct" => InKind({"runscript", "evalstring"}),
         UNCHANGED <<IsBuffering, MessageBuf>>
  PROVE  HeldInv'
<1>1. /\ Len(stack) \in Nat
      /\ Len(stack') = Len(stack) + 1
      /\ \A i \in 1 .. Len(stack) : stack'[i] = stack[i]
      /\ stack'[Len(stack')].kind = kind
  BY PushFrame, LenProperties DEF HeldInv, TypeOK
<1>2. \A i \in 1 .. Len(stack) : stack[i].kind # "capture"
  <2>1. CASE stack = <<>>
    BY <2>1, EmptySeq
  <2>2. CASE stack # <<>>
    BY <2>2, NoCapture
  <2> QED BY <2>1, <2>2
<1>4. ExecutedByScript'
  <2>1. kind = "direct" => Len(stack) > 0 /\ stack[Len(stack)].kind \in {"runscript", "evalstring"}
    BY EmptySeq DEF InKind, Top, HeldInv, TypeOK
  <2> QED BY <1>1, <2>1 DEF HeldInv, ExecutedByScript
<1>5. CaptureInnermost'
  BY <1>1, <1>2 DEF CaptureInnermost
<1> QED BY <1>4, <1>5 DEF HeldInv, HeldOnlyWhileBuffering

\* The innermost frame removed.
LEMMA LeaveKeepsHeld ==
  ASSUME HeldInv, TypeOK', RoomForNul', stack # <<>>, stack' = Pop,
         HeldOnlyWhileBuffering'
  PROVE  HeldInv'
<1>1. /\ Len(stack) \in Nat \ {0}
      /\ Len(stack') = Len(stack) - 1
      /\ \A i \in 1 .. Len(stack) - 1 : stack'[i] = stack[i]
  BY PopFrame DEF HeldInv, TypeOK
<1>2. ExecutedByScript'
  BY <1>1 DEF HeldInv, ExecutedByScript
<1>3. CaptureInnermost'
  BY <1>1 DEF HeldInv, CaptureInnermost
<1> QED BY <1>2, <1>3 DEF HeldInv

\* A step that leaves the frames' kinds alone, and does not stop buffering under
\* a capture.
LEMMA SameStackKeepsHeld ==
  ASSUME HeldInv, TypeOK', RoomForNul', HeldOnlyWhileBuffering',
         Len(stack') = Len(stack),
         \A i \in 1 .. Len(stack) : stack'[i].kind = stack[i].kind,
         \/ IsBuffering' = IsBuffering
         \/ stack # <<>> /\ Top.kind # "capture"
  PROVE  HeldInv'
<1>1. ExecutedByScript'
  BY DEF HeldInv, ExecutedByScript
<1>2. CaptureInnermost'
  BY NoCapture DEF HeldInv, CaptureInnermost
<1> QED BY <1>1, <1>2 DEF HeldInv

LEMMA StepHeld ==
  ASSUME HeldInv, NotReentered, [Next]_vars
  PROVE  HeldInv'
<1>1. TypeOK' /\ RoomForNul'
  BY StepBounded DEF HeldInv
<1>2. ASSUME NEW p, ScriptRunning(p)
      PROVE  stack # <<>> /\ Top.kind # "capture"
             /\ InKind({"runscript", "evalstring"})
  BY <1>2 DEF ScriptRunning, InKind
<1>3. ASSUME stack' = stack, HeldOnlyWhileBuffering'
      PROVE  /\ IsBuffering' = IsBuffering => HeldInv'
             /\ stack # <<>> /\ Top.kind # "capture" => HeldInv'
  BY <1>1, <1>3, SameStackKeepsHeld
<1>4. ASSUME NEW p, NEW text, Writes(p, text) PROVE HeldInv'
  <2>1. HeldOnlyWhileBuffering'
    BY <1>4 DEF Writes, Emit, HeldInv, TypeOK, HeldOnlyWhileBuffering
  <2> QED BY <1>3, <1>4, <2>1 DEF Writes
<1>5. ASSUME NEW p, StartBuffering(p) PROVE HeldInv'
  <2>1. HeldOnlyWhileBuffering'
    BY <1>5 DEF StartBuffering, HeldInv, TypeOK, HeldOnlyWhileBuffering
  <2> QED BY <1>2, <1>3, <1>5, <2>1 DEF StartBuffering
<1>6. ASSUME NEW p, StopBuffering(p) PROVE HeldInv'
  <2>1. HeldOnlyWhileBuffering'
    BY <1>6 DEF StopBuffering, UtilFlushMessageBuffer, HeldInv, TypeOK, HeldOnlyWhileBuffering
  <2> QED BY <1>2, <1>3, <1>6, <2>1 DEF StopBuffering
<1>7. ASSUME NEW p, ReportError(p) PROVE HeldInv'
  <2>1. HeldOnlyWhileBuffering'
    BY <1>7 DEF ReportError, UtilFlushMessageBuffer, HeldOnlyWhileBuffering
  <2> QED BY <1>3, <1>7, <2>1 DEF ReportError
<1>8. CASE Executing
  <2>1. ASSUME NEW p \in Provider, ExecuteCaptured(p) PROVE HeldInv'
    <3>1. ScriptRunning(p) /\ IsBuffering > 0 /\ Push("capture", p, FALSE, callback)
          /\ IsBuffering' = IsBuffering
      BY <2>1 DEF ExecuteCaptured
    <3>2. InKind({"runscript", "evalstring"})
          /\ \A i \in 1 .. Len(stack) : stack[i].kind # "capture"
      BY <1>2, <3>1, NoCapture
    <3>3. /\ Len(stack) \in Nat \ {0}
          /\ Len(stack') = Len(stack) + 1
          /\ \A i \in 1 .. Len(stack) : stack'[i] = stack[i]
          /\ stack'[Len(stack')].kind = "capture"
      BY <1>2, <3>1, <3>2, PushFrame, PopFrame DEF HeldInv, TypeOK, Callback
    <3>4. ExecutedByScript'
      BY <3>2, <3>3 DEF HeldInv, ExecutedByScript, InKind, Top
    <3>5. CaptureInnermost'
      BY <3>1, <3>2, <3>3 DEF CaptureInnermost
    <3>7. HeldOnlyWhileBuffering'
      BY <3>1 DEF HeldOnlyWhileBuffering
    <3> QED BY <1>1, <3>4, <3>5, <3>7 DEF HeldInv
  <2>2. ASSUME NEW p \in Provider, InstallFails(p) PROVE HeldInv'
    <3>1. HeldOnlyWhileBuffering'
      BY <2>2 DEF InstallFails, HeldInv, HeldOnlyWhileBuffering
    <3> QED BY <1>3, <2>2, <3>1 DEF InstallFails
  <2>3. ASSUME NEW p \in Provider, ExecuteDirect(p) PROVE HeldInv'
    <3>1. ScriptRunning(p) /\ Push("direct", p, FALSE, callback)
          /\ UNCHANGED <<IsBuffering, MessageBuf>>
      BY <2>3 DEF ExecuteDirect
    <3>2. callback \in Callback
      BY DEF HeldInv, TypeOK
    <3> QED BY <1>1, <1>2, <3>1, <3>2, EnterKeepsHeld
  <2>4. ASSUME NEW text \in Chunk, CommandPrints(text) PROVE HeldInv'
    <3>1. HeldOnlyWhileBuffering'
      BY <2>4 DEF CommandPrints, HeldInv, HeldOnlyWhileBuffering
    <3>2. text \in Seq(Char)
      BY OutputBufferAssumption DEF OutputBufferAssumption
    <3>3. /\ Len(stack') = Len(stack)
          /\ \A i \in 1 .. Len(stack) : stack'[i].kind = stack[i].kind
      BY <2>4, <3>2, EmitFrame DEF CommandPrints, InKind, HeldInv, TypeOK
    <3> QED BY <1>1, <2>4, <3>1, <3>3, SameStackKeepsHeld DEF CommandPrints
  <2>5. ASSUME InKind({"capture"}) 
        PROVE  IsBuffering > 0 /\ stack # <<>>
    <3>1. Len(stack) \in Nat \ {0} /\ stack[Len(stack)].kind = "capture"
      BY <2>5, PopFrame DEF InKind, Top, HeldInv, TypeOK
    <3> QED BY <2>5, <3>1 DEF HeldInv, CaptureInnermost, Top, InKind
  <2>6. CASE CapturedReturns \/ CapturedFails
    <3>1. InKind({"capture"}) /\ stack' = Pop /\ IsBuffering' = IsBuffering
      BY <2>6 DEF CapturedReturns, CapturedFails
    <3>2. HeldOnlyWhileBuffering'
      BY <2>5, <3>1 DEF HeldOnlyWhileBuffering
    <3> QED BY <1>1, <2>5, <3>1, <3>2, LeaveKeepsHeld
  <2>7. CASE DirectReturns
    <3>1. stack # <<>> /\ Top.kind # "capture" /\ stack' = Pop
          /\ UNCHANGED <<IsBuffering, MessageBuf>>
      BY <2>7 DEF DirectReturns, InKind
    <3>2. HeldOnlyWhileBuffering'
      BY <3>1 DEF HeldInv, HeldOnlyWhileBuffering
    <3> QED BY <1>1, <3>1, <3>2, LeaveKeepsHeld
  <2> QED BY <1>8, <2>1, <2>2, <2>3, <2>4, <2>6, <2>7 DEF Executing
<1>9. CASE Hosting
  <2>1. MayInvoke => stack = <<>> \/ Top.kind # "capture"
    BY DEF MayInvoke, InKind, NotReentered
  <2>2. ASSUME NEW p \in Provider, runscript(p) PROVE HeldInv'
    <3>1. PICK timed \in BOOLEAN : Push("runscript", p, timed, "none")
      BY <2>2, OutputBufferAssumption DEF runscript, OutputBufferAssumption
    <3> QED BY <1>1, <2>1, <2>2, <3>1, EnterKeepsHeld DEF runscript, Callback
  <2>3. ASSUME NEW p \in Provider, evalstring(p) PROVE HeldInv'
    BY <1>1, <2>1, <2>3, EnterKeepsHeld DEF evalstring, Callback
  <2>4. ASSUME NEW failed \in BOOLEAN, runscript_exit(failed) PROVE HeldInv'
    <3>1. stack # <<>> /\ stack' = Pop /\ MessageBuf' = <<>>
      BY <2>4 DEF runscript_exit, InKind
    <3> QED BY <1>1, <3>1, LeaveKeepsHeld DEF HeldOnlyWhileBuffering
  <2>5. ASSUME NEW failed \in BOOLEAN, evalstring_exit(failed) PROVE HeldInv'
    <3>1. stack # <<>> /\ Top.kind # "capture" /\ stack' = Pop
          /\ UNCHANGED <<IsBuffering, MessageBuf>>
      BY <2>5 DEF evalstring_exit, InKind
    <3>2. HeldOnlyWhileBuffering'
      BY <3>1 DEF HeldInv, HeldOnlyWhileBuffering
    <3> QED BY <1>1, <3>1, <3>2, LeaveKeepsHeld
  <2> QED BY <1>9, <2>2, <2>3, <2>4, <2>5 DEF Hosting
<1>10. CASE UNCHANGED vars
  <2>1. /\ stack' = stack
        /\ HeldOnlyWhileBuffering' /\ IsBuffering' = IsBuffering
    BY <1>10 DEF vars, HeldInv, HeldOnlyWhileBuffering
  <2> QED BY <1>3, <2>1
<1>11. CASE Printing
  BY <1>4, <1>11 DEF Printing, luaOutputCb, DbgScriptIO_write, DbgScriptStdIO_write
<1>12. CASE Buffering
  BY <1>5, <1>6, <1>12 DEF Buffering, dbgscript_startBuffering, dbgscript_stopBuffering,
     dbgscript_start_buffering, dbgscript_stop_buffering,
     DbgScript_start_buffering, DbgScript_stop_buffering
<1>13. CASE Reporting
  <2>1. ASSUME MessageUnobtainable PROVE HeldInv'
    <3>1. HeldOnlyWhileBuffering'
      BY <2>1 DEF MessageUnobtainable, HeldInv, HeldOnlyWhileBuffering
    <3> QED BY <1>3, <2>1, <3>1 DEF MessageUnobtainable
  <2> QED BY <1>7, <1>13, <2>1 DEF Reporting, luaRuntimeError, topLevelExceptionHandler
<1> QED BY <1>8, <1>9, <1>10, <1>11, <1>12, <1>13 DEF Next

\* Text is held back only while buffering is on, whatever the engine refuses.  This
\* depends on captures being innermost, which is what a nested !runscript breaks.
THEOREM HeldText ==
  ASSUME NotReentered
  PROVE  Spec => []HeldOnlyWhileBuffering
<1>1. Init => HeldInv
  BY OutputBufferAssumption, EmptySeq
     DEF Init, HeldInv, TypeOK, RoomForNul, BufPosition, Callback, OutputBufferAssumption,
         ExecutedByScript, CaptureInnermost, HeldOnlyWhileBuffering
<1>2. HeldInv /\ [Next]_vars => HeldInv'
  BY StepHeld
<1>3. HeldInv => HeldOnlyWhileBuffering
  BY DEF HeldInv
<1> QED BY <1>1, <1>2, <1>3, PTL DEF Spec

-----------------------------------------------------------------------------
(* When, besides, every run is a !runscript without -t and no single print *)
(* is longer than MessageBuf                                               *)

PlainRuns ==
  /\ NotReentered
  /\ CallbackFailure \subseteq {"set"}
  /\ HostCommand \subseteq {"runscript"}
  /\ TimeRun \subseteq {FALSE}
  /\ \A text \in Text : Len(text) <= MSG_CCH - 1

\* Buffering is off wherever output goes straight to the debugger although no
\* script is printing: at the prompt and under a directly executed command.
OffOutsideScripts == stack = <<>> \/ InKind({"direct"}) => IsBuffering = 0

PlainStack ==
  \A i \in 1 .. Len(stack) : stack[i].kind # "evalstring" /\ ~stack[i].timed

\* A command under capture prints to the capturing callbacks.
CaptureInstalled == InKind({"capture"}) => callback = "capture"

OrderInv ==
  /\ HeldInv
  /\ ClientHas("client")
  /\ PlainStack
  /\ CaptureInstalled
  /\ OffOutsideScripts
  /\ Len(Buf) <= CAP_CCH - 1
  /\ TextInOrder

\* No call that matters is refused.
LEMMA NothingRefused ==
  ASSUME PlainRuns, [Next]_vars
  PROVE  refusals' = refusals
<1> USE DEF tallies
<1>1. CASE Printing
  BY <1>1 DEF Printing, luaOutputCb, DbgScriptIO_write, DbgScriptStdIO_write, Writes
<1>2. CASE Buffering
  BY <1>2 DEF Buffering, dbgscript_startBuffering, dbgscript_stopBuffering,
     dbgscript_start_buffering, dbgscript_stop_buffering, DbgScript_start_buffering,
     DbgScript_stop_buffering, StartBuffering, StopBuffering
<1>3. CASE Reporting
  BY <1>3 DEF Reporting, luaRuntimeError, topLevelExceptionHandler, ReportError,
     MessageUnobtainable
<1>4. CASE Executing
  <2>1. ASSUME NEW p, InstallFails(p) PROVE refusals' = refusals
    BY <2>1 DEF InstallFails, PlainRuns
  <2>2. CASE CapturedReturns \/ CapturedFails
    BY <2>2 DEF CapturedReturns, CapturedFails, Revert, PlainRuns
  <2> QED BY <1>4, <2>1, <2>2 DEF Executing, ExecuteCaptured, ExecuteDirect,
          CommandPrints, DirectReturns
<1>5. CASE Hosting
  BY <1>5 DEF Hosting, runscript, evalstring, runscript_exit, evalstring_exit
<1>6. CASE UNCHANGED vars
  BY <1>6 DEF vars
<1> QED BY <1>1, <1>2, <1>3, <1>4, <1>5, <1>6 DEF Next

\* A script prints to the client's own callbacks; a capture will put them back.
LEMMA ScriptClient ==
  ASSUME OrderInv, stack # <<>>, Top.kind # "capture"
  PROVE  /\ \A i \in 1 .. Len(stack) : stack[i].kind # "capture"
         /\ callback = "client"
<1>1. \A i \in 1 .. Len(stack) : stack[i].kind # "capture"
  BY NoCapture DEF OrderInv
<1> QED BY <1>1 DEF OrderInv, ClientHas

LEMMA CaptureClient ==
  ASSUME OrderInv, InKind({"capture"})
  PROVE  Top.prev = "client" /\ IsBuffering > 0
<1>1. Len(stack) \in Nat \ {0} /\ stack[Len(stack)].kind = "capture"
  BY PopFrame DEF OrderInv, HeldInv, TypeOK, InKind, Top
<1>2. PICK i \in 1 .. Len(stack) : stack[i].kind = "capture" /\ stack[i].prev = "client"
  BY <1>1 DEF OrderInv, ClientHas
<1> QED BY <1>1, <1>2 DEF OrderInv, HeldInv, CaptureInnermost, Top

\* With the debugger's callbacks installed and nothing held, a direct print
\* keeps the order.
LEMMA DirectPrint ==
  ASSUME TypeOK, TextInOrder, MessageBuf = <<>>, callback = "client",
         NEW text \in Seq(Char), Output(callback, text),
         said' = said \o text, MessageBuf' = MessageBuf
  PROVE  TextInOrder' /\ Buf' = Buf
<1>1. shown = said
  BY ConcatEmptySeq DEF TypeOK, TextInOrder
<1>2. shown' = shown \o text /\ Buf' = Buf
  BY DEF Output, Shown, Copied
<1>3. shown' \in Seq(Char)
  BY <1>2, ConcatProperties DEF TypeOK
<1> QED BY <1>1, <1>2, <1>3, ConcatEmptySeq DEF TextInOrder

\* A flush to the debugger's callbacks shows everything said.
LEMMA FlushShowsAll ==
  ASSUME TypeOK, TextInOrder, callback = "client", UtilFlushMessageBuffer
  PROVE  shown' = said /\ Buf' = Buf /\ (said' = said => TextInOrder')
<1>1. shown' = shown \o MessageBuf /\ Buf' = Buf /\ MessageBuf' = <<>>
  BY DEF UtilFlushMessageBuffer, Output, Shown, Copied
<1>2. shown' = said /\ said \in Seq(Char)
  BY <1>1 DEF TextInOrder, TypeOK
<1> QED BY <1>1, <1>2, ConcatEmptySeq DEF TextInOrder

\* The frames under a popped command are a script's.
LEMMA PopToScript ==
  ASSUME HeldInv, InKind({"capture", "direct"})
  PROVE  /\ Len(stack) > 1
         /\ Pop # <<>>
         /\ Pop[Len(Pop)].kind \in {"runscript", "evalstring"}
<1>1. /\ Len(stack) \in Nat \ {0}
      /\ Pop \in Seq(Frame)
      /\ Len(Pop) = Len(stack) - 1
      /\ \A i \in 1 .. Len(stack) - 1 : Pop[i] = stack[i]
  BY PopFrame DEF HeldInv, TypeOK, InKind
<1>2. Len(stack) > 1 /\ stack[Len(stack) - 1].kind \in {"runscript", "evalstring"}
  BY <1>1 DEF HeldInv, ExecutedByScript, InKind, Top
<1> QED BY <1>1, <1>2, EmptySeq

\* Leaving an invocation keeps the frames plain.
LEMMA PopPlain ==
  ASSUME TypeOK, PlainStack, stack # <<>>, stack' = Pop
  PROVE  PlainStack'
<1>1. /\ Len(stack) \in Nat \ {0}
      /\ Len(stack') = Len(stack) - 1
      /\ \A i \in 1 .. Len(stack) - 1 : stack'[i] = stack[i]
  BY PopFrame DEF TypeOK
<1> QED BY <1>1 DEF PlainStack

\* Entering one that is not an evalstring nor timed does, too.
LEMMA PushPlain ==
  ASSUME TypeOK, PlainStack, NEW kind \in {"runscript", "capture", "direct"},
         NEW p \in Provider, NEW prev \in Callback, Push(kind, p, FALSE, prev)
  PROVE  /\ PlainStack'
         /\ stack' # <<>>
         /\ stack'[Len(stack')].kind = kind
<1>1. /\ stack' \in Seq(Frame)
      /\ Len(stack) \in Nat
      /\ Len(stack') = Len(stack) + 1
      /\ \A i \in 1 .. Len(stack) : stack'[i] = stack[i]
      /\ stack'[Len(stack')].kind = kind
      /\ stack'[Len(stack')].timed = FALSE
  BY PushFrame, LenProperties DEF TypeOK
<1>2. stack' # <<>>
  BY <1>1, EmptySeq
<1> QED BY <1>1, <1>2 DEF PlainStack
\* A script's print.
LEMMA WritesOrder ==
  ASSUME OrderInv, PlainRuns, HeldInv', ClientHas("client")', NEW p, NEW text \in Text, Writes(p, text)
  PROVE  OrderInv'
<1> USE OutputBufferAssumption
<1>1. /\ ScriptRunning(p) /\ callback = "client" /\ stack # <<>>
      /\ ~InKind({"direct"})
      /\ TypeOK /\ RoomForNul
  BY ScriptClient DEF Writes, ScriptRunning, InKind, OrderInv, HeldInv
<1>2. stack' = stack /\ IsBuffering' = IsBuffering /\ callback' = callback
  BY DEF Writes
<1>3. text \in Seq(Char) /\ Len(text) <= MSG_CCH - 1
  BY DEF OutputBufferAssumption, PlainRuns
<1>4. TextInOrder' /\ Buf' = Buf
  <2>1. CASE IsBuffering > 0 /\ UtilBufferOutput(callback, text)
    <3>1. TextInOrder'
      BY <1>1, <1>3, <2>1, BufferOutput DEF OrderInv
    <3>2. Buf' = Buf
      BY <1>1, <2>1 DEF UtilBufferOutput, Output, Copied
    <3> QED BY <3>1, <3>2
  <2>2. CASE /\ IsBuffering = 0
             /\ Output(callback, text)
             /\ said' = said \o text
             /\ UNCHANGED MessageBuf
    <3>1. MessageBuf = <<>>
      BY <2>2 DEF OrderInv, HeldInv, HeldOnlyWhileBuffering
    <3> QED BY <1>1, <1>3, <2>2, <3>1, DirectPrint DEF OrderInv
  <2> QED BY <2>1, <2>2 DEF Writes, Emit
<1> QED BY <1>2, <1>4 DEF OrderInv, PlainStack, OffOutsideScripts, CaptureInstalled, InKind, Top

\* start_buffering, stop_buffering and an error report.
LEMMA ScriptOrder ==
  ASSUME OrderInv, HeldInv', ClientHas("client")', NEW p,
         StartBuffering(p) \/ StopBuffering(p) \/ ReportError(p) \/ MessageUnobtainable
  PROVE  OrderInv'
<1>1. /\ callback = "client" /\ stack # <<>>
      /\ ~InKind({"direct"})
      /\ TypeOK
  BY ScriptClient DEF StartBuffering, StopBuffering, ReportError, MessageUnobtainable, ScriptRunning, InKind,
     OrderInv, HeldInv
<1>2. stack' = stack /\ said' = said
  BY DEF StartBuffering, StopBuffering, ReportError, MessageUnobtainable
<1>3. TextInOrder' /\ Buf' = Buf
  <2>1. CASE UtilFlushMessageBuffer
    BY <1>1, <1>2, <2>1, FlushShowsAll DEF OrderInv
  <2>2. CASE UNCHANGED <<MessageBuf, shown, Buf>>
    BY <1>2, <2>2 DEF OrderInv, TextInOrder
  <2> QED BY <2>1, <2>2 DEF StartBuffering, StopBuffering, ReportError, MessageUnobtainable
<1>4. callback' = callback
  BY DEF StartBuffering, StopBuffering, ReportError, MessageUnobtainable
<1> QED BY <1>1, <1>2, <1>3, <1>4 DEF OrderInv, PlainStack, OffOutsideScripts, CaptureInstalled, InKind, Top

\* An invocation that only adds its frame.
LEMMA EnterOrder ==
  ASSUME OrderInv, HeldInv', ClientHas("client")',
         NEW kind \in {"runscript", "capture", "direct"}, NEW p \in Provider,
         NEW prev \in Callback, Push(kind, p, FALSE, prev),
         kind = "direct" => IsBuffering = 0,
         kind = "capture" => callback' = "capture",
         UNCHANGED <<IsBuffering, MessageBuf, Buf, shown, said>>
  PROVE  OrderInv'
<1>1. /\ PlainStack'
      /\ stack' # <<>>
      /\ stack'[Len(stack')].kind = kind
  BY PushPlain DEF OrderInv, HeldInv
<1>2. OffOutsideScripts' /\ CaptureInstalled'
  BY <1>1 DEF OffOutsideScripts, CaptureInstalled, InKind, Top
<1> QED BY <1>1, <1>2 DEF OrderInv, TextInOrder

\* A debugger command prints.
LEMMA CommandOrder ==
  ASSUME OrderInv, HeldInv', ClientHas("client")', NEW text \in Chunk, CommandPrints(text)
  PROVE  OrderInv'
<1> USE OutputBufferAssumption
<1>1. text \in Seq(Char) /\ text # <<>> /\ CAP_CCH - 1 \in Nat /\ TypeOK
  BY DEF OutputBufferAssumption, OrderInv, HeldInv
<1>2. IsBuffering' = IsBuffering /\ MessageBuf' = MessageBuf /\ Output(callback, text)
  BY DEF CommandPrints
<1>3. Len(Buf') <= CAP_CCH - 1
  BY <1>1, <1>2, TruncateFits DEF Output, Copied, OrderInv
<1>4. CASE /\ InKind({"capture"})
           /\ stack' = [stack EXCEPT ![Len(stack)].emitted = @ \o text]
           /\ UNCHANGED said
  <2>1. /\ Len(stack) \in Nat \ {0}
        /\ Len(stack') = Len(stack)
        /\ \A i \in 1 .. Len(stack) :
              stack'[i].kind = stack[i].kind /\ stack'[i].timed = stack[i].timed
    BY <1>1, <1>4, EmitFrame, PopFrame DEF InKind, TypeOK
  <2>2. callback = "capture" /\ stack[Len(stack)].kind = "capture" /\ stack # <<>>
    BY <1>4 DEF OrderInv, CaptureInstalled, InKind, Top
  <2>3. stack'[Len(stack')].kind = "capture" /\ callback' = "capture"
    BY <2>1, <2>2 DEF CommandPrints
  <2>4. PlainStack'
    BY <2>1 DEF OrderInv, PlainStack
  <2>5. stack' # <<>> /\ ~InKind({"direct"})'
    BY <2>1, <2>3, EmptySeq DEF InKind, Top
  <2>6. TextInOrder'
    BY <1>2, <1>4, <2>2 DEF Output, Shown, OrderInv, TextInOrder
  <2> QED BY <1>3, <2>3, <2>4, <2>5, <2>6 DEF OrderInv, OffOutsideScripts, CaptureInstalled
<1>5. CASE /\ InKind({"direct"})
           /\ said' = said \o text
           /\ UNCHANGED stack
  <2>1. callback = "client" /\ MessageBuf = <<>>
    BY <1>5, ScriptClient DEF InKind, OrderInv, HeldInv, HeldOnlyWhileBuffering, OffOutsideScripts
  <2>2. TextInOrder'
    BY <1>1, <1>2, <1>5, <2>1, DirectPrint DEF OrderInv
  <2>3. callback' = callback
    BY DEF CommandPrints
  <2> QED BY <1>2, <1>3, <1>5, <2>2, <2>3
          DEF OrderInv, PlainStack, OffOutsideScripts, CaptureInstalled, InKind, Top
<1> QED BY <1>4, <1>5 DEF CommandPrints

\* The innermost invocation leaves: a command to the script that executed it, or
\* a run that resets IsBuffering.
LEMMA LeaveOrder ==
  ASSUME OrderInv, HeldInv', ClientHas("client")', stack # <<>>, stack' = Pop,
         TextInOrder', Len(Buf') <= CAP_CCH - 1,
         IsBuffering' # 0 => InKind({"capture", "direct"})
  PROVE  OrderInv'
<1>1. PlainStack'
  BY PopPlain DEF OrderInv, HeldInv
<1>2. /\ Len(stack) \in Nat \ {0}
      /\ Pop \in Seq(Frame)
      /\ Len(Pop) = Len(stack) - 1
      /\ \A i \in 1 .. Len(stack) - 1 : Pop[i] = stack[i]
  BY PopFrame DEF OrderInv, HeldInv, TypeOK
<1>3. CaptureInstalled'
  <2>1. ASSUME Pop # <<>> PROVE Pop[Len(Pop)].kind # "capture"
    <3>1. Len(Pop) \in 1 .. Len(stack) - 1
      BY <1>2, <2>1, EmptySeq
    <3> QED BY <1>2, <3>1 DEF OrderInv, HeldInv, CaptureInnermost
  <2> QED BY <2>1 DEF CaptureInstalled, InKind, Top
<1>4. OffOutsideScripts'
  BY PopToScript DEF OffOutsideScripts, InKind, Top, OrderInv
<1> QED BY <1>1, <1>3, <1>4 DEF OrderInv

LEMMA StepOrder ==
  ASSUME OrderInv, PlainRuns, [Next]_vars
  PROVE  OrderInv'
<1> USE OutputBufferAssumption
<1>1. HeldInv' /\ ClientHas("client")' /\ TypeOK /\ RoomForNul
  BY StepHeld, NothingRefused, StepCallbacks DEF PlainRuns, OrderInv, HeldInv
<1>2. CASE Printing
  BY <1>1, <1>2, WritesOrder
     DEF Printing, luaOutputCb, DbgScriptIO_write, DbgScriptStdIO_write
<1>3. CASE Buffering
  BY <1>1, <1>3, ScriptOrder DEF Buffering, dbgscript_startBuffering,
     dbgscript_stopBuffering, dbgscript_start_buffering, dbgscript_stop_buffering,
     DbgScript_start_buffering, DbgScript_stop_buffering
<1>4. CASE Reporting
  BY <1>1, <1>4, ScriptOrder DEF Reporting, luaRuntimeError, topLevelExceptionHandler
<1>5. CASE Executing
  <2>1. ASSUME NEW p \in Provider, ExecuteCaptured(p) PROVE OrderInv'
    <3>1. callback \in Callback
      BY <1>1 DEF TypeOK
    <3> QED BY <1>1, <2>1, <3>1, EnterOrder DEF ExecuteCaptured
  <2>2. ASSUME NEW p \in Provider, InstallFails(p) PROVE OrderInv'
    <3>1. callback' = callback
      BY <2>2 DEF InstallFails, PlainRuns
    <3> QED BY <1>1, <2>2, <3>1 DEF InstallFails, OrderInv, PlainStack, OffOutsideScripts,
            CaptureInstalled, TextInOrder, InKind, Top
  <2>3. ASSUME NEW p \in Provider, ExecuteDirect(p) PROVE OrderInv'
    <3>1. callback \in Callback
      BY <1>1 DEF TypeOK
    <3> QED BY <1>1, <2>3, <3>1, EnterOrder DEF ExecuteDirect
  <2>4. ASSUME NEW text \in Chunk, CommandPrints(text) PROVE OrderInv'
    BY <1>1, <2>4, CommandOrder
  <2>5. CASE CapturedReturns
    <3>1. Top.prev = "client" /\ stack # <<>> /\ stack' = Pop /\ InKind({"capture"})
          /\ UtilBufferOutput(Top.prev, Buf)
      BY <2>5, CaptureClient DEF CapturedReturns, Revert, InKind, PlainRuns
    <3>2. Buf \in Seq(Char) /\ Len(Buf) <= MSG_CCH - 1
      BY <1>1, LenProperties DEF OrderInv, TypeOK, OutputBufferAssumption
    <3>3. TextInOrder'
      BY <1>1, <3>1, <3>2, BufferOutput DEF OrderInv
    <3>4. Buf' = Buf
      BY <3>1 DEF UtilBufferOutput, Output, Copied
    <3>5. Len(Buf') <= CAP_CCH - 1 /\ InKind({"capture", "direct"})
      BY <3>1, <3>4 DEF OrderInv, InKind
    <3> QED BY <1>1, <3>1, <3>3, <3>5, LeaveOrder
  <2>6. CASE CapturedFails \/ DirectReturns
    <3>1. InKind({"capture", "direct"}) /\ stack # <<>> /\ stack' = Pop
          /\ UNCHANGED <<MessageBuf, Buf, shown, said>>
      BY <2>6 DEF CapturedFails, DirectReturns, InKind
    <3>2. TextInOrder' /\ Len(Buf') <= CAP_CCH - 1
      BY <3>1 DEF OrderInv, TextInOrder
    <3> QED BY <1>1, <3>1, <3>2, LeaveOrder
  <2> QED BY <1>5, <2>1, <2>2, <2>3, <2>4, <2>5, <2>6 DEF Executing
<1>6. CASE Hosting
  <2>1. ASSUME NEW p \in Provider, runscript(p) PROVE OrderInv'
    <3>1. Push("runscript", p, FALSE, "none")
      BY <2>1 DEF runscript, PlainRuns
    <3> QED BY <1>1, <2>1, <3>1, EnterOrder DEF runscript, Callback
  <2>2. ASSUME NEW p \in Provider, evalstring(p) PROVE OrderInv'
    BY <2>2 DEF evalstring, PlainRuns
  <2>3. ASSUME NEW failed \in BOOLEAN, runscript_exit(failed) PROVE OrderInv'
    <3>1. InKind({"runscript"}) /\ stack # <<>> /\ Len(stack) \in Nat \ {0}
      BY <1>1, <2>3, PopFrame DEF runscript_exit, InKind, TypeOK
    <3>2. ~Top.timed
      BY <3>1 DEF OrderInv, PlainStack, Top
    <3>3. callback = "client"
      BY <3>1, ScriptClient DEF OrderInv, InKind
    <3>4. /\ said' = said \o <<>> /\ shown' = shown \o (<<>> \o MessageBuf)
          /\ Buf' = Buf /\ MessageBuf' = <<>> /\ IsBuffering' = 0 /\ stack' = Pop
      BY <2>3, <3>2, <3>3 DEF runscript_exit, Shown, Copied
    <3>5. /\ said' = said /\ shown' = shown \o MessageBuf
          /\ shown' \in Seq(Char)
      BY <1>1, <3>4, ConcatEmptySeq, ConcatProperties DEF TypeOK
    <3>6. TextInOrder'
      BY <3>4, <3>5, ConcatEmptySeq DEF OrderInv, TextInOrder
    <3> QED BY <1>1, <3>1, <3>4, <3>6, LeaveOrder DEF OrderInv
  <2>4. ASSUME NEW failed \in BOOLEAN, evalstring_exit(failed) PROVE OrderInv'
    <3>1. Len(stack) \in Nat \ {0} /\ Top.kind = "evalstring"
      BY <1>1, <2>4, PopFrame DEF evalstring_exit, InKind, TypeOK
    <3> QED BY <3>1 DEF OrderInv, PlainStack, Top
  <2> QED BY <1>6, <2>1, <2>2, <2>3, <2>4 DEF Hosting
<1>7. CASE UNCHANGED vars
  BY <1>1, <1>7 DEF vars, OrderInv, PlainStack, OffOutsideScripts, CaptureInstalled,
     TextInOrder, InKind, Top
<1> QED BY <1>2, <1>3, <1>4, <1>5, <1>6, <1>7 DEF Next

LEMMA OrderInductive ==
  ASSUME PlainRuns
  PROVE  Spec => []OrderInv
<1>1. Init => OrderInv
  <2> SUFFICES ASSUME Init PROVE OrderInv
    OBVIOUS
  <2>1. HeldInv
    BY OutputBufferAssumption, EmptySeq
       DEF Init, HeldInv, TypeOK, RoomForNul, BufPosition, Callback, OutputBufferAssumption,
           ExecutedByScript, CaptureInnermost, HeldOnlyWhileBuffering
  <2>2. Len(Buf) <= CAP_CCH - 1 /\ PlainStack
    BY OutputBufferAssumption, EmptySeq DEF Init, OutputBufferAssumption, PlainStack
  <2>3. TextInOrder
    BY EmptySeq, ConcatEmptySeq DEF Init, TextInOrder
  <2>4. ClientHas("client")
    BY EmptySeq DEF Init, ClientHas
  <2> QED BY <2>1, <2>2, <2>3, <2>4
          DEF Init, OrderInv, OffOutsideScripts, CaptureInstalled, InKind
<1>2. OrderInv /\ [Next]_vars => OrderInv'
  BY StepOrder
<1> QED BY <1>1, <1>2, PTL DEF Spec

\* Under those assumptions the debugger shows what scripts and the commands they
\* execute print, all of it and in order, and nothing is left behind when the
\* outermost !runscript is over, however unbalanced its start_buffering and
\* stop_buffering calls, its nested runs and its errors were.
THEOREM OrderedText ==
  ASSUME PlainRuns
  PROVE  Spec => [](TextInOrder /\ NothingLeftAtPrompt)
<1>1. OrderInv => TextInOrder /\ NothingLeftAtPrompt
  BY DEF OrderInv, HeldInv, HeldOnlyWhileBuffering, OffOutsideScripts, NothingLeftAtPrompt
<1> QED BY <1>1, OrderInductive, PTL

\* A step that prints a failure message shows everything said before it.
LEMMA FailureShowsAll ==
  ASSUME OrderInv, PlainRuns, Next, failures' # failures
  PROVE  shown' = said
<1>1. TypeOK /\ TextInOrder
  BY DEF OrderInv, HeldInv
<1>2. ASSUME NEW p, ReportError(p) PROVE shown' = said
  <2>1. callback = "client" /\ UtilFlushMessageBuffer
    BY <1>2, ScriptClient DEF ReportError, ScriptRunning, InKind, OrderInv
  <2> QED BY <1>1, <2>1, FlushShowsAll
<1>3. ASSUME NEW failed, runscript_exit(failed), failed \in BOOLEAN PROVE shown' = said
  <2>1. InKind({"runscript"}) /\ stack # <<>> /\ Len(stack) \in Nat \ {0}
    BY <1>1, <1>3, PopFrame DEF runscript_exit, InKind, TypeOK
  <2>2. ~Top.timed
    BY <2>1 DEF OrderInv, PlainStack, Top
  <2>3. callback = "client"
    BY <2>1, ScriptClient DEF OrderInv, InKind
  <2>4. shown' = shown \o (<<>> \o MessageBuf)
    BY <1>3, <2>2, <2>3 DEF runscript_exit, Shown
  <2>5. <<>> \o MessageBuf = MessageBuf
    BY <1>1, ConcatEmptySeq DEF TypeOK
  <2> QED BY <1>1, <2>4, <2>5 DEF TextInOrder
<1>4. ASSUME NEW failed, evalstring_exit(failed) PROVE FALSE
  <2>1. Len(stack) \in Nat \ {0} /\ Top.kind = "evalstring"
    BY <1>1, <1>4, PopFrame DEF evalstring_exit, InKind, TypeOK
  <2> QED BY <2>1 DEF OrderInv, PlainStack, Top
<1>5. CASE Printing
  BY <1>5 DEF Printing, luaOutputCb, DbgScriptIO_write, DbgScriptStdIO_write, Writes
<1>6. CASE Buffering
  BY <1>6 DEF Buffering, dbgscript_startBuffering, dbgscript_stopBuffering,
     dbgscript_start_buffering, dbgscript_stop_buffering, DbgScript_start_buffering,
     DbgScript_stop_buffering, StartBuffering, StopBuffering
<1>7. CASE Reporting
  BY <1>2, <1>7
     DEF Reporting, luaRuntimeError, topLevelExceptionHandler, MessageUnobtainable
<1>8. CASE Executing
  BY <1>8 DEF Executing, ExecuteCaptured, InstallFails, ExecuteDirect, CommandPrints,
     CapturedReturns, CapturedFails, DirectReturns
<1>9. CASE Hosting
  BY <1>3, <1>4, <1>9 DEF Hosting, runscript, evalstring
<1> QED BY <1>5, <1>6, <1>7, <1>8, <1>9 DEF Next

\* Only Ruby's handler says that there is no message.
LEMMA UnexplainedIsRuby ==
  ASSUME [Next]_vars, unexplained' # unexplained
  PROVE  ScriptRunning("rb") /\ UNCHANGED failures
<1> USE DEF tallies
<1>1. ~Printing
  BY DEF Printing, luaOutputCb, DbgScriptIO_write, DbgScriptStdIO_write, Writes
<1>2. ~Buffering
  BY DEF Buffering, dbgscript_startBuffering, dbgscript_stopBuffering,
     dbgscript_start_buffering, dbgscript_stop_buffering, DbgScript_start_buffering,
     DbgScript_stop_buffering, StartBuffering, StopBuffering
<1>3. CASE Reporting
  BY <1>3 DEF Reporting, luaRuntimeError, topLevelExceptionHandler, ReportError,
     MessageUnobtainable
<1>4. ~Executing
  BY DEF Executing, ExecuteCaptured, InstallFails, ExecuteDirect, CommandPrints,
     CapturedReturns, CapturedFails, DirectReturns
<1>5. ~Hosting
  BY DEF Hosting, runscript, evalstring, runscript_exit, evalstring_exit
<1>6. ~(UNCHANGED vars)
  BY DEF vars
<1> QED BY <1>1, <1>2, <1>3, <1>4, <1>5, <1>6 DEF Next

\* The message about a failed script comes after all that was printed before the
\* failure, also by the runs nested in it and the commands it executed (the error
\* handlers of Lua and Ruby, and the end of runscript); only Ruby's message that
\* the exception's own could not be had may come earlier.
THEOREM FailureIsReadLast ==
  ASSUME PlainRuns
  PROVE  Spec => FailureFollowsText
<1>1. OrderInv /\ [Next]_vars =>
        [ /\ failures' # failures => shown' = said
          /\ unexplained' # unexplained => ScriptRunning("rb") /\ UNCHANGED failures ]_vars
  BY FailureShowsAll, UnexplainedIsRuby
<1> QED BY <1>1, OrderInductive, PTL DEF Spec, FailureFollowsText

\* Buffering what does not fit: the length of the text tells.
LEMMA OverflowShows ==
  ASSUME TypeOK, NEW cb, NEW text \in Seq(Char), UtilBufferOutput(cb, text), shown' # shown
  PROVE  BufPosition + Len(said') - Len(said) > MSG_CCH - 1
<1>1. said' = said \o text /\ BufPosition + Len(text) > MSG_CCH - 1
  BY DEF UtilBufferOutput
<1>2. Len(said') = Len(said) + Len(text)
  BY <1>1, ConcatProperties DEF TypeOK
<1>3. Len(said) \in Nat /\ Len(text) \in Nat /\ BufPosition \in Nat
  BY LenProperties DEF TypeOK, BufPosition
<1> QED BY <1>1, <1>2, <1>3, OutputBufferAssumption DEF OutputBufferAssumption

LEMMA HeldBack ==
  ASSUME OrderInv, PlainRuns, Next, IsBuffering' > 0, failures' = failures, shown' # shown
  PROVE  BufPosition + Len(said') - Len(said) > MSG_CCH - 1
<1>1. TypeOK
  BY DEF OrderInv, HeldInv
<1>2. ASSUME NEW p, NEW text \in Text, Writes(p, text)
      PROVE  BufPosition + Len(said') - Len(said) > MSG_CCH - 1
  <2>1. IsBuffering # 0 /\ text \in Seq(Char)
    BY <1>2, OutputBufferAssumption DEF Writes, OutputBufferAssumption
  <2>2. UtilBufferOutput(callback, text)
    BY <1>2, <2>1 DEF Writes, Emit
  <2> QED BY <1>1, <2>1, <2>2, OverflowShows
<1>3. ASSUME NEW p, StartBuffering(p) \/ StopBuffering(p) PROVE FALSE
  BY <1>1, <1>3 DEF StartBuffering, StopBuffering, TypeOK
<1>4. ASSUME NEW p, ReportError(p) PROVE FALSE
  <2>1. callback = "client"
    BY <1>4, ScriptClient DEF ReportError, ScriptRunning, InKind, OrderInv
  <2> QED BY <1>1, <1>4, <2>1 DEF ReportError, FailureMessage, TypeOK
<1>5. ASSUME NEW text, CommandPrints(text) PROVE FALSE
  <2>1. CASE InKind({"capture"})
    BY <1>5, <2>1 DEF CommandPrints, Output, Shown, OrderInv, CaptureInstalled
  <2>2. CASE InKind({"direct"})
    BY <1>5, <2>2 DEF CommandPrints, OrderInv, OffOutsideScripts
  <2> QED BY <1>5, <2>1, <2>2 DEF CommandPrints
<1>6. CASE CapturedReturns
  BY <1>1, <1>6, OverflowShows DEF CapturedReturns, TypeOK
<1>7. CASE Printing
  BY <1>2, <1>7 DEF Printing, luaOutputCb, DbgScriptIO_write, DbgScriptStdIO_write
<1>8. CASE Buffering
  BY <1>3, <1>8 DEF Buffering, dbgscript_startBuffering, dbgscript_stopBuffering,
     dbgscript_start_buffering, dbgscript_stop_buffering,
     DbgScript_start_buffering, DbgScript_stop_buffering
<1>9. CASE Reporting
  BY <1>4, <1>9
     DEF Reporting, luaRuntimeError, topLevelExceptionHandler, MessageUnobtainable
<1>10. CASE Executing
  BY <1>5, <1>6, <1>10 DEF Executing, ExecuteCaptured, InstallFails, ExecuteDirect,
     CapturedFails, DirectReturns
<1>11. CASE Hosting
  <2>1. ASSUME NEW failed, runscript_exit(failed) PROVE FALSE
    <3>1. IsBuffering' = 0
      BY <2>1 DEF runscript_exit
    <3> QED BY <3>1
  <2>2. \A p : ~runscript(p) /\ ~evalstring(p)
    BY DEF runscript, evalstring
  <2>3. \A failed : ~evalstring_exit(failed)
    BY DEF evalstring_exit
  <2> QED BY <1>11, <2>1, <2>2, <2>3 DEF Hosting
<1> QED BY <1>7, <1>8, <1>9, <1>10, <1>11 DEF Next

\* Start and stop nest for any number of calls, runs and captures: while buffering
\* goes on, only a buffer that fills or an error report shows what it holds.
THEOREM HeldUntilStopped ==
  ASSUME PlainRuns
  PROVE  Spec => HeldUntilOutermostStop
<1>1. OrderInv /\ [Next]_vars =>
        [ (IsBuffering' > 0 /\ failures' = failures /\ shown' # shown)
             => BufPosition + Len(said') - Len(said) > MSG_CCH - 1 ]_vars
  BY HeldBack
<1> QED BY <1>1, OrderInductive, PTL DEF Spec, HeldUntilOutermostStop

-----------------------------------------------------------------------------
(* The abstract specification, under those assumptions                     *)

\* What is held is what was written and not yet seen.
LEMMA HeldLength ==
  ASSUME TypeOK, TextInOrder
  PROVE  /\ Len(said) \in Nat /\ Len(shown) \in Nat
         /\ BufPosition = Len(said) - Len(shown)
<1>1. Len(said) = Len(shown) + Len(MessageBuf)
  BY ConcatProperties DEF TypeOK, TextInOrder
<1>2. Len(said) \in Nat /\ Len(shown) \in Nat /\ Len(MessageBuf) \in Nat
  BY LenProperties DEF TypeOK
<1> QED BY <1>1, <1>2 DEF BufPosition

\* A text written goes behind what was written.
LEMMA WrittenBehind ==
  ASSUME TypeOK, NEW text \in Seq(Char), said' = said \o text
  PROVE  /\ said' \in Seq(Char)
         /\ Len(said') - Len(said) = Len(text)
         /\ Stream!Continues(said, said')
<1>1. /\ said' \in Seq(Char)
      /\ Len(said') = Len(said) + Len(text)
      /\ \A i \in 1 .. Len(said) + Len(text) :
            said'[i] = IF i <= Len(said) THEN said[i] ELSE text[i - Len(said)]
  BY ConcatProperties DEF TypeOK
<1>2. Len(said) \in Nat /\ Len(text) \in Nat
  BY LenProperties DEF TypeOK
<1> QED BY <1>1, <1>2 DEF Stream!Continues

\* A text buffered is written to the stream.
LEMMA BufferedIsWritten ==
  ASSUME TypeOK, TextInOrder, stack # <<>>, stack' # <<>>,
         IsBuffering > 0, IsBuffering' = IsBuffering, failures' = failures,
         NEW text \in Seq(Char), Len(text) <= MSG_CCH - 1, UtilBufferOutput("client", text)
  PROVE  Stream!Write
<1>1. said' = said \o text
  BY DEF UtilBufferOutput
<1>2. /\ said' \in Seq(Char)
      /\ Len(said') - Len(said) = Len(text)
      /\ Stream!Continues(said, said')
  BY <1>1, WrittenBehind
<1>3. /\ Len(said) \in Nat /\ Len(shown) \in Nat /\ Len(said') \in Nat
      /\ BufPosition = Len(said) - Len(shown)
      /\ MSG_CCH - 1 \in Nat
  BY <1>2, HeldLength, LenProperties, OutputBufferAssumption DEF OutputBufferAssumption
<1>4. \/ Len(said') - Len(shown) <= MSG_CCH - 1 /\ shown' = shown
      \/ Len(said') - Len(shown) > MSG_CCH - 1 /\ shown' = said
  <2>1. CASE BufPosition + Len(text) <= MSG_CCH - 1 /\ UNCHANGED shown
    BY <1>2, <1>3, <2>1
  <2>2. CASE BufPosition + Len(text) > MSG_CCH - 1 /\ shown' = shown \o MessageBuf
    BY <1>2, <1>3, <2>2 DEF TextInOrder
  <2> QED BY <2>1, <2>2 DEF UtilBufferOutput, Output, Shown
<1> QED BY <1>2, <1>3, <1>4 DEF Stream!Write

\* A text shown at once is, too.
LEMMA ShownIsWritten ==
  ASSUME TypeOK, TextInOrder, MessageBuf = <<>>, callback = "client", stack # <<>>,
         UNCHANGED <<IsBuffering, MessageBuf, stack, failures>>, IsBuffering = 0,
         NEW text \in Seq(Char), Output(callback, text), said' = said \o text
  PROVE  Stream!Write
<1>1. said' \in Seq(Char) /\ Stream!Continues(said, said')
  BY WrittenBehind
<1>2. shown' = said'
  <2>1. shown = said
    BY ConcatEmptySeq DEF TypeOK, TextInOrder
  <2> QED BY <2>1 DEF Output, Shown
<1> QED BY <1>1, <1>2 DEF Stream!Write

LEMMA WritesStream ==
  ASSUME OrderInv, PlainRuns, NEW p, NEW text \in Text, Writes(p, text)
  PROVE  Stream!Write
<1>1. /\ callback = "client" /\ stack # <<>> /\ TypeOK /\ TextInOrder
  BY ScriptClient DEF Writes, ScriptRunning, InKind, OrderInv, HeldInv
<1>2. text \in Seq(Char) /\ Len(text) <= MSG_CCH - 1
  BY OutputBufferAssumption DEF OutputBufferAssumption, PlainRuns
<1>3. UNCHANGED <<IsBuffering, stack, failures>> /\ Emit(text)
  BY DEF Writes
<1>4. CASE IsBuffering > 0 /\ UtilBufferOutput(callback, text)
  BY <1>1, <1>2, <1>3, <1>4, BufferedIsWritten
<1>5. CASE /\ IsBuffering = 0
           /\ Output(callback, text)
           /\ said' = said \o text
           /\ UNCHANGED MessageBuf
  <2>1. MessageBuf = <<>>
    BY <1>5 DEF OrderInv, HeldInv, HeldOnlyWhileBuffering
  <2> QED BY <1>1, <1>2, <1>3, <1>5, <2>1, ShownIsWritten
<1> QED BY <1>3, <1>4, <1>5 DEF Emit

LEMMA StartStream ==
  ASSUME OrderInv, NEW p, StartBuffering(p)
  PROVE  Stream!Hold \/ UNCHANGED Stream!vars
<1>1. stack # <<>> /\ IsBuffering \in Nat /\ IsBuffering' = IsBuffering + 1
      /\ UNCHANGED <<stack, shown, said, failures>>
  BY DEF StartBuffering, ScriptRunning, InKind, OrderInv, HeldInv, TypeOK
<1>2. CASE IsBuffering = 0
  BY <1>1, <1>2 DEF Stream!Hold
<1>3. CASE IsBuffering > 0
  BY <1>1, <1>3 DEF Stream!vars
<1> QED BY <1>1, <1>2, <1>3

LEMMA StopStream ==
  ASSUME OrderInv, NEW p, StopBuffering(p)
  PROVE  Stream!Release \/ UNCHANGED Stream!vars
<1>1. /\ IsBuffering \in Nat
      /\ IsBuffering' = IF IsBuffering = 0 THEN 0 ELSE IsBuffering - 1
      /\ UNCHANGED <<stack, said, failures>>
  BY DEF StopBuffering, OrderInv, HeldInv, TypeOK
<1>2. CASE IsBuffering = 1
  <2>1. callback = "client" /\ UtilFlushMessageBuffer
    BY <1>2, ScriptClient DEF StopBuffering, ScriptRunning, InKind, OrderInv
  <2>2. shown' = said
    BY <2>1, FlushShowsAll DEF OrderInv, HeldInv
  <2> QED BY <1>1, <1>2, <2>2 DEF Stream!Release
<1>3. CASE IsBuffering # 1
  <2>1. UNCHANGED shown
    BY <1>3 DEF StopBuffering
  <2>2. (IsBuffering' > 0) = (IsBuffering > 0)
    BY <1>1, <1>3
  <2> QED BY <1>1, <2>1, <2>2 DEF Stream!vars
<1> QED BY <1>2, <1>3

LEMMA ReportStream ==
  ASSUME OrderInv, NEW p, ReportError(p)
  PROVE  Stream!Report
<1>1. callback = "client" /\ stack # <<>> /\ UtilFlushMessageBuffer
  BY ScriptClient DEF ReportError, ScriptRunning, InKind, OrderInv
<1>2. shown' = said
  BY <1>1, FlushShowsAll DEF OrderInv, HeldInv
<1>3. failures' = failures + 1 /\ UNCHANGED <<IsBuffering, stack, said>>
  BY <1>1 DEF ReportError, FailureMessage
<1> QED BY <1>1, <1>2, <1>3 DEF Stream!Report

\* A command under capture writes nothing yet.
LEMMA CommandStream ==
  ASSUME OrderInv, NEW text \in Chunk, CommandPrints(text)
  PROVE  Stream!Write \/ UNCHANGED Stream!vars
<1>1. /\ text \in Seq(Char) /\ TypeOK /\ TextInOrder
      /\ UNCHANGED <<IsBuffering, MessageBuf, callback, failures>>
      /\ Output(callback, text)
  BY OutputBufferAssumption DEF OutputBufferAssumption, OrderInv, HeldInv, CommandPrints
<1>2. CASE /\ InKind({"capture"})
           /\ stack' = [stack EXCEPT ![Len(stack)].emitted = @ \o text]
           /\ UNCHANGED said
  <2>1. shown' = shown
    BY <1>1, <1>2 DEF OrderInv, CaptureInstalled, Output, Shown
  <2>2. stack # <<>> /\ stack' # <<>>
    <3>1. stack # <<>>
      BY <1>2 DEF InKind
    <3>2. Len(stack') = Len(stack) /\ Len(stack) \in Nat \ {0}
      BY <1>1, <1>2, <3>1, EmitFrame, PopFrame DEF TypeOK
    <3> QED BY <3>1, <3>2, EmptySeq
  <2>3. (stack' = <<>>) = (stack = <<>>)
    BY <2>2
  <2> QED BY <1>1, <1>2, <2>1, <2>3 DEF Stream!vars
<1>3. CASE /\ InKind({"direct"})
           /\ said' = said \o text
           /\ UNCHANGED stack
  <2>1. callback = "client" /\ MessageBuf = <<>> /\ IsBuffering = 0 /\ stack # <<>>
    BY <1>3, ScriptClient DEF InKind, OrderInv, HeldInv, HeldOnlyWhileBuffering, OffOutsideScripts
  <2> QED BY <1>1, <1>3, <2>1, ShownIsWritten
<1> QED BY <1>2, <1>3 DEF CommandPrints

\* It is written when the command returns.
LEMMA ReturnStream ==
  ASSUME OrderInv, PlainRuns, CapturedReturns
  PROVE  Stream!Write
<1> USE OutputBufferAssumption
<1>1. stack # <<>> /\ TypeOK /\ TextInOrder /\ InKind({"capture"})
  BY DEF CapturedReturns, InKind, OrderInv, HeldInv
<1>2. Top.prev = "client" /\ IsBuffering > 0
  BY <1>1, CaptureClient
<1>3. UtilBufferOutput("client", Buf) /\ UNCHANGED <<IsBuffering, failures>>
  BY <1>2 DEF CapturedReturns, Revert, PlainRuns
<1>4. stack' # <<>>
  BY <1>1, PopToScript DEF CapturedReturns, InKind, OrderInv
<1>5. Buf \in Seq(Char) /\ Len(Buf) <= MSG_CCH - 1
  BY <1>1, LenProperties DEF OrderInv, TypeOK, OutputBufferAssumption
<1> QED BY <1>1, <1>2, <1>3, <1>4, <1>5, BufferedIsWritten

\* A run that ends shows all that was written and turns buffering off.
LEMMA ExitStream ==
  ASSUME OrderInv, NEW failed \in BOOLEAN, runscript_exit(failed)
  PROVE  Stream!End
<1>1. /\ InKind({"runscript"}) /\ stack # <<>> /\ Len(stack) \in Nat \ {0}
      /\ TypeOK /\ TextInOrder
  BY PopFrame DEF runscript_exit, InKind, OrderInv, HeldInv, TypeOK
<1>2. ~Top.timed
  BY <1>1 DEF OrderInv, PlainStack, Top
<1>3. callback = "client"
  BY <1>1, ScriptClient DEF OrderInv, InKind
<1>4. said' = said \o <<>> /\ shown' = shown \o (<<>> \o MessageBuf) /\ IsBuffering' = 0
  BY <1>2, <1>3 DEF runscript_exit, Shown
<1>5. said' = said /\ shown' = said
  BY <1>1, <1>4, ConcatEmptySeq DEF TypeOK, TextInOrder
<1>6. failures' \in {failures, failures + 1}
  BY <1>3 DEF runscript_exit, FailureMessage
<1> QED BY <1>1, <1>4, <1>5, <1>6 DEF Stream!End

\* An invocation begins: the first one leaves the prompt.
LEMMA EnterStream ==
  ASSUME OrderInv, NEW kind \in {"runscript", "capture", "direct"}, NEW p \in Provider,
         NEW prev \in Callback, Push(kind, p, FALSE, prev),
         UNCHANGED <<IsBuffering, shown, said, failures>>
  PROVE  Stream!Begin \/ UNCHANGED Stream!vars
<1>1. stack' # <<>>
  BY PushPlain DEF OrderInv, HeldInv
<1>2. CASE stack = <<>>
  BY <1>1, <1>2 DEF Stream!Begin
<1>3. CASE stack # <<>>
  <2>1. (stack' = <<>>) = (stack = <<>>)
    BY <1>1, <1>3
  <2> QED BY <2>1 DEF Stream!vars
<1> QED BY <1>2, <1>3

\* Any other ends as it began, in a script that goes on.
LEMMA PopStream ==
  ASSUME OrderInv, InKind({"capture", "direct"}), stack' = Pop,
         UNCHANGED <<IsBuffering, shown, said, failures>>
  PROVE  UNCHANGED Stream!vars
<1>1. stack # <<>> /\ stack' # <<>>
  BY PopToScript DEF OrderInv, InKind
<1>2. (stack' = <<>>) = (stack = <<>>)
  BY <1>1
<1> QED BY <1>2 DEF Stream!vars

LEMMA StepStream ==
  ASSUME OrderInv, PlainRuns, [Next]_vars
  PROVE  [Stream!Next]_(Stream!vars)
<1>1. CASE Printing
  BY <1>1, WritesStream
     DEF Printing, luaOutputCb, DbgScriptIO_write, DbgScriptStdIO_write, Stream!Next
<1>2. CASE Buffering
  BY <1>2, StartStream, StopStream DEF Buffering, dbgscript_startBuffering,
     dbgscript_stopBuffering, dbgscript_start_buffering, dbgscript_stop_buffering,
     DbgScript_start_buffering, DbgScript_stop_buffering, Stream!Next
<1>3. CASE Reporting
  <2>1. ASSUME MessageUnobtainable PROVE UNCHANGED Stream!vars
    BY <2>1 DEF MessageUnobtainable, Stream!vars
  <2> QED BY <1>3, <2>1, ReportStream
          DEF Reporting, luaRuntimeError, topLevelExceptionHandler, Stream!Next
<1>4. CASE Executing
  <2>1. ASSUME NEW p \in Provider, ExecuteCaptured(p) \/ ExecuteDirect(p)
        PROVE  Stream!Begin \/ UNCHANGED Stream!vars
    <3>1. callback \in Callback
      BY DEF OrderInv, HeldInv, TypeOK
    <3> QED BY <2>1, <3>1, EnterStream DEF ExecuteCaptured, ExecuteDirect
  <2>2. ASSUME NEW p, InstallFails(p) PROVE UNCHANGED Stream!vars
    BY <2>2 DEF InstallFails, Stream!vars
  <2>3. ASSUME NEW text \in Chunk, CommandPrints(text)
        PROVE  Stream!Write \/ UNCHANGED Stream!vars
    BY <2>3, CommandStream
  <2>4. CASE CapturedReturns
    BY <2>4, ReturnStream DEF Stream!Next
  <2>5. CASE CapturedFails \/ DirectReturns
    <3>1. InKind({"capture", "direct"}) /\ stack' = Pop
          /\ UNCHANGED <<IsBuffering, shown, said, failures>>
      BY <2>5 DEF CapturedFails, DirectReturns, InKind
    <3> QED BY <3>1, PopStream
  <2> QED BY <1>4, <2>1, <2>2, <2>3, <2>4, <2>5 DEF Executing, Stream!Next
<1>5. CASE Hosting
  <2>1. ASSUME NEW p \in Provider, runscript(p)
        PROVE  Stream!Begin \/ UNCHANGED Stream!vars
    <3>1. Push("runscript", p, FALSE, "none")
      BY <2>1 DEF runscript, PlainRuns
    <3> QED BY <2>1, <3>1, EnterStream DEF runscript, Callback
  <2>2. ASSUME NEW p \in Provider, evalstring(p) PROVE FALSE
    BY <2>2 DEF evalstring, PlainRuns
  <2>3. ASSUME NEW failed \in BOOLEAN, runscript_exit(failed) PROVE Stream!End
    BY <2>3, ExitStream
  <2>4. ASSUME NEW failed \in BOOLEAN, evalstring_exit(failed) PROVE FALSE
    <3>1. Len(stack) \in Nat \ {0} /\ Top.kind = "evalstring"
      BY <2>4, PopFrame DEF evalstring_exit, InKind, OrderInv, HeldInv, TypeOK
    <3> QED BY <3>1 DEF OrderInv, PlainStack, Top
  <2> QED BY <1>5, <2>1, <2>2, <2>3, <2>4 DEF Hosting, Stream!Next
<1>6. CASE UNCHANGED vars
  BY <1>6 DEF vars, Stream!vars
<1> QED BY <1>1, <1>2, <1>3, <1>4, <1>5, <1>6 DEF Next

\* MessageBuf, the capturing callbacks, the nested invocations and their error
\* reports implement the stream of text that the documents describe, for every
\* size of the buffers.
THEOREM StreamImplemented ==
  ASSUME PlainRuns
  PROVE  Spec => ImplementsStream
<1>1. Init => Stream!Init
  BY DEF Init, Stream!Init
<1>2. OrderInv /\ [Next]_vars => [Stream!Next]_(Stream!vars)
  BY StepStream
<1> QED BY <1>1, <1>2, OrderInductive, PTL DEF Spec, ImplementsStream, Stream!Spec

\* What such a stream shows its reader: no more than a chunk is missing, nothing
\* unless text is held back, and nothing at the prompt.
THEOREM StreamReadsOn == Stream!Spec => []Stream!ReadsOn
<1>1. MSG_CCH - 1 \in Nat
  BY OutputBufferAssumption DEF OutputBufferAssumption
<1>2. Stream!Init => Stream!ReadsOn
  BY <1>1, EmptySeq DEF Stream!Init, Stream!ReadsOn, Stream!Continues
<1>3. ASSUME Stream!ReadsOn, [Stream!Next]_(Stream!vars) PROVE Stream!ReadsOn'
  <2>1. /\ said \in Seq(Char) /\ shown \in Seq(Char)
        /\ Len(said) \in Nat /\ Len(shown) \in Nat
    BY <1>3, LenProperties DEF Stream!ReadsOn
  <2>2. \A s \in Seq(Char) : Stream!Continues(s, s)
    BY LenProperties DEF Stream!Continues
  <2>3. CASE Stream!Write
    <3>1. /\ said' \in Seq(Char) /\ Stream!Continues(said, said')
          /\ Len(said') \in Nat /\ Len(said) <= Len(said')
      BY <2>3, LenProperties DEF Stream!Write, Stream!Continues
    <3>2. Stream!Continues(shown, said')
      BY <1>3, <2>1, <3>1 DEF Stream!ReadsOn, Stream!Continues
    <3>3. CASE ~(IsBuffering > 0) /\ shown' = said'
      BY <1>1, <1>3, <2>2, <2>3, <3>1, <3>3 DEF Stream!Write, Stream!ReadsOn
    <3>4. CASE shown' = shown /\ Len(said') - Len(shown) <= MSG_CCH - 1
      BY <1>1, <1>3, <2>1, <2>3, <3>1, <3>2, <3>4 DEF Stream!Write, Stream!ReadsOn
    <3>5. CASE shown' = said /\ Len(said') - Len(said) <= MSG_CCH - 1
      BY <1>1, <1>3, <2>1, <2>3, <3>1, <3>5 DEF Stream!Write, Stream!ReadsOn
    <3> QED BY <2>3, <3>3, <3>4, <3>5 DEF Stream!Write
  <2>4. CASE Stream!Begin \/ Stream!Hold \/ UNCHANGED Stream!vars
    BY <1>3, <2>4 DEF Stream!Begin, Stream!Hold, Stream!vars, Stream!ReadsOn
  <2>5. CASE Stream!Release \/ Stream!Report \/ Stream!End
    BY <1>1, <1>3, <2>1, <2>2, <2>5
       DEF Stream!Release, Stream!Report, Stream!End, Stream!ReadsOn
  <2> QED BY <1>3, <2>3, <2>4, <2>5 DEF Stream!Next
<1> QED BY <1>2, <1>3, PTL DEF Stream!Spec
=============================================================================
