----------------------------- MODULE ScopeQuery -----------------------------
(***************************************************************************)
(* What a script asks of a thread or of a stack frame: its stack, its      *)
(* current frame, its TEB, its variables (support/dsthread.cpp,            *)
(* support/dsstackframe.cpp, support/util.cpp and the Thread and           *)
(* StackFrame classes of the providers).                                   *)
(*                                                                         *)
(* The debugger engine answers for its current thread and its current      *)
(* scope frame only, so a query switches both, asks, and switches back.    *)
(* CAutoSwitchThread and CAutoSwitchStackFrame switch back in their        *)
(* destructors, whichever engine call fails.  The variables of a frame     *)
(* come as a symbol group, which outlives the scope and is released when   *)
(* it has been enumerated.                                                 *)
(*                                                                         *)
(* What the engine does to the scope frame when the thread changes is not  *)
(* the program's choice: it may keep the index or go to frame 0.           *)
(***************************************************************************)
EXTENDS Integers

CONSTANTS
  Thread,        \* engine thread ids
  MaxFrame,      \* bound: frame numbers run from 0
  Provider,      \* the script providers in use: "lua", "py", "rb"
  Raising,       \* those in which making a typed object may raise
  Failure,       \* the engine calls that may fail
  ScopeOnSwitch, \* what a thread switch may do to the scope: "kept", "reset"
  MaxSymbols,    \* bound: variables in a frame
  MaxGroups      \* bound: symbol groups alive

EngineCall == {"GetCurrentThreadId", "SetCurrentThreadId", "GetCurrentScopeFrameIndex",
               "SetScopeFrameByIndex", "revertFrame", "revertThread", "answer",
               "GetNumberSymbols", "symbol"}

ASSUME ScopeQueryAssumption ==
  /\ MaxFrame \in Nat
  /\ Provider \subseteq {"lua", "py", "rb"}
  /\ Raising \subseteq {"lua", "rb"}
  /\ Failure \subseteq EngineCall
  /\ ScopeOnSwitch \in (SUBSET {"kept", "reset"}) \ {{}}
  /\ MaxSymbols \in Nat
  /\ MaxGroups \in Nat

Frame == 0 .. MaxFrame

VARIABLES
  pc,            \* where the query is
  op,            \* what is asked: "stack", "currentFrame", "teb", "variables"
  prov,          \* by a script of which provider
  target,        \* of which thread, and of which of its frames
  targetFrame,
  thread,        \* the engine's current thread
  frame,         \* the engine's current scope frame
  prevThread,    \* CAutoSwitchThread::m_PrevThreadId
  didThread,     \* CAutoSwitchThread::m_DidSwitch
  prevFrame,     \* CAutoSwitchStackFrame::m_PrevIdx
  didFrame,      \* CAutoSwitchStackFrame::m_DidSwitch
  hr,            \* has every call of the query succeeded?
  left,          \* symbols still to enumerate
  groups,        \* symbol groups not released
  askedThread,   \* history: the thread and the frame the engine answered for
  askedFrame,
  beforeThread,  \* history: what was current, and alive, before the query
  beforeFrame,
  beforeGroups,
  warned,        \* history: the frame's destructor could not switch back, and said so
  stranded       \* history: the thread's could not, and did not

scope == <<thread, frame>>
query == <<op, prov, target, targetFrame>>
switches == <<prevThread, didThread, prevFrame, didFrame>>
asked == <<askedThread, askedFrame>>
before == <<beforeThread, beforeFrame, beforeGroups>>
failedReverts == <<warned, stranded>>
vars == <<pc, op, prov, target, targetFrame, thread, frame, prevThread, didThread,
          prevFrame, didFrame, hr, left, groups, askedThread, askedFrame,
          beforeThread, beforeFrame, beforeGroups, warned, stranded>>

TypeOK ==
  /\ pc \in {"script", "thread", "frame", "ask", "leaveFrame", "leaveThread",
             "count", "enumerate", "release", "return"}
  /\ op \in {"stack", "currentFrame", "teb", "variables"}
  /\ prov \in Provider
  /\ target \in Thread
  /\ targetFrame \in Frame
  /\ thread \in Thread
  /\ frame \in Frame
  /\ prevThread \in Thread
  /\ didThread \in BOOLEAN
  /\ prevFrame \in Frame
  /\ didFrame \in BOOLEAN
  /\ hr \in BOOLEAN
  /\ left \in Nat
  /\ groups \in Nat
  /\ askedThread \in Thread
  /\ askedFrame \in Frame
  /\ beforeThread \in Thread
  /\ beforeFrame \in Frame
  /\ beforeGroups \in Nat
  /\ warned \in BOOLEAN
  /\ stranded \in BOOLEAN

Init ==
  /\ pc = "script"
  /\ op = "stack"
  /\ prov \in Provider
  /\ target \in Thread
  /\ targetFrame = 0
  /\ thread = target
  /\ frame = 0
  /\ prevThread = target
  /\ didThread = FALSE
  /\ prevFrame = 0
  /\ didFrame = FALSE
  /\ hr = TRUE
  /\ left = 0
  /\ groups = 0
  /\ askedThread = target
  /\ askedFrame = 0
  /\ beforeThread = target
  /\ beforeFrame = 0
  /\ beforeGroups = 0
  /\ warned = FALSE
  /\ stranded = FALSE

-----------------------------------------------------------------------------
(* Queries, and what happens between them                                  *)

\* The user, or a command the script executes, selects a thread and a frame.
Select ==
  /\ pc = "script"
  /\ thread' \in Thread
  /\ frame' \in Frame
  /\ UNCHANGED <<pc, query, switches, hr, left, groups, asked, before, failedReverts>>

\* A script calls a method of a Thread or a StackFrame object it holds, whether
\* or not the thread and the frame still are what they were.
Ask(o, p, t, f) ==
  /\ pc = "script"
  /\ pc' = "thread"
  /\ op' = o
  /\ prov' = p
  /\ target' = t
  /\ targetFrame' = f
  /\ didThread' = FALSE
  /\ didFrame' = FALSE
  /\ hr' = TRUE
  /\ beforeThread' = thread
  /\ beforeFrame' = frame
  /\ beforeGroups' = groups
  /\ warned' = FALSE
  /\ stranded' = FALSE
  /\ UNCHANGED <<scope, prevThread, prevFrame, left, groups, asked>>

DsGetStackTrace(p, t) == Ask("stack", p, t, 0)
DsGetCurrentStackFrame(p, t) == Ask("currentFrame", p, t, 0)
DsThreadGetTeb(p, t) == Ask("teb", p, t, 0)
getVariablesHelper(p, t, f) == Ask("variables", p, t, f)

Return ==
  /\ pc = "return"
  /\ pc' = "script"
  /\ UNCHANGED <<query, scope, switches, hr, left, groups, asked, before, failedReverts>>

-----------------------------------------------------------------------------
(* CAutoSwitchThread and CAutoSwitchStackFrame                             *)

\* The engine changes threads.
SetCurrentThreadId(t) ==
  /\ thread' = t
  /\ \E effect \in ScopeOnSwitch : frame' = IF effect = "kept" THEN frame ELSE 0

Fails(call, next) ==
  /\ call \in Failure
  /\ hr' = FALSE
  /\ pc' = next

\* Fault: the frame of a query for variables is selected before the thread.
SwitchThreadLast ==
  /\ pc = "thread"
  /\ prevThread' = thread
  /\ prevFrame' = frame
  /\ didThread' = (thread # target)
  /\ didFrame' = (op = "variables")
  /\ thread' = target
  /\ \E effect \in ScopeOnSwitch :
       frame' = IF effect = "reset" /\ thread # target THEN 0
                ELSE IF op = "variables" THEN targetFrame ELSE frame
  /\ pc' = "ask"
  /\ UNCHANGED <<query, hr, left, groups, asked, before, failedReverts>>

SwitchThread ==
  LET next == IF op = "variables" THEN "frame" ELSE "ask" IN
  /\ pc = "thread"
  /\ \/ /\ Fails("GetCurrentThreadId", "leaveThread")
        /\ UNCHANGED <<scope, prevThread, didThread>>
     \/ /\ prevThread' = thread
        /\ \/ /\ thread = target
              /\ pc' = next
              /\ UNCHANGED <<scope, didThread, hr>>
           \/ /\ thread # target
              /\ Fails("SetCurrentThreadId", "leaveThread")
              /\ UNCHANGED <<scope, didThread>>
           \/ /\ thread # target
              /\ SetCurrentThreadId(target)
              /\ didThread' = TRUE
              /\ pc' = next
              /\ UNCHANGED hr
  /\ UNCHANGED <<query, prevFrame, didFrame, left, groups, asked, before, failedReverts>>

SwitchFrame ==
  /\ pc = "frame"
  /\ \/ /\ Fails("GetCurrentScopeFrameIndex", "leaveFrame")
        /\ UNCHANGED <<frame, prevFrame, didFrame>>
     \/ /\ prevFrame' = frame
        /\ \/ /\ frame = targetFrame
              /\ pc' = "ask"
              /\ UNCHANGED <<frame, didFrame, hr>>
           \/ /\ frame # targetFrame
              /\ Fails("SetScopeFrameByIndex", "leaveFrame")
              /\ UNCHANGED <<frame, didFrame>>
           \/ /\ frame # targetFrame
              /\ frame' = targetFrame
              /\ didFrame' = TRUE
              /\ pc' = "ask"
              /\ UNCHANGED hr
  /\ UNCHANGED <<query, thread, prevThread, didThread, left, groups, asked, before, failedReverts>>

\* Fault: a query that failed leaves the frame it had selected.
RevertFrameOnSuccess ==
  /\ pc = "leaveFrame"
  /\ pc' = "leaveThread"
  /\ frame' = IF didFrame /\ hr THEN prevFrame ELSE frame
  /\ UNCHANGED <<query, thread, switches, hr, left, groups, asked, before, failedReverts>>

\* The destructor of CAutoSwitchStackFrame.  A failure is printed and ignored.
RevertFrame ==
  /\ pc = "leaveFrame"
  /\ pc' = "leaveThread"
  /\ \/ /\ frame' = IF didFrame THEN prevFrame ELSE frame
        /\ UNCHANGED warned
     \/ /\ didFrame
        /\ "revertFrame" \in Failure
        /\ warned' = TRUE
        /\ UNCHANGED frame
  /\ UNCHANGED <<query, thread, switches, hr, left, groups, asked, before, stranded>>

\* Fault: a query that failed stays on the thread it had selected.
RevertThreadOnSuccess ==
  /\ pc = "leaveThread"
  /\ pc' = IF hr /\ op = "variables" THEN "count" ELSE "return"
  /\ IF didThread /\ hr THEN SetCurrentThreadId(prevThread) ELSE UNCHANGED scope
  /\ UNCHANGED <<query, switches, hr, left, groups, asked, before, failedReverts>>

\* The destructor of CAutoSwitchThread.  It asserts that the engine takes the thread
\* back; a release build does not look.
RevertThread ==
  /\ pc = "leaveThread"
  /\ pc' = IF hr /\ op = "variables" THEN "count" ELSE "return"
  /\ \/ /\ IF didThread THEN SetCurrentThreadId(prevThread) ELSE UNCHANGED scope
        /\ UNCHANGED stranded
     \/ /\ didThread
        /\ "revertThread" \in Failure
        /\ stranded' = TRUE
        /\ UNCHANGED scope
  /\ UNCHANGED <<query, switches, hr, left, groups, asked, before, warned>>

-----------------------------------------------------------------------------
(* The answers                                                             *)

\* The engine answers for its current scope: a stack, a frame, a TEB, or the
\* symbol group of a frame.
Answer ==
  LET next == IF op = "variables" THEN "leaveFrame" ELSE "leaveThread" IN
  /\ pc = "ask"
  /\ \/ /\ Fails("answer", next)
        /\ UNCHANGED <<groups, asked>>
     \/ /\ op = "variables" => groups < MaxGroups
        /\ groups' = IF op = "variables" THEN groups + 1 ELSE groups
        /\ askedThread' = thread
        /\ askedFrame' = frame
        /\ pc' = next
        /\ UNCHANGED hr
  /\ UNCHANGED <<query, scope, switches, left, before, failedReverts>>

\* Fault: a frame without variables needs no enumeration.
GetNumberSymbolsSkipping ==
  /\ pc = "count"
  /\ left' \in 0 .. MaxSymbols
  /\ pc' = IF left' = 0 THEN "return" ELSE "enumerate"
  /\ UNCHANGED <<query, scope, switches, hr, groups, asked, before, failedReverts>>

\* The end of UtilCountStackFrameVariables.  A failure returns without a Release,
\* and so do the callers.
GetNumberSymbols ==
  /\ pc = "count"
  /\ \/ /\ Fails("GetNumberSymbols", "return")
        /\ UNCHANGED left
     \/ /\ left' \in 0 .. MaxSymbols
        /\ pc' = "enumerate"
        /\ UNCHANGED hr
  /\ UNCHANGED <<query, scope, switches, groups, asked, before, failedReverts>>

\* How the callback of a provider may end: Python returns an error, Lua and Ruby
\* raise theirs, past UtilEnumStackFrameVariables and its Release.
buildTupleFromLocals == {"ok", "failed"}
buildArrayFromLocals(p) == IF p \in Raising THEN {"ok", "raised"} ELSE {"ok"}

Callback(p) == IF p = "py" THEN buildTupleFromLocals ELSE buildArrayFromLocals(p)

\* One symbol of the loop of UtilEnumStackFrameVariables.
Enumerate ==
  /\ pc = "enumerate"
  /\ left > 0
  /\ left' = left - 1
  /\ \/ Fails("symbol", "release")
     \/ \E outcome \in Callback(prov) :
          /\ hr' = (outcome = "ok")
          /\ pc' = CASE outcome = "ok" -> "enumerate"
                     [] outcome = "failed" -> "release"
                     [] outcome = "raised" -> "return"
  /\ UNCHANGED <<query, scope, switches, groups, asked, before, failedReverts>>

\* Fault: the loop releases the group, and the end of the function again.
EnumerateEndsReleasing ==
  /\ pc = "enumerate"
  /\ left = 0
  /\ pc' = "release"
  /\ groups' = groups - 1
  /\ UNCHANGED <<query, scope, switches, hr, left, asked, before, failedReverts>>

\* Fault: the loop counts down with an unsigned index, which never falls below zero.
EnumerateWraps ==
  /\ pc = "enumerate"
  /\ left = 0
  /\ left' = MaxSymbols
  /\ UNCHANGED <<pc, query, scope, switches, hr, groups, asked, before, failedReverts>>

EnumerateEnds ==
  /\ pc = "enumerate"
  /\ left = 0
  /\ pc' = "release"
  /\ UNCHANGED <<query, scope, switches, hr, left, groups, asked, before, failedReverts>>

Release ==
  /\ pc = "release"
  /\ pc' = "return"
  /\ groups' = groups - 1
  /\ UNCHANGED <<query, scope, switches, hr, left, asked, before, failedReverts>>

-----------------------------------------------------------------------------

Query ==
  \E p \in Provider, t \in Thread :
    \/ DsGetStackTrace(p, t)
    \/ DsGetCurrentStackFrame(p, t)
    \/ DsThreadGetTeb(p, t)
    \/ \E f \in Frame : getVariablesHelper(p, t, f)

Switching == SwitchThread \/ SwitchFrame \/ RevertFrame \/ RevertThread

Answering == Answer \/ GetNumberSymbols \/ Enumerate \/ EnumerateEnds \/ Release

Proceed == Switching \/ Answering \/ Return

Next == Select \/ Query \/ Proceed

Spec == Init /\ [][Next]_vars

\* The engine's calls return, and the thread that made them goes on.  Whether a
\* script ever asks is its own affair.
FairSpec == Spec /\ WF_vars(Proceed)

-----------------------------------------------------------------------------
(* Properties                                                              *)

\* "Need to switch thread context to 'thread', capture stack, then switch back"
\* (support/dsstackframe.cpp): the thread the user had selected is current again
\* when a query is over, whichever of its calls failed, but one: if it is the engine
\* that refuses to switch back, the thread asked about stays selected, and nobody is
\* told.
ThreadRestored == pc = "return" => thread = IF stranded THEN target ELSE beforeThread

\* So is the number of the frame the user had selected, unless the query had to
\* change threads and the engine went to the top frame, or the script has been
\* warned.
FrameRestored ==
  pc = "return" /\ ~warned =>
    \/ frame = beforeFrame
    \/ target # beforeThread /\ frame = 0

\* An answer comes from the thread, and a frame's variables from the frame, that
\* the script asked about, not from the user's selection.
AnswersForTarget ==
  pc \in {"leaveFrame", "leaveThread", "count", "enumerate", "release", "return"} /\ hr
    => askedThread = target /\ (op = "variables" => askedFrame = targetFrame)

\* "You are expected to call UtilEnumStackFrameVariables after this to free the
\* symbol group returned to you" (support/util.cpp): a query that returns its
\* variables has released the group it took, and none releases one it did not take.
GroupsBalanced ==
  pc = "return" => groups >= beforeGroups /\ (hr => groups = beforeGroups)

\* A query comes back to the script that asked, whichever engine calls fail and
\* whatever the callback does with a symbol.
QueryEnds == pc # "script" ~> pc = "script"
=============================================================================
