-------------------------- MODULE ScopeQueryProofs --------------------------
(***************************************************************************)
(* Proofs about ScopeQuery, for every set of threads, every number of      *)
(* frames and every combination of failing engine calls.  The invariant    *)
(* says, for each point of a query, what the engine's scope is in terms of *)
(* what it was before and of what the two switches remember.               *)
(***************************************************************************)
EXTENDS ScopeQuery, TLAPS

\* The engine is, or may be, in the scope of the query.
Inside == {"frame", "ask", "leaveFrame", "leaveThread"}

\* The query has left it.
Outside == {"count", "enumerate", "release", "return"}

\* Before the switch of threads nothing has changed.
Entered ==
  pc = "thread" =>
    /\ thread = beforeThread
    /\ frame = beforeFrame
    /\ groups = beforeGroups
    /\ ~didThread
    /\ ~didFrame
    /\ hr
    /\ ~warned
    /\ ~stranded

ThreadInside ==
  pc \in Inside =>
    /\ ~stranded
    /\ didThread => prevThread = beforeThread /\ thread = target /\ target # beforeThread
    /\ ~didThread => thread = beforeThread
    /\ hr => thread = target

ThreadOutside ==
  pc \in Outside => /\ thread = IF stranded THEN target ELSE beforeThread
                    /\ didThread => target # beforeThread

\* The frame to go back to, as far as the engine has kept it.
Kept(f) == f = beforeFrame \/ (didThread /\ f = 0)

FrameInside ==
  /\ pc \in Inside /\ ~didFrame /\ ~warned => Kept(frame)
  /\ pc \in Inside /\ didFrame => Kept(prevFrame)
  /\ pc = "leaveThread" /\ ~warned => Kept(frame)
  /\ pc \in {"frame", "ask"} => ~warned
  /\ pc = "frame" => ~didFrame
  /\ pc \in Inside /\ didFrame => op = "variables"

FrameOutside == pc \in Outside /\ ~warned => Kept(frame)

Asking ==
  /\ pc = "ask" => hr /\ (op = "variables" => frame = targetFrame)
  /\ pc = "frame" => hr /\ op = "variables"
  /\ pc \in {"count", "enumerate"} => hr /\ op = "variables"
  /\ pc = "release" => op = "variables"
  /\ pc = "leaveFrame" => op = "variables"

\* A group is held from the answer to the release.
Held ==
  /\ pc \in {"frame", "ask"} => groups = beforeGroups
  /\ pc \in {"leaveFrame", "leaveThread"} =>
       groups = IF hr /\ op = "variables" THEN beforeGroups + 1 ELSE beforeGroups
  /\ pc \in {"count", "enumerate", "release"} => groups = beforeGroups + 1

IInv ==
  /\ TypeOK
  /\ Entered
  /\ ThreadInside
  /\ ThreadOutside
  /\ FrameInside
  /\ FrameOutside
  /\ Asking
  /\ Held
  /\ AnswersForTarget
  /\ GroupsBalanced

LEMMA FrameZero == 0 \in Frame
<1>1. MaxFrame \in Nat
  BY ScopeQueryAssumption, Zenon DEF ScopeQueryAssumption
<1> QED
  BY <1>1 DEF Frame

LEMMA Initially == Init => IInv
<1> SUFFICES ASSUME Init PROVE IInv
  OBVIOUS
<1>1. TypeOK
  BY FrameZero DEF Init, TypeOK
<1>2. pc = "script"
  BY DEF Init
<1> QED
  BY <1>1, <1>2
     DEF IInv, Entered, Inside, Outside, ThreadInside, ThreadOutside,
         FrameInside, FrameOutside, Asking, Held, AnswersForTarget, GroupsBalanced

LEMMA SelectKeeps == IInv /\ Select => IInv'
<1> SUFFICES ASSUME IInv, Select PROVE IInv'
  OBVIOUS
<1> USE FrameZero DEF Select, scope, query, switches, asked, before, failedReverts
<1>1. TypeOK'
  BY DEF IInv, TypeOK
<1>2. Entered' /\ ThreadInside' /\ ThreadOutside'
  BY DEF IInv, TypeOK, Entered, Inside, Outside, ThreadInside, ThreadOutside, Asking
<1>3. FrameInside' /\ FrameOutside'
  BY DEF IInv, TypeOK, Entered, Inside, Outside, FrameInside, FrameOutside, Kept, ThreadInside, Asking
<1>4. Asking' /\ Held'
  BY DEF IInv, TypeOK, Entered, Asking, Held
<1>5. AnswersForTarget' /\ GroupsBalanced'
  BY DEF IInv, TypeOK, Asking, Held, AnswersForTarget, GroupsBalanced, ThreadInside, Inside
<1> QED
  BY <1>1, <1>2, <1>3, <1>4, <1>5 DEF IInv

LEMMA QueryKeeps == IInv /\ Query => IInv'
<1> SUFFICES ASSUME IInv, Query PROVE IInv'
  OBVIOUS
<1> USE FrameZero DEF Query, DsGetStackTrace, DsGetCurrentStackFrame, DsThreadGetTeb, getVariablesHelper, Ask, scope, query, switches, asked, before, failedReverts
<1>1. TypeOK'
  BY DEF IInv, TypeOK
<1>2. Entered' /\ ThreadInside' /\ ThreadOutside'
  BY DEF IInv, TypeOK, Entered, Inside, Outside, ThreadInside, ThreadOutside, Asking
<1>3. FrameInside' /\ FrameOutside'
  BY DEF IInv, TypeOK, Entered, Inside, Outside, FrameInside, FrameOutside, Kept, ThreadInside, Asking
<1>4. Asking' /\ Held'
  BY DEF IInv, TypeOK, Entered, Asking, Held
<1>5. AnswersForTarget' /\ GroupsBalanced'
  BY DEF IInv, TypeOK, Asking, Held, AnswersForTarget, GroupsBalanced, ThreadInside, Inside
<1> QED
  BY <1>1, <1>2, <1>3, <1>4, <1>5 DEF IInv

LEMMA SwitchThreadKeeps == IInv /\ SwitchThread => IInv'
<1> SUFFICES ASSUME IInv, SwitchThread PROVE IInv'
  OBVIOUS
<1> USE FrameZero DEF SwitchThread, Fails, SetCurrentThreadId, scope, query, switches, asked, before, failedReverts
<1>1. TypeOK'
  <2>1. thread' \in Thread /\ frame' \in Frame
    BY DEF IInv, TypeOK
  <2>2. prevThread' \in Thread /\ didThread' \in BOOLEAN /\ hr' \in BOOLEAN
    BY DEF IInv, TypeOK
  <2>3. pc' \in {"frame", "ask", "leaveThread"}
    BY DEF IInv
  <2> QED
    BY <2>1, <2>2, <2>3 DEF IInv, TypeOK
<1>2. Entered' /\ ThreadInside' /\ ThreadOutside'
  <2>1. thread = beforeThread /\ ~didThread /\ hr /\ ~stranded
    BY DEF IInv, Entered
  <2>2. UNCHANGED <<target, beforeThread, stranded>> /\ pc' \in {"frame", "ask", "leaveThread"}
    OBVIOUS
  <2>3. \/ thread' = thread /\ didThread' = didThread /\ (hr' => thread = target)
        \/ thread' = target /\ didThread' /\ prevThread' = thread /\ thread # target
    BY <2>1
  <2> HIDE DEF SwitchThread
  <2>4. ThreadInside'
    BY <2>1, <2>2, <2>3 DEF ThreadInside, Inside
  <2>5. Entered' /\ ThreadOutside'
    BY <2>2 DEF Entered, ThreadOutside, Outside
  <2> QED
    BY <2>4, <2>5
<1>3. FrameInside' /\ FrameOutside'
  BY DEF IInv, TypeOK, Entered, Inside, Outside, FrameInside, FrameOutside, Kept, ThreadInside, Asking
<1>4. Asking' /\ Held'
  BY DEF IInv, TypeOK, Entered, Asking, Held
<1>5. AnswersForTarget' /\ GroupsBalanced'
  BY DEF IInv, TypeOK, Asking, Held, AnswersForTarget, GroupsBalanced, ThreadInside, Inside
<1> QED
  BY <1>1, <1>2, <1>3, <1>4, <1>5 DEF IInv

LEMMA SwitchFrameKeeps == IInv /\ SwitchFrame => IInv'
<1> SUFFICES ASSUME IInv, SwitchFrame PROVE IInv'
  OBVIOUS
<1> USE FrameZero DEF SwitchFrame, Fails, scope, query, switches, asked, before, failedReverts
<1>1. TypeOK'
  BY DEF IInv, TypeOK
<1>2. Entered' /\ ThreadInside' /\ ThreadOutside'
  BY DEF IInv, TypeOK, Entered, Inside, Outside, ThreadInside, ThreadOutside, Asking
<1>3. FrameInside' /\ FrameOutside'
  <2>1. Kept(frame) /\ ~didFrame /\ ~warned /\ op = "variables"
    BY DEF IInv, FrameInside, Inside, Asking
  <2>2. /\ UNCHANGED <<op, didThread, beforeFrame, warned>>
        /\ pc' \in {"ask", "leaveFrame"}
    OBVIOUS
  <2>3. \/ frame' = frame /\ didFrame' = didFrame
        \/ didFrame' /\ prevFrame' = frame
    OBVIOUS
  <2> HIDE DEF SwitchFrame
  <2> QED
    BY <2>1, <2>2, <2>3 DEF FrameInside, FrameOutside, Inside, Outside, Kept
<1>4. Asking' /\ Held'
  BY DEF IInv, TypeOK, Entered, Asking, Held
<1>5. AnswersForTarget' /\ GroupsBalanced'
  BY DEF IInv, TypeOK, Asking, Held, AnswersForTarget, GroupsBalanced, ThreadInside, Inside
<1> QED
  BY <1>1, <1>2, <1>3, <1>4, <1>5 DEF IInv

LEMMA RevertFrameKeeps == IInv /\ RevertFrame => IInv'
<1> SUFFICES ASSUME IInv, RevertFrame PROVE IInv'
  OBVIOUS
<1> USE FrameZero DEF RevertFrame, scope, query, switches, asked, before, failedReverts
<1>1. TypeOK'
  BY DEF IInv, TypeOK
<1>2. Entered' /\ ThreadInside' /\ ThreadOutside'
  BY DEF IInv, TypeOK, Entered, Inside, Outside, ThreadInside, ThreadOutside, Asking
<1>3. FrameInside' /\ FrameOutside'
  BY DEF IInv, TypeOK, Entered, Inside, Outside, FrameInside, FrameOutside, Kept, ThreadInside, Asking
<1>4. Asking' /\ Held'
  BY DEF IInv, TypeOK, Entered, Asking, Held
<1>5. AnswersForTarget' /\ GroupsBalanced'
  BY DEF IInv, TypeOK, Asking, Held, AnswersForTarget, GroupsBalanced, ThreadInside, Inside
<1> QED
  BY <1>1, <1>2, <1>3, <1>4, <1>5 DEF IInv

LEMMA RevertThreadKeeps == IInv /\ RevertThread => IInv'
<1> SUFFICES ASSUME IInv, RevertThread PROVE IInv'
  OBVIOUS
<1> USE FrameZero DEF RevertThread, SetCurrentThreadId, scope, query, switches, asked, before, failedReverts
<1>1. TypeOK'
  BY DEF IInv, TypeOK
<1>2. Entered' /\ ThreadInside' /\ ThreadOutside'
  BY DEF IInv, TypeOK, Entered, Inside, Outside, ThreadInside, ThreadOutside, Asking
<1>3. FrameInside' /\ FrameOutside'
  BY DEF IInv, TypeOK, Entered, Inside, Outside, FrameInside, FrameOutside, Kept, ThreadInside, Asking
<1>4. Asking' /\ Held'
  BY DEF IInv, TypeOK, Entered, Asking, Held
<1>5. AnswersForTarget' /\ GroupsBalanced'
  BY DEF IInv, TypeOK, Asking, Held, AnswersForTarget, GroupsBalanced, ThreadInside, Inside
<1> QED
  BY <1>1, <1>2, <1>3, <1>4, <1>5 DEF IInv

LEMMA AnswerKeeps == IInv /\ Answer => IInv'
<1> SUFFICES ASSUME IInv, Answer PROVE IInv'
  OBVIOUS
<1> USE FrameZero DEF Answer, Fails, scope, query, switches, asked, before, failedReverts
<1>1. TypeOK'
  <2>1. groups' \in Nat
    BY DEF IInv, TypeOK
  <2>2. askedThread' \in Thread /\ askedFrame' \in Frame /\ hr' \in BOOLEAN
    BY DEF IInv, TypeOK
  <2>3. pc' \in {"leaveFrame", "leaveThread"}
    BY DEF IInv
  <2> QED
    BY <2>1, <2>2, <2>3 DEF IInv, TypeOK
<1>2. Entered' /\ ThreadInside' /\ ThreadOutside'
  BY DEF IInv, TypeOK, Entered, Inside, Outside, ThreadInside, ThreadOutside, Asking
<1>3. FrameInside' /\ FrameOutside'
  BY DEF IInv, TypeOK, Entered, Inside, Outside, FrameInside, FrameOutside, Kept, ThreadInside, Asking
<1>4. Asking' /\ Held'
  BY DEF IInv, TypeOK, Entered, Asking, Held
<1>5. AnswersForTarget' /\ GroupsBalanced'
  BY DEF IInv, TypeOK, Asking, Held, AnswersForTarget, GroupsBalanced, ThreadInside, Inside
<1> QED
  BY <1>1, <1>2, <1>3, <1>4, <1>5 DEF IInv

LEMMA GetNumberSymbolsKeeps == IInv /\ GetNumberSymbols => IInv'
<1> SUFFICES ASSUME IInv, GetNumberSymbols PROVE IInv'
  OBVIOUS
<1> USE FrameZero DEF GetNumberSymbols, Fails, scope, query, switches, asked, before, failedReverts
<1>1. TypeOK'
  <2>1. MaxSymbols \in Nat
    BY ScopeQueryAssumption, Zenon DEF ScopeQueryAssumption
  <2>2. left' \in Nat /\ hr' \in BOOLEAN
    <3>1. left' = left \/ left' \in 0 .. MaxSymbols
      BY Zenon
    <3>2. hr' = FALSE \/ hr' = hr
      BY Zenon
    <3>3. left \in Nat /\ hr \in BOOLEAN
      BY DEF IInv, TypeOK
    <3> HIDE DEF GetNumberSymbols
    <3>4. left' \in Nat
      BY <2>1, <3>1, <3>3
    <3> QED
      BY <3>2, <3>3, <3>4
  <2>3. pc' \in {"return", "enumerate"}
    BY DEF IInv
  <2>4. UNCHANGED <<query, scope, switches, groups, asked, before, failedReverts>>
    OBVIOUS
  <2> HIDE DEF GetNumberSymbols
  <2> QED
    BY <2>2, <2>3, <2>4 DEF IInv, TypeOK
<1>2. Entered' /\ ThreadInside' /\ ThreadOutside'
  BY DEF IInv, TypeOK, Entered, Inside, Outside, ThreadInside, ThreadOutside, Asking
<1>3. FrameInside' /\ FrameOutside'
  BY DEF IInv, TypeOK, Entered, Inside, Outside, FrameInside, FrameOutside, Kept, ThreadInside, Asking
<1>4. Asking' /\ Held'
  BY DEF IInv, TypeOK, Entered, Asking, Held
<1>5. AnswersForTarget' /\ GroupsBalanced'
  <2>1. /\ pc = "count"
        /\ pc' = "return" => ~hr'
        /\ UNCHANGED <<query, scope, switches, groups, asked, before, failedReverts>>
    BY DEF IInv, Asking
  <2>2. groups = beforeGroups + 1 /\ groups \in Nat /\ beforeGroups \in Nat /\ hr
    BY DEF IInv, TypeOK, Held, Asking
  <2> HIDE DEF GetNumberSymbols
  <2>3. AnswersForTarget'
    BY <2>1, <2>2 DEF IInv, AnswersForTarget
  <2>4. GroupsBalanced'
    BY <2>1, <2>2 DEF GroupsBalanced
  <2> QED
    BY <2>3, <2>4
<1> QED
  BY <1>1, <1>2, <1>3, <1>4, <1>5 DEF IInv

LEMMA EnumerateKeeps == IInv /\ Enumerate => IInv'
<1> SUFFICES ASSUME IInv, Enumerate PROVE IInv'
  OBVIOUS
<1> USE FrameZero DEF Enumerate, Fails, Callback, buildTupleFromLocals, buildArrayFromLocals, scope, query, switches, asked, before, failedReverts
<1>0. pc' \in {"enumerate", "release", "return"} /\ hr' \in BOOLEAN
  BY DEF IInv
<1>1. TypeOK'
  <2>1. left' \in Nat
    BY DEF IInv, TypeOK
  <2> QED
    BY <1>0, <2>1 DEF IInv, TypeOK
<1>2. Entered' /\ ThreadInside' /\ ThreadOutside'
  BY DEF IInv, TypeOK, Entered, Inside, Outside, ThreadInside, ThreadOutside, Asking
<1>3. FrameInside' /\ FrameOutside'
  BY DEF IInv, TypeOK, Entered, Inside, Outside, FrameInside, FrameOutside, Kept, ThreadInside, Asking
<1>4. Asking' /\ Held'
  BY DEF IInv, TypeOK, Entered, Asking, Held
<1>5. AnswersForTarget' /\ GroupsBalanced'
  <2>1. /\ pc = "enumerate"
        /\ pc' = "return" => ~hr'
        /\ UNCHANGED <<query, scope, switches, groups, asked, before, failedReverts>>
    BY DEF IInv
  <2>2. groups = beforeGroups + 1 /\ groups \in Nat /\ beforeGroups \in Nat /\ hr
    BY <2>1 DEF IInv, TypeOK, Held, Asking
  <2> HIDE DEF Enumerate
  <2>3. AnswersForTarget'
    BY <2>1, <2>2 DEF IInv, AnswersForTarget
  <2>4. GroupsBalanced'
    BY <2>1, <2>2 DEF GroupsBalanced
  <2> QED
    BY <2>3, <2>4
<1> QED
  BY <1>1, <1>2, <1>3, <1>4, <1>5 DEF IInv

LEMMA EnumerateEndsKeeps == IInv /\ EnumerateEnds => IInv'
<1> SUFFICES ASSUME IInv, EnumerateEnds PROVE IInv'
  OBVIOUS
<1> USE FrameZero DEF EnumerateEnds, scope, query, switches, asked, before, failedReverts
<1>1. TypeOK'
  BY DEF IInv, TypeOK
<1>2. Entered' /\ ThreadInside' /\ ThreadOutside'
  BY DEF IInv, TypeOK, Entered, Inside, Outside, ThreadInside, ThreadOutside, Asking
<1>3. FrameInside' /\ FrameOutside'
  BY DEF IInv, TypeOK, Entered, Inside, Outside, FrameInside, FrameOutside, Kept, ThreadInside, Asking
<1>4. Asking' /\ Held'
  BY DEF IInv, TypeOK, Entered, Asking, Held
<1>5. AnswersForTarget' /\ GroupsBalanced'
  BY DEF IInv, TypeOK, Asking, Held, AnswersForTarget, GroupsBalanced, ThreadInside, Inside
<1> QED
  BY <1>1, <1>2, <1>3, <1>4, <1>5 DEF IInv

LEMMA ReleaseKeeps == IInv /\ Release => IInv'
<1> SUFFICES ASSUME IInv, Release PROVE IInv'
  OBVIOUS
<1> USE FrameZero DEF Release, scope, query, switches, asked, before, failedReverts
<1>1. TypeOK'
  <2>1. groups' \in Nat
    BY DEF IInv, TypeOK, Held
  <2> QED
    BY <2>1 DEF IInv, TypeOK
<1>2. Entered' /\ ThreadInside' /\ ThreadOutside'
  BY DEF IInv, TypeOK, Entered, Inside, Outside, ThreadInside, ThreadOutside, Asking
<1>3. FrameInside' /\ FrameOutside'
  BY DEF IInv, TypeOK, Entered, Inside, Outside, FrameInside, FrameOutside, Kept, ThreadInside, Asking
<1>4. Asking' /\ Held'
  BY DEF IInv, TypeOK, Entered, Asking, Held
<1>5. AnswersForTarget' /\ GroupsBalanced'
  BY DEF IInv, TypeOK, Asking, Held, AnswersForTarget, GroupsBalanced, ThreadInside, Inside
<1> QED
  BY <1>1, <1>2, <1>3, <1>4, <1>5 DEF IInv

LEMMA ReturnKeeps == IInv /\ Return => IInv'
<1> SUFFICES ASSUME IInv, Return PROVE IInv'
  OBVIOUS
<1> USE FrameZero DEF Return, scope, query, switches, asked, before, failedReverts
<1>1. TypeOK'
  BY DEF IInv, TypeOK
<1>2. Entered' /\ ThreadInside' /\ ThreadOutside'
  BY DEF IInv, TypeOK, Entered, Inside, Outside, ThreadInside, ThreadOutside, Asking
<1>3. FrameInside' /\ FrameOutside'
  BY DEF IInv, TypeOK, Entered, Inside, Outside, FrameInside, FrameOutside, Kept, ThreadInside, Asking
<1>4. Asking' /\ Held'
  BY DEF IInv, TypeOK, Entered, Asking, Held
<1>5. AnswersForTarget' /\ GroupsBalanced'
  BY DEF IInv, TypeOK, Asking, Held, AnswersForTarget, GroupsBalanced, ThreadInside, Inside
<1> QED
  BY <1>1, <1>2, <1>3, <1>4, <1>5 DEF IInv

LEMMA StepKeeps == IInv /\ [Next]_vars => IInv'
<1> SUFFICES ASSUME IInv, [Next]_vars PROVE IInv'
  OBVIOUS
<1>1. CASE Select
  BY <1>1, SelectKeeps
<1>2. CASE Query
  BY <1>2, QueryKeeps
<1>3. CASE Switching
  BY <1>3, SwitchThreadKeeps, SwitchFrameKeeps, RevertFrameKeeps, RevertThreadKeeps
     DEF Switching
<1>4. CASE Answering
  BY <1>4, AnswerKeeps, GetNumberSymbolsKeeps, EnumerateKeeps, EnumerateEndsKeeps, ReleaseKeeps
     DEF Answering
<1>5. CASE Return
  BY <1>5, ReturnKeeps
<1>6. CASE UNCHANGED vars
  BY <1>6
     DEF vars, IInv, TypeOK, Entered, Inside, Outside, ThreadInside, ThreadOutside,
         FrameInside, FrameOutside, Kept, Asking, Held, AnswersForTarget, GroupsBalanced
<1> QED
  BY <1>1, <1>2, <1>3, <1>4, <1>5, <1>6 DEF Next, Proceed

LEMMA Inductive == Spec => []IInv
<1> QED
  BY Initially, StepKeeps, PTL DEF Spec

-----------------------------------------------------------------------------

\* Every query stays within its types, whichever engine calls fail: in particular
\* the number of symbol groups alive never goes below zero (support/util.cpp).
THEOREM TypeCorrect == Spec => []TypeOK
<1>1. IInv => TypeOK
  BY DEF IInv
<1> QED
  BY <1>1, Inductive, PTL

\* When a query returns the engine is on the thread the user had selected, unless it
\* was the switch back that failed, which leaves it on the thread asked about; and on
\* the number of the frame unless the engine lost it in changing threads or the script
\* was warned (CAutoSwitchThread and CAutoSwitchStackFrame, support/util.cpp).
THEOREM ScopeRestored == Spec => [](ThreadRestored /\ FrameRestored)
<1>1. IInv => ThreadRestored
  <2>1. ThreadOutside => ThreadRestored
    BY DEF ThreadOutside, ThreadRestored, Outside
  <2> QED
    BY <2>1 DEF IInv
<1>2. IInv => FrameRestored
  <2>1. IInv => ThreadOutside /\ FrameOutside
    BY DEF IInv
  <2>2. ThreadOutside /\ FrameOutside => FrameRestored
    BY DEF ThreadOutside, FrameOutside, FrameRestored, Outside, Kept
  <2> QED
    BY <2>1, <2>2
<1> QED
  BY <1>1, <1>2, Inductive, PTL

\* What a query answers is about the thread and the frame it was asked about
\* (support/dsstackframe.cpp, support/dsthread.cpp).
THEOREM AnswersMatch == Spec => []AnswersForTarget
<1>1. IInv => AnswersForTarget
  BY DEF IInv
<1> QED
  BY <1>1, Inductive, PTL

\* A query that succeeds holds no symbol group any more, and none releases a group
\* that was not its own (UtilEnumStackFrameVariables, support/util.cpp).
THEOREM GroupsReleased == Spec => []GroupsBalanced
<1>1. IInv => GroupsBalanced
  BY DEF IInv
<1> QED
  BY <1>1, Inductive, PTL
=============================================================================
