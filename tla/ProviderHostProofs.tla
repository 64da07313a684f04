------------------------- MODULE ProviderHostProofs -------------------------
(***************************************************************************)
(* Theorems about ProviderHost, for every set of providers, every way of   *)
(* failing to load one, and every depth of nesting.                        *)
(***************************************************************************)
EXTENDS ProviderHost, SequenceFacts

-----------------------------------------------------------------------------
(* Types and the asserts of unloadScriptProvider: no restriction on the    *)
(* constants                                                               *)

\* A load keeps the types and gives an instance the handle and the reference
\* its unloading will need.
LEMMA LoadKeepsAsserts ==
  ASSUME TypeOK, UnloadAsserts, NEW p \in Provider, NEW outcome,
         ScriptProvider[p] = 0, loadAndCreateScriptProvider(p, outcome)
  PROVE  /\ Module' \in [Provider -> BOOLEAN]
         /\ refs' \in [Provider -> Nat]
         /\ ScriptProvider' \in [Provider -> Nat]
         /\ created' \in Nat /\ created' >= created
         /\ started' \subseteq Nat
         /\ UnloadAsserts'
<1> DEFINE inProcess == outcome \notin {"path", "library"}
           exists == outcome \in {"init", "ok"}
<1>1. exists => inProcess
  OBVIOUS
<1>2. /\ Module' = [Module EXCEPT ![p] = IF outcome = "path" THEN @ ELSE inProcess]
      /\ refs' = [refs EXCEPT ![p] = IF inProcess THEN @ + 1 ELSE @]
      /\ created' = IF exists THEN created + 1 ELSE created
      /\ ScriptProvider' = [ScriptProvider EXCEPT ![p] = IF exists THEN created' ELSE 0]
      /\ started' = IF outcome = "ok" THEN started \union {created'} ELSE started
  BY DEF loadAndCreateScriptProvider
<1>3. exists => outcome # "path"
  OBVIOUS
<1> HIDE DEF inProcess, exists
<1>4. Module' \in [Provider -> BOOLEAN] /\ (inProcess \in BOOLEAN)
  BY <1>2 DEF TypeOK, inProcess
<1>5. /\ refs' \in [Provider -> Nat]
      /\ ScriptProvider' \in [Provider -> Nat]
      /\ created' \in Nat /\ created' >= created
      /\ started' \subseteq Nat
  BY <1>2 DEF TypeOK
<1>6. ASSUME NEW q \in Provider, ScriptProvider'[q] # 0
      PROVE  Module'[q] /\ refs'[q] > 0
  <2>1. CASE q = p
    <3>1. exists /\ inProcess /\ outcome # "path"
      BY <1>1, <1>2, <1>3, <1>6, <2>1 DEF TypeOK
    <3>2. refs'[q] > 0
      BY <1>2, <2>1, <3>1 DEF TypeOK
    <3>3. Module'[q] = inProcess
      BY <1>2, <2>1, <3>1 DEF TypeOK
    <3> QED BY <3>1, <3>2, <3>3
  <2>2. CASE q # p
    <3>1. Module'[q] = Module[q] /\ refs'[q] = refs[q] /\ ScriptProvider'[q] = ScriptProvider[q]
      BY <1>2, <2>2 DEF TypeOK
    <3> QED BY <1>6, <3>1 DEF UnloadAsserts
  <2> QED BY <2>1, <2>2
<1> QED BY <1>4, <1>5, <1>6 DEF UnloadAsserts

\* So does unloading, of any set of providers.
LEMMA UnloadKeepsAsserts ==
  ASSUME TypeOK, UnloadAsserts, NEW S, Unload(S)
  PROVE  /\ Module' \in [Provider -> BOOLEAN]
         /\ refs' \in [Provider -> Nat]
         /\ ScriptProvider' \in [Provider -> Nat]
         /\ created' \in Nat /\ started' \subseteq Nat
         /\ UnloadAsserts'
<1>1. \A p \in Provider :
        /\ Module'[p] = (Module[p] /\ p \notin {q \in S : ScriptProvider[q] # 0})
        /\ ScriptProvider'[p] =
             IF p \in {q \in S : ScriptProvider[q] # 0} THEN 0 ELSE ScriptProvider[p]
        /\ refs'[p] = IF p \in {q \in S : ScriptProvider[q] # 0} THEN refs[p] - 1 ELSE refs[p]
  BY DEF Unload
<1>2. Module' \in [Provider -> BOOLEAN]
  BY DEF Unload, TypeOK
<1>3. refs' \in [Provider -> Nat] /\ ScriptProvider' \in [Provider -> Nat]
  BY DEF Unload, TypeOK, UnloadAsserts
<1>4. UnloadAsserts'
  BY <1>1 DEF UnloadAsserts
<1> QED BY <1>2, <1>3, <1>4 DEF Unload, TypeOK

\* Starting a script appends its frame.
LEMMA PushScript ==
  ASSUME TypeOK, NEW cmd \in {"runscript", "evalstring"}, NEW p \in Provider,
         NEW n \in Nat, Push(cmd, p, n)
  PROVE  /\ stack' \in Seq(Frame)
         /\ Len(stack) \in Nat
         /\ Len(stack') = Len(stack) + 1
         /\ \A i \in 1 .. Len(stack) : stack'[i] = stack[i]
         /\ stack'[Len(stack')].prov = p
         /\ stack'[Len(stack')].instance = n
         /\ stack'[Len(stack')].startVMEnabled = StartVMEnabled
<1> DEFINE f == [cmd |-> cmd, prov |-> p, startVMEnabled |-> StartVMEnabled, instance |-> n]
<1>1. f \in Frame
  BY DEF TypeOK, Frame
<1>2. stack' = Append(stack, f)
  BY DEF Push
<1> HIDE DEF f
<1>3. /\ stack' \in Seq(Frame)
      /\ Len(stack) \in Nat
      /\ Len(stack') = Len(stack) + 1
      /\ \A i \in 1 .. Len(stack) : stack'[i] = stack[i]
      /\ stack'[Len(stack')] = f
  BY <1>1, <1>2, PushFacts DEF TypeOK
<1> QED BY <1>3 DEF f

\* Ending one removes it.
LEMMA PopScript ==
  ASSUME TypeOK, NEW cmd, Exit(cmd)
  PROVE  /\ stack' \in Seq(Frame)
         /\ Len(stack) \in Nat \ {0}
         /\ Len(stack') = Len(stack) - 1
         /\ \A i \in 1 .. Len(stack) - 1 : stack'[i] = stack[i]
         /\ Top \in Frame
<1>1. /\ stack' \in Seq(Frame)
      /\ Len(stack) \in Nat \ {0}
      /\ Len(stack') = Len(stack) - 1
      /\ \A i \in 1 .. Len(stack) - 1 : stack'[i] = stack[i]
  BY FrontFacts DEF Exit, TypeOK
<1>2. Len(stack) \in 1 .. Len(stack)
  BY <1>1
<1> QED BY <1>1, <1>2, ElementOfSeq DEF Top, TypeOK

LEMMA StepAsserts ==
  ASSUME TypeOK, UnloadAsserts, [Next]_vars
  PROVE  TypeOK' /\ UnloadAsserts'
<1>1. ASSUME NEW p \in Provider, NEW cmd \in {"runscript", "evalstring"}, EnterLoaded(cmd, p)
      PROVE  TypeOK' /\ UnloadAsserts'
  <2>1. stack' \in Seq(Frame)
    BY <1>1, PushScript DEF EnterLoaded, TypeOK
  <2> QED BY <1>1, <2>1 DEF EnterLoaded, TypeOK, UnloadAsserts
<1>2. ASSUME NEW p \in Provider, NEW cmd \in {"runscript", "evalstring"}, EnterLoading(cmd, p)
      PROVE  TypeOK' /\ UnloadAsserts'
  <2>1. /\ Module' \in [Provider -> BOOLEAN] /\ refs' \in [Provider -> Nat]
        /\ ScriptProvider' \in [Provider -> Nat] /\ created' \in Nat
        /\ started' \subseteq Nat /\ UnloadAsserts'
    BY <1>2, LoadKeepsAsserts DEF EnterLoading
  <2>2. stack' \in Seq(Frame)
    BY <1>2, <2>1, PushScript DEF EnterLoading
  <2> QED BY <1>2, <2>1, <2>2 DEF EnterLoading, TypeOK
<1>3. ASSUME NEW p \in Provider, NEW cmd, LoadFails(cmd, p)
      PROVE  TypeOK' /\ UnloadAsserts'
  <2>1. PICK outcome : loadAndCreateScriptProvider(p, outcome)
    BY <1>3 DEF LoadFails
  <2>2. /\ Module' \in [Provider -> BOOLEAN] /\ refs' \in [Provider -> Nat]
        /\ ScriptProvider' \in [Provider -> Nat] /\ created' \in Nat
        /\ started' \subseteq Nat /\ UnloadAsserts'
    BY <1>3, <2>1, LoadKeepsAsserts DEF LoadFails
  <2> QED BY <1>3, <2>2 DEF LoadFails, TypeOK
<1>4. ASSUME NEW cmd, Exit(cmd) PROVE TypeOK' /\ UnloadAsserts'
  <2>1. stack' \in Seq(Frame)
    BY <1>4, PopScript
  <2>2. CASE Top.startVMEnabled
    BY <1>4, <2>1, <2>2 DEF Exit, TypeOK, UnloadAsserts
  <2>3. CASE ~Top.startVMEnabled
    BY <1>4, <2>1, <2>3, UnloadKeepsAsserts DEF Exit, unloadScriptProvider, TypeOK
  <2> QED BY <2>2, <2>3
<1>5. CASE startvm
  BY <1>5 DEF startvm, TypeOK, UnloadAsserts
<1>6. CASE stopvm
  BY <1>6, UnloadKeepsAsserts DEF stopvm, unloadAllScriptProviders, TypeOK
<1>7. CASE DebugExtensionInitialize
  BY <1>7 DEF DebugExtensionInitialize, TypeOK, UnloadAsserts
<1>8. CASE DebugExtensionUninitialize
  <2>1. refs' \in [Provider -> Nat]
    BY <1>8 DEF DebugExtensionUninitialize, TypeOK, UnloadAsserts
  <2> QED BY <1>8, <2>1 DEF DebugExtensionUninitialize, TypeOK, UnloadAsserts
<1>9. CASE UNCHANGED vars
  BY <1>9 DEF vars, TypeOK, UnloadAsserts
<1>10. ASSUME NEW p \in Provider, runscript(p) \/ evalstring(p)
       PROVE  TypeOK' /\ UnloadAsserts'
  BY <1>1, <1>2, <1>3, <1>10 DEF runscript, evalstring
<1>11. CASE runscript_exit \/ evalstring_exit
  BY <1>4, <1>11 DEF runscript_exit, evalstring_exit
<1> QED BY <1>5, <1>6, <1>7, <1>8, <1>9, <1>10, <1>11 DEF Next

LEMMA InitAsserts == Init => TypeOK /\ UnloadAsserts
<1> SUFFICES ASSUME Init PROVE TypeOK /\ UnloadAsserts
  OBVIOUS
<1>1. stack \in Seq(Frame)
  BY EmptySeq DEF Init
<1>2. Module \in [Provider -> BOOLEAN] /\ up \in BOOLEAN /\ StartVMEnabled \in BOOLEAN
  BY DEF Init
<1>3. /\ refs \in [Provider -> Nat] /\ ScriptProvider \in [Provider -> Nat]
      /\ created \in Nat /\ started \subseteq Nat /\ UnloadAsserts
  BY DEF Init, UnloadAsserts
<1> QED BY <1>1, <1>2, <1>3 DEF TypeOK

\* The frames of scripts in progress name registered providers.
LEMMA FramesTyped ==
  ASSUME TypeOK
  PROVE  \A i \in 1 .. Len(stack) :
           stack[i] \in Frame /\ stack[i].prov \in Provider /\ stack[i].instance \in Nat
<1>1. \A i \in 1 .. Len(stack) : stack[i] \in Frame
  BY ElementOfSeq DEF TypeOK
<1> QED BY <1>1 DEF Frame

\* The state always has its types: no reference count falls below zero.
THEOREM TypeCorrect == Spec => []TypeOK
<1>1. TypeOK /\ UnloadAsserts /\ [Next]_vars => TypeOK' /\ UnloadAsserts'
  BY StepAsserts
<1> QED BY <1>1, InitAsserts, PTL DEF Spec

\* Whatever fails to load, and whatever scripts execute, even when they pull
\* their own provider from under themselves, unloading finds the module handle
\* and the reference it asserts.
THEOREM UnloadIsSafe == Spec => []UnloadAsserts
<1>1. TypeOK /\ UnloadAsserts /\ [Next]_vars => TypeOK' /\ UnloadAsserts'
  BY StepAsserts
<1> QED BY <1>1, InitAsserts, PTL DEF Spec

-----------------------------------------------------------------------------
(* When providers that load also initialise, and no script starts a VM     *)
(* session.  Scripts may run their own provider again, inside a session or *)
(* outside one, and end a session with !stopvm.                            *)

Disciplined ==
  /\ "init" \notin LoadFailure
  /\ Nested \subseteq {"runscript", "evalstring", "stopvm"}

\* Instances are numbered from one; those that exist, and those scripts were
\* started on, were initialised.
Numbered ==
  /\ 0 \notin started
  /\ \A p \in Provider :
       ScriptProvider[p] # 0 => ScriptProvider[p] <= created /\ ScriptProvider[p] \in started
  /\ \A i \in 1 .. Len(stack) :
       stack[i].instance <= created /\ stack[i].instance \in started

\* In a session, every script in progress began in it and has its instance.
InSession ==
  StartVMEnabled =>
    \A i \in 1 .. Len(stack) : stack[i].startVMEnabled /\ Loaded(stack[i])

\* Below a script that began in a session, all did.
SessionsNest ==
  \A i, j \in 1 .. Len(stack) :
    i < j /\ stack[j].startVMEnabled => stack[i].startVMEnabled

\* Outside a session an instance is there only for a script that will unload it.
Owned ==
  ~StartVMEnabled =>
    \A p \in Provider : ScriptProvider[p] # 0 =>
      \E i \in 1 .. Len(stack) :
        /\ stack[i].prov = p
        /\ stack[i].instance = ScriptProvider[p]
        /\ ~stack[i].startVMEnabled

\* While a script has its instance, the scripts of its provider that began after
\* it run on the same one.
Latest ==
  \A i, j \in 1 .. Len(stack) :
    i < j /\ stack[i].prov = stack[j].prov /\ Loaded(stack[i])
      => stack[j].instance = stack[i].instance

HostInv ==
  /\ TypeOK
  /\ UnloadAsserts
  /\ Numbered
  /\ InSession
  /\ SessionsNest
  /\ Owned
  /\ Latest

\* A successful load touches no other provider, and the new instance is the
\* latest and initialised.
LEMMA LoadedFresh ==
  ASSUME TypeOK, NEW p \in Provider, loadAndCreateScriptProvider(p, "ok")
  PROVE  /\ created' = created + 1
         /\ ScriptProvider' = [ScriptProvider EXCEPT ![p] = created']
         /\ started' = started \union {created'}
         /\ \A q \in Provider : q # p => refs'[q] = refs[q]
         /\ refs'[p] = refs[p] + 1
BY DEF loadAndCreateScriptProvider, TypeOK

\* A load that fails before Init leaves no instance behind.
LEMMA NothingLoaded ==
  ASSUME TypeOK, Disciplined, NEW p \in Provider, ScriptProvider[p] = 0,
         NEW outcome \in LoadOutcome(p) \ {"ok"}, loadAndCreateScriptProvider(p, outcome)
  PROVE  ScriptProvider' = ScriptProvider /\ created' = created /\ started' = started
<1>1. outcome # "init" /\ outcome # "ok"
  BY DEF LoadOutcome, Disciplined
<1>2. /\ ScriptProvider' = [ScriptProvider EXCEPT ![p] = 0]
      /\ created' = created /\ started' = started
  BY <1>1 DEF loadAndCreateScriptProvider
<1> QED BY <1>2 DEF TypeOK

\* What entering a script does: its frame goes on top, and its provider has the
\* instance it had, or a new one.
LEMMA EnterFacts ==
  ASSUME HostInv,
         NEW cmd \in {"runscript", "evalstring"}, NEW p \in Provider,
         EnterLoaded(cmd, p) \/ EnterLoading(cmd, p)
  PROVE  /\ Len(stack) \in Nat
         /\ Len(stack') = Len(stack) + 1
         /\ \A i \in 1 .. Len(stack) : stack'[i] = stack[i]
         /\ stack'[Len(stack')].prov = p
         /\ stack'[Len(stack')].instance = ScriptProvider'[p]
         /\ stack'[Len(stack')].startVMEnabled = StartVMEnabled
         /\ StartVMEnabled' = StartVMEnabled
         /\ ScriptProvider'[p] # 0
         /\ ScriptProvider'[p] \in started'
         /\ ScriptProvider'[p] <= created'
         /\ 0 \notin started' /\ started \subseteq started' /\ created <= created'
         /\ \A q \in Provider :
              ScriptProvider[q] # 0 \/ q # p => ScriptProvider'[q] = ScriptProvider[q]
         /\ ScriptProvider[p] = 0 => ScriptProvider'[p] > created
<1>1. /\ Len(stack) \in Nat
      /\ Len(stack') = Len(stack) + 1
      /\ \A i \in 1 .. Len(stack) : stack'[i] = stack[i]
      /\ stack'[Len(stack')].prov = p
      /\ stack'[Len(stack')].instance = ScriptProvider'[p]
      /\ stack'[Len(stack')].startVMEnabled = StartVMEnabled
  <2>1. CASE EnterLoaded(cmd, p)
    BY <2>1, PushScript DEF EnterLoaded, HostInv, TypeOK
  <2>2. CASE EnterLoading(cmd, p)
    <3>1. created' \in Nat /\ ScriptProvider'[p] = created'
      BY <2>2, LoadedFresh DEF EnterLoading, HostInv, TypeOK
    <3> QED BY <2>2, <3>1, PushScript DEF EnterLoading, HostInv
  <2> QED BY <2>1, <2>2
<1>2. /\ StartVMEnabled' = StartVMEnabled
      /\ ScriptProvider'[p] # 0
      /\ ScriptProvider'[p] \in started'
      /\ ScriptProvider'[p] <= created'
      /\ 0 \notin started' /\ started \subseteq started' /\ created <= created'
      /\ \A q \in Provider :
           ScriptProvider[q] # 0 \/ q # p => ScriptProvider'[q] = ScriptProvider[q]
      /\ ScriptProvider[p] = 0 => ScriptProvider'[p] > created
  <2>1. CASE EnterLoaded(cmd, p)
    BY <2>1 DEF EnterLoaded, HostInv, TypeOK, Numbered
  <2>2. CASE EnterLoading(cmd, p)
    BY <2>2, LoadedFresh DEF EnterLoading, HostInv, TypeOK, Numbered
  <2> QED BY <2>1, <2>2
<1> QED BY <1>1, <1>2

\* Entering a script takes no instance from those in progress, nor gives one back.
LEMMA EnterKeepsLoaded ==
  ASSUME HostInv,
         NEW cmd \in {"runscript", "evalstring"}, NEW p \in Provider,
         EnterLoaded(cmd, p) \/ EnterLoading(cmd, p),
         NEW i \in 1 .. Len(stack)
  PROVE  ScriptProvider'[stack[i].prov] = stack[i].instance <=> Loaded(stack[i])
<1>1. stack[i].prov \in Provider /\ stack[i].instance \in Nat
  BY FramesTyped DEF HostInv
<1>2. stack[i].instance # 0 /\ stack[i].instance <= created
  BY DEF HostInv, Numbered
<1>3. /\ \A q \in Provider :
           ScriptProvider[q] # 0 \/ q # p => ScriptProvider'[q] = ScriptProvider[q]
      /\ ScriptProvider[p] = 0 => ScriptProvider'[p] > created
  BY EnterFacts
<1>4. CASE ScriptProvider[stack[i].prov] # 0 \/ stack[i].prov # p
  BY <1>1, <1>3, <1>4 DEF Loaded
<1>5. CASE ScriptProvider[stack[i].prov] = 0 /\ stack[i].prov = p
  <2>1. ScriptProvider'[p] > created /\ ~Loaded(stack[i])
    BY <1>2, <1>3, <1>5 DEF Loaded
  <2>2. created \in Nat
    BY DEF HostInv, TypeOK
  <2>3. ~(stack[i].instance > created)
    BY <1>1, <1>2, <2>2
  <2> QED BY <1>5, <2>1, <2>3
<1> QED BY <1>4, <1>5

\* A script starts on an instance that was there, or on a new one.
LEMMA EnterKeepsInv ==
  ASSUME HostInv, TypeOK', UnloadAsserts',
         NEW cmd \in {"runscript", "evalstring"}, NEW p \in Provider,
         EnterLoaded(cmd, p) \/ EnterLoading(cmd, p)
  PROVE  HostInv'
<1>1. /\ Len(stack) \in Nat
      /\ Len(stack') = Len(stack) + 1
      /\ \A i \in 1 .. Len(stack) : stack'[i] = stack[i]
      /\ stack'[Len(stack')].prov = p
      /\ stack'[Len(stack')].instance = ScriptProvider'[p]
      /\ stack'[Len(stack')].startVMEnabled = StartVMEnabled
  BY EnterFacts
<1>2. /\ StartVMEnabled' = StartVMEnabled
      /\ ScriptProvider'[p] # 0
      /\ ScriptProvider'[p] \in started'
      /\ ScriptProvider'[p] <= created'
      /\ 0 \notin started' /\ started \subseteq started' /\ created <= created'
      /\ \A q \in Provider :
           ScriptProvider[q] # 0 \/ q # p => ScriptProvider'[q] = ScriptProvider[q]
  BY EnterFacts
<1>3. \A i \in 1 .. Len(stack) :
        ScriptProvider'[stack[i].prov] = stack[i].instance <=> Loaded(stack[i])
  BY EnterKeepsLoaded
<1>4. \A i \in 1 .. Len(stack) :
        stack[i].prov \in Provider /\ stack[i].instance \in Nat
  BY FramesTyped DEF HostInv
<1>5. \A i \in 1 .. Len(stack') : i \in 1 .. Len(stack) \/ i = Len(stack')
  BY <1>1
<1>6. created \in Nat /\ created' \in Nat
  BY DEF HostInv, TypeOK
<1>7. Numbered'
  <2>1. ASSUME NEW q \in Provider, ScriptProvider'[q] # 0
        PROVE  ScriptProvider'[q] <= created' /\ ScriptProvider'[q] \in started'
    <3>1. CASE q = p
      BY <1>2, <3>1
    <3>2. CASE q # p
      <4>1. ScriptProvider'[q] = ScriptProvider[q] /\ ScriptProvider[q] \in started
            /\ ScriptProvider[q] <= created /\ ScriptProvider[q] \in Nat
        BY <1>2, <2>1, <3>2 DEF HostInv, TypeOK, Numbered
      <4> QED BY <1>2, <1>6, <4>1
    <3> QED BY <3>1, <3>2
  <2>2. ASSUME NEW i \in 1 .. Len(stack')
        PROVE  stack'[i].instance <= created' /\ stack'[i].instance \in started'
    <3>1. CASE i \in 1 .. Len(stack)
      <4>1. stack'[i] = stack[i] /\ stack[i].instance <= created
            /\ stack[i].instance \in started /\ stack[i].instance \in Nat
        BY <1>1, <1>4, <3>1 DEF HostInv, Numbered
      <4> QED BY <1>2, <1>6, <4>1
    <3>2. CASE i = Len(stack')
      BY <1>1, <1>2, <3>2
    <3> QED BY <1>5, <3>1, <3>2
  <2> QED BY <1>2, <2>1, <2>2 DEF Numbered
<1>8. InSession'
  <2>1. ASSUME StartVMEnabled, NEW i \in 1 .. Len(stack')
        PROVE  stack'[i].startVMEnabled /\ ScriptProvider'[stack'[i].prov] = stack'[i].instance
    <3>1. CASE i \in 1 .. Len(stack)
      BY <1>1, <1>3, <2>1, <3>1 DEF HostInv, InSession
    <3>2. CASE i = Len(stack')
      BY <1>1, <2>1, <3>2
    <3> QED BY <1>5, <3>1, <3>2
  <2> QED BY <1>2, <2>1 DEF InSession, Loaded
<1>9. SessionsNest'
  <2>1. ASSUME NEW i \in 1 .. Len(stack'), NEW j \in 1 .. Len(stack'),
               i < j, stack'[j].startVMEnabled
        PROVE  stack'[i].startVMEnabled
    <3>1. i \in 1 .. Len(stack) /\ stack'[i] = stack[i]
      BY <1>1, <2>1
    <3>2. CASE j \in 1 .. Len(stack)
      BY <1>1, <2>1, <3>1, <3>2 DEF HostInv, SessionsNest
    <3>3. CASE j = Len(stack')
      BY <1>1, <2>1, <3>1, <3>3 DEF HostInv, InSession
    <3> QED BY <1>5, <3>2, <3>3
  <2> QED BY <2>1 DEF SessionsNest
<1>10. Owned'
  <2>1. ASSUME ~StartVMEnabled, NEW q \in Provider, ScriptProvider'[q] # 0
        PROVE  \E i \in 1 .. Len(stack') :
                 /\ stack'[i].prov = q
                 /\ stack'[i].instance = ScriptProvider'[q]
                 /\ ~stack'[i].startVMEnabled
    <3>1. CASE q = p
      <4>1. Len(stack') \in 1 .. Len(stack')
        BY <1>1
      <4> QED BY <1>1, <2>1, <3>1, <4>1
    <3>2. CASE q # p
      <4>1. ScriptProvider'[q] = ScriptProvider[q]
        BY <1>2, <3>2
      <4>2. PICK i \in 1 .. Len(stack) :
              /\ stack[i].prov = q
              /\ stack[i].instance = ScriptProvider[q]
              /\ ~stack[i].startVMEnabled
        BY <2>1, <4>1 DEF HostInv, Owned
      <4>3. i \in 1 .. Len(stack') /\ stack'[i] = stack[i]
        BY <1>1
      <4> QED BY <4>1, <4>2, <4>3
    <3> QED BY <3>1, <3>2
  <2> QED BY <1>2, <2>1 DEF Owned
<1>11. Latest'
  <2>1. ASSUME NEW i \in 1 .. Len(stack'), NEW j \in 1 .. Len(stack'),
               i < j, stack'[i].prov = stack'[j].prov,
               ScriptProvider'[stack'[i].prov] = stack'[i].instance
        PROVE  stack'[j].instance = stack'[i].instance
    <3>1. i \in 1 .. Len(stack) /\ stack'[i] = stack[i]
      BY <1>1, <2>1
    <3>2. CASE j \in 1 .. Len(stack)
      BY <1>1, <1>3, <2>1, <3>1, <3>2 DEF HostInv, Latest
    <3>3. CASE j = Len(stack')
      BY <1>1, <2>1, <3>1, <3>3
    <3> QED BY <1>5, <3>2, <3>3
  <2> QED BY <2>1 DEF Latest, Loaded
<1> QED BY <1>7, <1>8, <1>9, <1>10, <1>11 DEF HostInv

\* What the end of a script does.
LEMMA ExitFacts ==
  ASSUME HostInv, NEW cmd, Exit(cmd)
  PROVE  /\ Len(stack) \in Nat \ {0}
         /\ Len(stack') = Len(stack) - 1
         /\ \A i \in 1 .. Len(stack) - 1 : stack'[i] = stack[i]
         /\ Top = stack[Len(stack)] /\ Top.prov \in Provider
         /\ StartVMEnabled' = StartVMEnabled
         /\ started' = started /\ created' = created
         /\ Top.startVMEnabled => ScriptProvider' = ScriptProvider
         /\ ~Top.startVMEnabled =>
              /\ ~StartVMEnabled
              /\ ScriptProvider' = [ScriptProvider EXCEPT ![Top.prov] = 0]
<1>1. /\ Len(stack) \in Nat \ {0}
      /\ Len(stack') = Len(stack) - 1
      /\ \A i \in 1 .. Len(stack) - 1 : stack'[i] = stack[i]
      /\ Top = stack[Len(stack)] /\ Top.prov \in Provider
  BY PopScript DEF HostInv, Top, Frame
<1>2. CASE Top.startVMEnabled
  BY <1>1, <1>2 DEF Exit
<1>3. CASE ~Top.startVMEnabled
  <2>1. ~StartVMEnabled
    <3>1. Len(stack) \in 1 .. Len(stack)
      BY <1>1
    <3> QED BY <1>1, <1>3, <3>1 DEF HostInv, InSession
  <2>2. Unload({Top.prov})
    BY <1>3 DEF Exit, unloadScriptProvider
  <2>3. ScriptProvider' = [q \in Provider |-> IF q = Top.prov THEN 0 ELSE ScriptProvider[q]]
    BY <2>2 DEF Unload
  <2>4. ScriptProvider' = [ScriptProvider EXCEPT ![Top.prov] = 0]
    BY <2>3 DEF HostInv, TypeOK
  <2>5. StartVMEnabled' = StartVMEnabled /\ started' = started /\ created' = created
    BY <2>2 DEF Exit, Unload
  <2> QED BY <1>1, <1>3, <2>1, <2>4, <2>5
<1> QED BY <1>2, <1>3

\* When a script that began in a session ends outside one, nothing is loaded: all
\* below it began in that session, too.
LEMMA NothingOwned ==
  ASSUME HostInv, stack # <<>>, Top.startVMEnabled, ~StartVMEnabled, NEW p \in Provider
  PROVE  ScriptProvider[p] = 0
<1>1. Len(stack) \in Nat \ {0}
  BY FrontFacts DEF HostInv, TypeOK
<1>2. \A i \in 1 .. Len(stack) : stack[i].startVMEnabled
  <2>1. ASSUME NEW i \in 1 .. Len(stack) PROVE stack[i].startVMEnabled
    <3>1. CASE i = Len(stack)
      BY <3>1 DEF Top
    <3>2. CASE i # Len(stack)
      <4>1. i < Len(stack) /\ Len(stack) \in 1 .. Len(stack)
        BY <1>1, <3>2
      <4> QED BY <4>1 DEF HostInv, SessionsNest, Top
    <3> QED BY <3>1, <3>2
  <2> QED BY <2>1
<1> QED BY <1>2 DEF HostInv, Owned

\* A script that ends takes its provider with it if it began outside a session.
LEMMA ExitKeepsInv ==
  ASSUME HostInv, TypeOK', UnloadAsserts', NEW cmd, Exit(cmd)
  PROVE  HostInv'
<1>1. /\ Len(stack) \in Nat \ {0}
      /\ Len(stack') = Len(stack) - 1
      /\ \A i \in 1 .. Len(stack) - 1 : stack'[i] = stack[i]
      /\ Top = stack[Len(stack)] /\ Top.prov \in Provider
      /\ StartVMEnabled' = StartVMEnabled
      /\ started' = started /\ created' = created
  BY ExitFacts
<1>2. \A i \in 1 .. Len(stack') : i \in 1 .. Len(stack) /\ i # Len(stack) /\ stack'[i] = stack[i]
  BY <1>1
<1>3. \A i \in 1 .. Len(stack) :
        stack[i].prov \in Provider /\ stack[i].instance \in Nat /\ stack[i].instance # 0
  BY FramesTyped DEF HostInv, Numbered
<1>4. SessionsNest'
  BY <1>2 DEF HostInv, SessionsNest
<1>5. CASE Top.startVMEnabled
  <2>1. ScriptProvider' = ScriptProvider
    BY <1>5, ExitFacts
  <2>2. Numbered'
    BY <1>1, <1>2, <2>1 DEF HostInv, Numbered
  <2>3. InSession'
    BY <1>1, <1>2, <2>1 DEF HostInv, InSession, Loaded
  <2>5. Latest'
    <3>1. \A i, j \in 1 .. Len(stack') :
            /\ i \in 1 .. Len(stack) /\ stack'[i] = stack[i]
            /\ j \in 1 .. Len(stack) /\ stack'[j] = stack[j]
      BY <1>2
    <3>2. \A i, j \in 1 .. Len(stack) :
            i < j /\ stack[i].prov = stack[j].prov /\ ScriptProvider[stack[i].prov] = stack[i].instance
              => stack[j].instance = stack[i].instance
      BY DEF HostInv, Latest, Loaded
    <3> QED BY <2>1, <3>1, <3>2 DEF Latest, Loaded
  <2>4. Owned'
    BY <1>1, <1>5, <2>1, NothingOwned DEF Owned, Exit
  <2> QED BY <1>4, <2>2, <2>3, <2>4, <2>5 DEF HostInv
<1>6. CASE ~Top.startVMEnabled
  <2>1. /\ ~StartVMEnabled
        /\ ScriptProvider' = [ScriptProvider EXCEPT ![Top.prov] = 0]
    BY <1>6, ExitFacts
  <2>2. \A q \in Provider :
          /\ q # Top.prov => ScriptProvider'[q] = ScriptProvider[q]
          /\ q = Top.prov => ScriptProvider'[q] = 0
    BY <2>1 DEF HostInv, TypeOK
  <2>3. Numbered'
    BY <1>1, <1>2, <2>2 DEF HostInv, Numbered
  <2>4. InSession'
    BY <1>1, <2>1 DEF InSession
  <2>5. Owned'
    <3>1. ASSUME NEW q \in Provider, ScriptProvider'[q] # 0
          PROVE  \E i \in 1 .. Len(stack') :
                   /\ stack'[i].prov = q
                   /\ stack'[i].instance = ScriptProvider'[q]
                   /\ ~stack'[i].startVMEnabled
      <4>1. q # Top.prov /\ ScriptProvider'[q] = ScriptProvider[q]
        BY <2>2, <3>1
      <4>2. PICK i \in 1 .. Len(stack) :
              /\ stack[i].prov = q
              /\ stack[i].instance = ScriptProvider[q]
              /\ ~stack[i].startVMEnabled
        BY <2>1, <3>1, <4>1 DEF HostInv, Owned
      <4>3. i # Len(stack)
        BY <1>1, <4>1, <4>2
      <4>4. i \in 1 .. Len(stack') /\ stack'[i] = stack[i]
        BY <1>1, <4>3
      <4> QED BY <4>1, <4>2, <4>4
    <3> QED BY <3>1 DEF Owned
  <2>6. Latest'
    <3>1. ASSUME NEW i \in 1 .. Len(stack'), NEW j \in 1 .. Len(stack'),
                 i < j, stack'[i].prov = stack'[j].prov,
                 ScriptProvider'[stack'[i].prov] = stack'[i].instance
          PROVE  stack'[j].instance = stack'[i].instance
      <4>1. /\ i \in 1 .. Len(stack) /\ stack'[i] = stack[i]
            /\ j \in 1 .. Len(stack) /\ stack'[j] = stack[j]
        BY <1>2
      <4>2. Loaded(stack[i])
        BY <1>3, <2>2, <3>1, <4>1 DEF Loaded
      <4> QED BY <3>1, <4>1, <4>2 DEF HostInv, Latest
    <3> QED BY <3>1 DEF Latest, Loaded
  <2> QED BY <1>4, <2>3, <2>4, <2>5, <2>6 DEF HostInv
<1> QED BY <1>5, <1>6

LEMMA StepHostInv ==
  ASSUME HostInv, Disciplined, [Next]_vars
  PROVE  HostInv'
<1>1. TypeOK' /\ UnloadAsserts'
  BY StepAsserts DEF HostInv
<1>2. ASSUME UNCHANGED <<StartVMEnabled, ScriptProvider, created, started, stack>>
      PROVE  HostInv'
  BY <1>1, <1>2 DEF HostInv, Numbered, InSession, SessionsNest, Owned, Latest, Loaded
<1>3. ASSUME NEW p \in Provider, NEW cmd \in {"runscript", "evalstring"}, LoadFails(cmd, p)
      PROVE  HostInv'
  BY <1>2, <1>3, NothingLoaded DEF LoadFails, HostInv
<1>4. ASSUME NEW p \in Provider, runscript(p) \/ evalstring(p)
      PROVE  HostInv'
  BY <1>1, <1>3, <1>4, EnterKeepsInv DEF runscript, evalstring
<1>5. CASE runscript_exit \/ evalstring_exit
  BY <1>1, <1>5, ExitKeepsInv DEF runscript_exit, evalstring_exit
<1>6. CASE startvm
  <2>1. /\ stack = <<>> /\ stack' = stack /\ StartVMEnabled'
        /\ UNCHANGED <<ScriptProvider, created, started>>
    BY <1>6 DEF startvm, MayInvoke, Disciplined
  <2>2. 1 .. Len(stack) = {}
    BY <2>1, EmptySeq
  <2> QED BY <1>1, <2>1, <2>2
          DEF HostInv, Numbered, InSession, SessionsNest, Owned, Latest
<1>7. CASE stopvm \/ DebugExtensionUninitialize
  <2>1. /\ stack' = stack /\ ~StartVMEnabled'
        /\ \A p \in Provider : ScriptProvider'[p] = 0
        /\ started' = started /\ created' = created
    BY <1>7 DEF stopvm, DebugExtensionUninitialize, Unload, unloadAllScriptProviders
  <2>2. \A i \in 1 .. Len(stack) : stack[i].prov \in Provider /\ stack[i].instance # 0
    BY FramesTyped DEF HostInv, Numbered
  <2>3. Numbered' /\ InSession' /\ SessionsNest' /\ Owned'
    BY <2>1 DEF HostInv, Numbered, InSession, SessionsNest, Owned
  <2>4. Latest'
    BY <2>1, <2>2 DEF Latest, Loaded
  <2> QED BY <1>1, <2>3, <2>4 DEF HostInv
<1>8. CASE DebugExtensionInitialize \/ UNCHANGED vars
  BY <1>2, <1>8 DEF DebugExtensionInitialize, vars
<1> QED BY <1>4, <1>5, <1>6, <1>7, <1>8 DEF Next

LEMMA InitHostInv == Init => HostInv
<1> SUFFICES ASSUME Init PROVE HostInv
  OBVIOUS
<1>1. 1 .. Len(stack) = {} /\ 0 \notin started /\ \A p \in Provider : ScriptProvider[p] = 0
  BY EmptySeq DEF Init
<1> QED BY <1>1, InitAsserts DEF HostInv, Numbered, InSession, SessionsNest, Owned, Latest

LEMMA StepKeepsLoaded ==
  ASSUME HostInv, HostInv', Disciplined, [Next]_vars
  PROVE  /\ \A i \in 1 .. Len(stack) :
              (i <= Len(stack') /\ Loaded(stack[i])
                 /\ ScriptProvider'[stack[i].prov] # stack[i].instance) =>
                \/ StartVMEnabled /\ ~StartVMEnabled'
                \/ /\ stack' = SubSeq(stack, 1, Len(stack) - 1)
                   /\ Top.instance = stack[i].instance
                   /\ ~Top.startVMEnabled
         /\ \A i \in 1 .. Len(stack') :
              ScriptProvider'[stack'[i].prov] = stack'[i].instance =>
                stack'[i].instance \in started' /\ refs'[stack'[i].prov] > 0
<1>1. ASSUME NEW i \in 1 .. Len(stack'), ScriptProvider'[stack'[i].prov] = stack'[i].instance
      PROVE  stack'[i].instance \in started' /\ refs'[stack'[i].prov] > 0
  <2>1. stack'[i].prov \in Provider
    <3>1. stack'[i] \in Frame
      BY ElementOfSeq DEF HostInv, TypeOK
    <3> QED BY <3>1 DEF Frame
  <2>2. stack'[i].instance \in started' /\ stack'[i].instance # 0
    BY DEF HostInv, Numbered
  <2> QED BY <1>1, <2>1, <2>2 DEF HostInv, UnloadAsserts
<1>2. ASSUME NEW i \in 1 .. Len(stack), i <= Len(stack'), Loaded(stack[i]),
             ScriptProvider'[stack[i].prov] # stack[i].instance
      PROVE  \/ StartVMEnabled /\ ~StartVMEnabled'
             \/ /\ stack' = SubSeq(stack, 1, Len(stack) - 1)
                /\ Top.instance = stack[i].instance
                /\ ~Top.startVMEnabled
  <2>1. ScriptProvider' # ScriptProvider
    BY <1>2 DEF Loaded
  <2>2. ASSUME NEW p \in Provider, runscript(p) \/ evalstring(p) PROVE FALSE
    <3>1. ASSUME NEW cmd \in {"runscript", "evalstring"},
                 EnterLoaded(cmd, p) \/ EnterLoading(cmd, p)
          PROVE  FALSE
      BY <1>2, <3>1, EnterKeepsLoaded
    <3>2. ASSUME NEW cmd \in {"runscript", "evalstring"}, LoadFails(cmd, p)
          PROVE  FALSE
      BY <2>1, <3>2, NothingLoaded DEF LoadFails, HostInv
    <3> QED BY <2>2, <3>1, <3>2 DEF runscript, evalstring
  <2>3. ASSUME NEW cmd, Exit(cmd)
        PROVE  /\ stack' = SubSeq(stack, 1, Len(stack) - 1)
               /\ Top.instance = stack[i].instance
               /\ ~Top.startVMEnabled
    <3>1. /\ ~Top.startVMEnabled
          /\ Top = stack[Len(stack)]
          /\ Len(stack) \in Nat \ {0}
          /\ Len(stack') = Len(stack) - 1
          /\ ScriptProvider' = [ScriptProvider EXCEPT ![Top.prov] = 0]
      BY <2>1, <2>3, ExitFacts
    <3>2. stack[i].prov \in Provider
      BY FramesTyped DEF HostInv
    <3>3. stack[i].prov = Top.prov
      BY <1>2, <3>1, <3>2 DEF HostInv, TypeOK, Loaded
    <3>4. i < Len(stack) /\ Len(stack) \in 1 .. Len(stack)
      BY <1>2, <3>1
    <3>5. Top.instance = stack[i].instance
      BY <1>2, <3>1, <3>3, <3>4 DEF HostInv, Latest
    <3> QED BY <2>3, <3>1, <3>5 DEF Exit
  <2>4. CASE runscript_exit \/ evalstring_exit
    BY <2>3, <2>4 DEF runscript_exit, evalstring_exit
  <2>5. CASE startvm \/ DebugExtensionInitialize \/ UNCHANGED vars
    BY <2>1, <2>5 DEF startvm, DebugExtensionInitialize, vars
  <2>6. CASE stopvm
    BY <2>6 DEF stopvm
  <2>7. CASE DebugExtensionUninitialize
    <3>1. 1 .. Len(stack) = {}
      BY <2>7, EmptySeq DEF DebugExtensionUninitialize
    <3> QED BY <3>1
  <2> QED BY <2>2, <2>4, <2>5, <2>6, <2>7 DEF Next
<1> QED BY <1>1, <1>2

\* A script in progress loses its instance only to a !stopvm, or to another script
\* of its provider that began outside a session and ran on the same instance; until
\* then its machine is initialised and its DLL in the process, even when scripts
\* nested in it run its provider again and end a session it began in.
THEOREM ScriptsKeepTheirProvider ==
  ASSUME Disciplined
  PROVE  Spec => RunningStaysLoaded
<1>1. HostInv /\ [Next]_vars => HostInv'
  BY StepHostInv
<1>2. HostInv /\ HostInv' /\ [Next]_vars =>
        [ /\ \A i \in 1 .. Len(stack) :
               (i <= Len(stack') /\ Loaded(stack[i])
                  /\ ScriptProvider'[stack[i].prov] # stack[i].instance) =>
                 \/ StartVMEnabled /\ ~StartVMEnabled'
                 \/ /\ stack' = SubSeq(stack, 1, Len(stack) - 1)
                    /\ Top.instance = stack[i].instance
                    /\ ~Top.startVMEnabled
          /\ \A i \in 1 .. Len(stack') :
               ScriptProvider'[stack'[i].prov] = stack'[i].instance =>
                 stack'[i].instance \in started' /\ refs'[stack'[i].prov] > 0 ]_vars
  BY StepKeepsLoaded
<1> QED BY <1>1, <1>2, InitHostInv, PTL DEF Spec, RunningStaysLoaded

\* Outside a session no instance is left at the prompt, however the commands that
\* loaded one ended, and whichever of them ended a session.
THEOREM PromptIsClean ==
  ASSUME Disciplined
  PROVE  Spec => []RecycledOutsideSession
<1>1. HostInv /\ [Next]_vars => HostInv'
  BY StepHostInv
<1>2. HostInv => RecycledOutsideSession
  <2> SUFFICES ASSUME HostInv, stack = <<>>, ~StartVMEnabled, NEW p \in Provider
               PROVE  ScriptProvider[p] = 0
    BY DEF RecycledOutsideSession
  <2>1. 1 .. Len(stack) = {}
    BY EmptySeq
  <2> QED BY <2>1 DEF HostInv, Owned
<1> QED BY <1>1, <1>2, InitHostInv, PTL DEF Spec

-----------------------------------------------------------------------------
(* Refinement of VMSession                                                 *)

\* The scripts in progress, as VMSession sees them.
ScriptsOf(s) == [i \in 1 .. Len(s) |-> <<s[i].prov, s[i].instance>>]
Scripts == ScriptsOf(stack)

LEMMA ScriptsSeq ==
  ASSUME NEW s \in Seq(Frame)
  PROVE  /\ ScriptsOf(s) \in Seq(Provider \X Nat)
         /\ Len(ScriptsOf(s)) = Len(s)
         /\ \A i \in 1 .. Len(s) : ScriptsOf(s)[i] = <<s[i].prov, s[i].instance>>
         /\ s = <<>> <=> ScriptsOf(s) = <<>>
<1>1. Len(s) \in Nat
  BY LenProperties
<1>2. \A i \in 1 .. Len(s) : s[i] \in Frame
  BY ElementOfSeq
<1>3. ScriptsOf(s) \in [1 .. Len(s) -> Provider \X Nat]
  BY <1>2 DEF ScriptsOf, Frame
<1>4. ScriptsOf(s) \in Seq(Provider \X Nat)
  BY <1>1, <1>3, SeqDef
<1>5. Len(ScriptsOf(s)) \in Nat /\ DOMAIN ScriptsOf(s) = 1 .. Len(ScriptsOf(s))
  BY <1>4, LenProperties
<1>6. 1 .. Len(ScriptsOf(s)) = 1 .. Len(s)
  BY <1>3, <1>5
<1>7. Len(ScriptsOf(s)) = Len(s)
  BY <1>1, <1>5, <1>6
<1>8. s = <<>> <=> ScriptsOf(s) = <<>>
  <2>1. s = <<>> <=> Len(s) = 0
    BY EmptySeq
  <2>2. ScriptsOf(s) = <<>> <=> Len(ScriptsOf(s)) = 0
    BY <1>4, EmptySeq
  <2> QED BY <1>7, <2>1, <2>2
<1> QED BY <1>4, <1>7, <1>8 DEF ScriptsOf

\* A frame appended is a script begun.
LEMMA ScriptsOfLonger ==
  ASSUME NEW s \in Seq(Frame), NEW t \in Seq(Frame), NEW p \in Provider, NEW n \in Nat,
         Len(t) = Len(s) + 1, \A i \in 1 .. Len(s) : t[i] = s[i],
         t[Len(t)].prov = p, t[Len(t)].instance = n
  PROVE  ScriptsOf(t) = Append(ScriptsOf(s), <<p, n>>)
<1> DEFINE e == <<p, n>>
           S == Provider \X Nat
           u == ScriptsOf(s)
           v == ScriptsOf(t)
           w == Append(u, e)
<1>1. u \in Seq(S) /\ Len(u) = Len(s) /\ Len(s) \in Nat
      /\ v \in Seq(S) /\ Len(v) = Len(s) + 1
  BY ScriptsSeq, LenProperties
<1>2. \A i \in 1 .. Len(s) : u[i] = <<s[i].prov, s[i].instance>>
  BY ScriptsSeq
<1>3. \A i \in 1 .. Len(t) : v[i] = <<t[i].prov, t[i].instance>>
  BY DEF ScriptsOf
<1> HIDE DEF u, v
<1>4. ASSUME NEW i \in 1 .. Len(s) PROVE v[i] = u[i]
  <2>1. i \in 1 .. Len(t) /\ i \in 1 .. Len(s)
    BY <1>1
  <2>2. t[i] = s[i]
    OBVIOUS
  <2>3. v[i] = <<t[i].prov, t[i].instance>> /\ u[i] = <<s[i].prov, s[i].instance>>
    BY <1>2, <1>3, <2>1
  <2> QED BY <2>2, <2>3
<1>5. v[Len(s) + 1] = e /\ e \in S
  <2>1. Len(s) + 1 \in 1 .. Len(s) + 1
    BY <1>1
  <2> QED BY <1>3, <2>1
<1> HIDE DEF e, S
<1>6. /\ w \in Seq(S) /\ Len(w) = Len(u) + 1
      /\ \A i \in 1 .. Len(u) : w[i] = u[i]
      /\ w[Len(u) + 1] = e
  BY <1>1, <1>5, PushFacts
<1> HIDE DEF w
<1>7. Len(v) = Len(w) /\ \A i \in 1 .. Len(v) : v[i] = w[i]
  BY <1>1, <1>4, <1>5, <1>6
<1>8. v = w
  BY <1>1, <1>6, <1>7, SeqEqual
<1> QED BY <1>8 DEF e, u, v, w

LEMMA ScriptsPush ==
  ASSUME TypeOK, NEW cmd \in {"runscript", "evalstring"}, NEW p \in Provider,
         NEW n \in Nat, Push(cmd, p, n)
  PROVE  Scripts' = Append(Scripts, <<p, n>>)
BY PushScript, ScriptsOfLonger DEF Scripts, TypeOK

\* A frame removed is a script ended.
LEMMA ScriptsOfShorter ==
  ASSUME NEW s \in Seq(Frame), NEW t \in Seq(Frame), s # <<>>,
         Len(t) = Len(s) - 1, \A i \in 1 .. Len(s) - 1 : t[i] = s[i]
  PROVE  /\ ScriptsOf(s) # <<>>
         /\ ScriptsOf(t) = SubSeq(ScriptsOf(s), 1, Len(ScriptsOf(s)) - 1)
         /\ ScriptsOf(s)[Len(ScriptsOf(s))] = <<s[Len(s)].prov, s[Len(s)].instance>>
<1> DEFINE S == Provider \X Nat
           u == ScriptsOf(s)
           v == ScriptsOf(t)
           w == SubSeq(u, 1, Len(u) - 1)
<1>1. u \in Seq(S) /\ Len(u) = Len(s) /\ Len(s) \in Nat \ {0} /\ u # <<>>
      /\ v \in Seq(S) /\ Len(v) = Len(s) - 1
  BY ScriptsSeq, EmptySeq
<1>2. \A i \in 1 .. Len(s) : u[i] = <<s[i].prov, s[i].instance>>
  BY ScriptsSeq
<1>3. \A i \in 1 .. Len(t) : v[i] = <<t[i].prov, t[i].instance>>
  BY DEF ScriptsOf
<1> HIDE DEF S, u, v
<1>4. ASSUME NEW i \in 1 .. Len(s) - 1 PROVE v[i] = u[i]
  <2>1. i \in 1 .. Len(t) /\ i \in 1 .. Len(s)
    BY <1>1
  <2>2. t[i] = s[i]
    OBVIOUS
  <2>3. v[i] = <<t[i].prov, t[i].instance>> /\ u[i] = <<s[i].prov, s[i].instance>>
    BY <1>2, <1>3, <2>1
  <2> QED BY <2>2, <2>3
<1>5. u[Len(u)] = <<s[Len(s)].prov, s[Len(s)].instance>>
  BY <1>1, <1>2
<1>6. /\ w \in Seq(S) /\ Len(w) = Len(u) - 1
      /\ \A i \in 1 .. Len(u) - 1 : w[i] = u[i]
  BY <1>1, FrontFacts
<1> HIDE DEF w
<1>7. Len(v) = Len(w) /\ \A i \in 1 .. Len(v) : v[i] = w[i]
  BY <1>1, <1>4, <1>6
<1>8. v = w
  BY <1>1, <1>6, <1>7, SeqEqual
<1> QED BY <1>1, <1>5, <1>8 DEF u, v, w

LEMMA ScriptsPop ==
  ASSUME TypeOK, NEW cmd, Exit(cmd)
  PROVE  /\ Scripts # <<>>
         /\ Scripts' = SubSeq(Scripts, 1, Len(Scripts) - 1)
         /\ Scripts[Len(Scripts)] = <<Top.prov, Top.instance>>
<1>1. /\ stack # <<>> /\ stack' \in Seq(Frame)
      /\ Len(stack') = Len(stack) - 1
      /\ \A i \in 1 .. Len(stack) - 1 : stack'[i] = stack[i]
  BY PopScript DEF Exit
<1> QED BY <1>1, ScriptsOfShorter DEF Scripts, Top, TypeOK

\* Every step of the host is a step of the session, or changes nothing it sees.
LEMMA StepImplements ==
  ASSUME HostInv, HostInv', Disciplined, [Next]_vars
  PROVE  [Session!Next]_(Session!vars)
<1>1. TypeOK /\ TypeOK'
  BY DEF HostInv
<1>2. ASSUME UNCHANGED <<StartVMEnabled, ScriptProvider, created, stack>>
      PROVE  UNCHANGED Session!vars
  BY <1>2 DEF Session!vars
<1>3. ASSUME NEW p \in Provider, NEW cmd \in {"runscript", "evalstring"}, EnterLoaded(cmd, p)
      PROVE  Session!BeginKept(p)
  <2>1. ScriptProvider[p] # 0 /\ UNCHANGED <<StartVMEnabled, ScriptProvider, created>>
    BY <1>3 DEF EnterLoaded
  <2>2. Scripts' = Append(Scripts, <<p, ScriptProvider[p]>>)
    BY <1>1, <1>3, ScriptsPush DEF EnterLoaded, TypeOK
  <2>3. StartVMEnabled \/ \E i \in 1 .. Len(Scripts) : Scripts[i] = <<p, ScriptProvider[p]>>
    <3> SUFFICES ASSUME ~StartVMEnabled
                 PROVE  \E i \in 1 .. Len(Scripts) : Scripts[i] = <<p, ScriptProvider[p]>>
      OBVIOUS
    <3>1. PICK i \in 1 .. Len(stack) : stack[i].prov = p /\ stack[i].instance = ScriptProvider[p]
      BY <2>1 DEF HostInv, Owned
    <3>2. Len(Scripts) = Len(stack) /\ Scripts[i] = <<p, ScriptProvider[p]>>
      BY <1>1, <3>1, ScriptsSeq DEF Scripts, TypeOK
    <3> QED BY <3>2
  <2> QED BY <2>1, <2>2, <2>3 DEF Session!BeginKept, Scripts, ScriptsOf
<1>4. ASSUME NEW p \in Provider, NEW cmd \in {"runscript", "evalstring"}, EnterLoading(cmd, p)
      PROVE  Session!BeginFresh(p)
  <2>1. /\ ScriptProvider[p] = 0
        /\ created' = created + 1
        /\ ScriptProvider' = [ScriptProvider EXCEPT ![p] = created']
        /\ StartVMEnabled' = StartVMEnabled
    BY <1>1, <1>4, LoadedFresh DEF EnterLoading
  <2>2. Scripts' = Append(Scripts, <<p, created'>>)
    BY <1>1, <1>4, ScriptsPush DEF EnterLoading, TypeOK
  <2> QED BY <2>1, <2>2 DEF Session!BeginFresh, Scripts, ScriptsOf
<1>5. ASSUME NEW p \in Provider, NEW cmd \in {"runscript", "evalstring"}, LoadFails(cmd, p)
      PROVE  UNCHANGED Session!vars
  BY <1>1, <1>2, <1>5, NothingLoaded DEF LoadFails
<1>6. ASSUME NEW cmd, Exit(cmd) PROVE Session!End
  <2>1. /\ Scripts # <<>>
        /\ Scripts' = SubSeq(Scripts, 1, Len(Scripts) - 1)
        /\ Scripts[Len(Scripts)] = <<Top.prov, Top.instance>>
    BY <1>1, <1>6, ScriptsPop
  <2>2. /\ Len(stack) \in 1 .. Len(stack)
        /\ Top = stack[Len(stack)] /\ Top.prov \in Provider
        /\ StartVMEnabled' = StartVMEnabled /\ created' = created
    BY <1>6, ExitFacts
  <2>3. ScriptProvider' = IF StartVMEnabled THEN ScriptProvider
                          ELSE [ScriptProvider EXCEPT ![Top.prov] = 0]
    <3>1. CASE StartVMEnabled
      BY <1>6, <3>1, ExitFacts
    <3>2. CASE ~StartVMEnabled /\ ~Top.startVMEnabled
      BY <1>6, <3>2, ExitFacts
    <3>3. CASE ~StartVMEnabled /\ Top.startVMEnabled
      <4>1. ScriptProvider' = ScriptProvider
        BY <1>6, <3>3, ExitFacts
      <4>2. ScriptProvider[Top.prov] = 0
        BY <1>6, <2>2, <3>3, NothingOwned DEF Exit
      <4> QED BY <1>1, <3>3, <4>1, <4>2 DEF TypeOK
    <3> QED BY <3>1, <3>2, <3>3
  <2>4. ScriptProvider[Top.prov] \in (IF StartVMEnabled THEN {Top.instance} ELSE {0, Top.instance})
    <3>1. CASE StartVMEnabled
      BY <2>2, <3>1 DEF HostInv, InSession, Loaded
    <3>2. CASE ~StartVMEnabled
      <4> SUFFICES ASSUME ScriptProvider[Top.prov] # 0
                   PROVE  ScriptProvider[Top.prov] = Top.instance
        BY <3>2
      <4>1. PICK i \in 1 .. Len(stack) :
              stack[i].prov = Top.prov /\ stack[i].instance = ScriptProvider[Top.prov]
        BY <2>2, <3>2 DEF HostInv, Owned
      <4>2. CASE i = Len(stack)
        BY <2>2, <4>1, <4>2
      <4>3. CASE i # Len(stack)
        <5>1. i < Len(stack) /\ Loaded(stack[i])
          BY <2>2, <4>1, <4>3 DEF Loaded
        <5>2. stack[Len(stack)].instance = stack[i].instance
          BY <2>2, <4>1, <5>1 DEF HostInv, Latest
        <5> QED BY <2>2, <4>1, <5>2
      <4> QED BY <4>2, <4>3
    <3> QED BY <3>1, <3>2
  <2>6. LET script == Scripts[Len(Scripts)] IN
          /\ ScriptProvider[script[1]] \in (IF StartVMEnabled THEN {script[2]} ELSE {0, script[2]})
          /\ ScriptProvider' = IF StartVMEnabled THEN ScriptProvider
                               ELSE [ScriptProvider EXCEPT ![script[1]] = 0]
    BY <2>1, <2>3, <2>4
  <2> QED BY <2>1, <2>2, <2>6 DEF Session!End, Scripts, ScriptsOf
<1>7. CASE startvm
  <2>1. stack = <<>> /\ stack' = stack /\ ~StartVMEnabled /\ StartVMEnabled'
        /\ UNCHANGED <<ScriptProvider, created>>
    BY <1>7 DEF startvm, MayInvoke, Disciplined
  <2>2. Scripts = <<>>
    BY <1>1, <2>1, ScriptsSeq DEF Scripts, TypeOK
  <2>3. Session!StartSession
    BY <1>1, <2>1, <2>2 DEF Session!StartSession, Scripts, ScriptsOf, TypeOK
  <2> QED BY <2>3 DEF Session!Next
<1>8. CASE stopvm \/ DebugExtensionUninitialize
  <2>1. /\ StartVMEnabled \/ stack = <<>>
        /\ stack' = stack /\ StartVMEnabled' = FALSE /\ created' = created
        /\ ScriptProvider' = [p \in Provider |-> 0]
    <3>1. CASE stopvm
      <4>1. ScriptProvider' = [p \in Provider |->
              IF p \in {q \in Provider : ScriptProvider[q] # 0} THEN 0 ELSE ScriptProvider[p]]
        BY <3>1 DEF stopvm, Unload, unloadAllScriptProviders
      <4> QED BY <3>1, <4>1 DEF stopvm, Unload, unloadAllScriptProviders
    <3>2. CASE DebugExtensionUninitialize
      BY <3>2 DEF DebugExtensionUninitialize
    <3> QED BY <1>8, <3>1, <3>2
  <2>2. StartVMEnabled \/ Scripts = <<>>
    BY <1>1, <2>1, ScriptsSeq DEF Scripts, TypeOK
  <2>3. Session!StopSession
    BY <2>1, <2>2 DEF Session!StopSession, Scripts, ScriptsOf
  <2> QED BY <2>3 DEF Session!Next
<1>9. CASE DebugExtensionInitialize \/ UNCHANGED vars
  BY <1>2, <1>9 DEF DebugExtensionInitialize, vars
<1>10. ASSUME NEW p \in Provider, runscript(p) \/ evalstring(p)
       PROVE  [Session!Next]_(Session!vars)
  BY <1>3, <1>4, <1>5, <1>10 DEF runscript, evalstring, Session!Next
<1>11. CASE runscript_exit \/ evalstring_exit
  BY <1>6, <1>11 DEF runscript_exit, evalstring_exit, Session!Next
<1> QED BY <1>7, <1>8, <1>9, <1>10, <1>11 DEF Next

LEMMA InitImplements == Init => Session!Init
<1> SUFFICES ASSUME Init PROVE Session!Init
  OBVIOUS
<1>1. Scripts = <<>>
  BY InitAsserts, ScriptsSeq DEF Init, Scripts, TypeOK
<1> QED BY <1>1 DEF Init, Session!Init, Scripts, ScriptsOf

\* The life of the providers implements the documented one: outside a session a new
\* machine, thrown away when the script ends, inside one a machine per provider,
\* kept until the session is stopped.
THEOREM SessionImplemented ==
  ASSUME Disciplined
  PROVE  Spec => ImplementsSession
<1>1. HostInv /\ [Next]_vars => HostInv'
  BY StepHostInv
<1>2. HostInv /\ HostInv' /\ [Next]_vars => [Session!Next]_(Session!vars)
  BY StepImplements
<1> QED BY <1>1, <1>2, InitHostInv, InitImplements, PTL DEF Spec, ImplementsSession, Session!Spec

-----------------------------------------------------------------------------
(* What a step may never do                                                *)

LEMMA StepKeepsSession ==
  ASSUME HostInv, Disciplined, [Next]_vars, StartVMEnabled, StartVMEnabled',
         NEW p \in Provider, ScriptProvider[p] # 0
  PROVE  ScriptProvider'[p] = ScriptProvider[p]
<1>1. ASSUME NEW q \in Provider, NEW cmd \in {"runscript", "evalstring"},
             EnterLoading(cmd, q)
      PROVE  ScriptProvider'[p] = ScriptProvider[p]
  BY <1>1, LoadedFresh DEF EnterLoading, HostInv, TypeOK
<1>2. ASSUME NEW q \in Provider, NEW cmd \in {"runscript", "evalstring"}, LoadFails(cmd, q)
      PROVE  ScriptProvider' = ScriptProvider
  BY <1>2, NothingLoaded DEF LoadFails, HostInv
<1>3. ASSUME NEW cmd, Exit(cmd) PROVE ScriptProvider' = ScriptProvider
  BY <1>3, ExitFacts
<1>4. ASSUME NEW q \in Provider, runscript(q) \/ evalstring(q)
      PROVE  ScriptProvider'[p] = ScriptProvider[p]
  BY <1>1, <1>2, <1>4 DEF runscript, evalstring, EnterLoaded
<1>5. CASE runscript_exit \/ evalstring_exit
  BY <1>3, <1>5 DEF runscript_exit, evalstring_exit
<1>6. CASE startvm \/ DebugExtensionInitialize \/ UNCHANGED vars
  BY <1>6 DEF startvm, DebugExtensionInitialize, vars
<1>7. ~stopvm /\ ~DebugExtensionUninitialize
  BY DEF stopvm, DebugExtensionUninitialize
<1> QED BY <1>4, <1>5, <1>6, <1>7 DEF Next

LEMMA StepStartsFresh ==
  ASSUME HostInv, [Next]_vars, ~StartVMEnabled, Len(stack') > Len(stack)
  PROVE  LET instance == stack'[Len(stack')].instance IN
         \/ instance > created
         \/ \E i \in 1 .. Len(stack) : stack[i].instance = instance
<1> DEFINE New == stack'[Len(stack')].instance
<1>1. ASSUME NEW p \in Provider, NEW cmd \in {"runscript", "evalstring"}, EnterLoaded(cmd, p)
      PROVE  \E i \in 1 .. Len(stack) : stack[i].instance = New
  <2>1. ScriptProvider[p] # 0 /\ ScriptProvider[p] \in Nat
    BY <1>1 DEF EnterLoaded, HostInv, TypeOK
  <2>2. New = ScriptProvider[p]
    BY <1>1, <2>1, PushScript DEF EnterLoaded, HostInv
  <2>3. PICK i \in 1 .. Len(stack) : stack[i].instance = ScriptProvider[p]
    BY <2>1 DEF HostInv, Owned
  <2> QED BY <2>2, <2>3
<1>2. ASSUME NEW p \in Provider, NEW cmd \in {"runscript", "evalstring"}, EnterLoading(cmd, p)
      PROVE  New > created
  <2>1. created' = created + 1 /\ created' \in Nat /\ created \in Nat
    BY <1>2, LoadedFresh DEF EnterLoading, HostInv, TypeOK
  <2>2. New = created'
    BY <1>2, <2>1, PushScript DEF EnterLoading, HostInv
  <2> QED BY <2>1, <2>2
<1>3. Len(stack) \in Nat
  BY LenProperties DEF HostInv, TypeOK
<1>4. ASSUME stack' = stack PROVE FALSE
  BY <1>3, <1>4
<1>5. ASSUME NEW cmd, Exit(cmd) PROVE FALSE
  BY <1>3, <1>5, PopScript DEF HostInv
<1>6. ASSUME NEW p \in Provider, runscript(p) \/ evalstring(p)
      PROVE  New > created \/ \E i \in 1 .. Len(stack) : stack[i].instance = New
  BY <1>1, <1>2, <1>4, <1>6 DEF runscript, evalstring, LoadFails
<1>7. ~runscript_exit /\ ~evalstring_exit
  BY <1>5 DEF runscript_exit, evalstring_exit
<1>8. ~startvm /\ ~stopvm /\ ~DebugExtensionInitialize /\ ~DebugExtensionUninitialize
  BY <1>4 DEF startvm, stopvm, DebugExtensionInitialize, DebugExtensionUninitialize
<1>9. ~UNCHANGED vars
  BY <1>4 DEF vars
<1> QED BY <1>6, <1>7, <1>8, <1>9 DEF Next

\* While a session lasts no instance goes away; outside one a script starts in a new
\* machine, or in that of a script still in progress.
THEOREM MachinesFollowTheSession ==
  ASSUME Disciplined
  PROVE  Spec => SessionPreservesVM /\ FreshMachine
<1>1. HostInv /\ [Next]_vars => HostInv'
  BY StepHostInv
<1>2. HostInv /\ [Next]_vars =>
        [ StartVMEnabled /\ StartVMEnabled' =>
            \A p \in Provider :
              ScriptProvider[p] # 0 => ScriptProvider'[p] = ScriptProvider[p] ]_vars
  BY StepKeepsSession
<1>3. HostInv /\ [Next]_vars =>
        [ (Len(stack') > Len(stack) /\ ~StartVMEnabled)
            => LET instance == stack'[Len(stack')].instance IN
               \/ instance > created
               \/ \E i \in 1 .. Len(stack) : stack[i].instance = instance ]_vars
  BY StepStartsFresh
<1> QED BY <1>1, <1>2, <1>3, InitHostInv, PTL DEF Spec, SessionPreservesVM, FreshMachine
=============================================================================
