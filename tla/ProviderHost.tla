---------------------------- MODULE ProviderHost ----------------------------
(***************************************************************************)
(* The life of the script providers under the host commands (dllmain.cpp). *)
(* A provider's DLL is loaded and its instance created when a script needs *)
(* it, and both go when the script ends, unless !startvm has begun a       *)
(* session.  A script may execute host commands itself, so invocations     *)
(* nest; each remembers the value StartVMEnabled had when it began.        *)
(*                                                                         *)
(* Instances are numbered in the order they are created, so that a script  *)
(* can be told to have lost the instance it runs in.  A command that fails *)
(* before it loads a provider (no interfaces, no argument, a bad switch,   *)
(* an unknown language) changes nothing here: it is a stuttering step.     *)
(*                                                                         *)
(* A script whose provider was unloaded under it returns into an           *)
(* interpreter and a DLL that are gone, which C++ leaves undefined.  The   *)
(* host's own state stays defined: here such a script goes on executing    *)
(* commands, or ends.                                                      *)
(***************************************************************************)
EXTENDS Integers, Sequences

CONSTANTS
  Provider,    \* the registered providers: "lua", "py", "rb"
  LoadFailure, \* the ways loading may fail: "path", "library", "bind", "create", "init"
  Nested,      \* the host commands scripts execute
  MaxDepth,    \* bound: nested invocations
  MaxCreated,  \* bound: instances created
  MaxRefs      \* bound: references to one provider DLL

Command == {"runscript", "evalstring", "startvm", "stopvm"}

ASSUME ProviderHostAssumption ==
  /\ Provider \subseteq {"lua", "py", "rb"}
  /\ LoadFailure \subseteq {"path", "library", "bind", "create", "init"}
  /\ Nested \subseteq Command

VARIABLES
  up,             \* DebugExtensionInitialize has run and registered the providers
  StartVMEnabled, \* hostCtxt->StartVMEnabled
  Module,         \* is info->Module set?
  refs,           \* references the process holds to each provider's DLL
  ScriptProvider, \* info->ScriptProvider: the number of the instance, 0 if null
  created,        \* instances created so far
  started,        \* the instances whose Init, hence StartVM, succeeded
  stack           \* the invocations running a script, innermost last

vars == <<up, StartVMEnabled, Module, refs, ScriptProvider, created, started, stack>>

\* startVMEnabled is the local of runscript and evalstring; instance is the one
\* Run or RunString was called on.
Frame == [cmd : {"runscript", "evalstring"},
          prov : Provider,
          startVMEnabled : BOOLEAN,
          instance : Nat]

TypeOK ==
  /\ up \in BOOLEAN
  /\ StartVMEnabled \in BOOLEAN
  /\ Module \in [Provider -> BOOLEAN]
  /\ refs \in [Provider -> Nat]
  /\ ScriptProvider \in [Provider -> Nat]
  /\ created \in Nat
  /\ started \subseteq Nat
  /\ stack \in Seq(Frame)

Top == stack[Len(stack)]

\* The script still has the instance it was started on.
Loaded(f) == ScriptProvider[f.prov] = f.instance

Init ==
  /\ up = FALSE
  /\ StartVMEnabled = FALSE
  /\ Module = [p \in Provider |-> FALSE]
  /\ refs = [p \in Provider |-> 0]
  /\ ScriptProvider = [p \in Provider |-> 0]
  /\ created = 0
  /\ started = {}
  /\ stack = <<>>

-----------------------------------------------------------------------------
(* Loading and unloading a provider                                        *)

\* How the Init of a provider, which is its StartVM, may end.
CLuaScriptProvider_StartVM == {"ok", "init"}  \* luaL_newstate may fail
CPythonScriptProvider_StartVM == {"ok"}
CRubyScriptProvider_StartVM == {"ok", "init"} \* ruby_setup may fail

StartVM(p) ==
  CASE p = "lua" -> CLuaScriptProvider_StartVM
    [] p = "py" -> CPythonScriptProvider_StartVM
    [] p = "rb" -> CRubyScriptProvider_StartVM

\* The steps of a load that precede Init may fail, too.
LoadOutcome(p) == ({"path", "library", "bind", "create"} \union StartVM(p))
                    \intersect (LoadFailure \union {"ok"})

\* Each failure leaves what the steps before it did.  Init that fails leaves its
\* instance in place.
loadAndCreateScriptProvider(p, outcome) ==
  LET inProcess == outcome \notin {"path", "library"}
      exists == outcome \in {"init", "ok"}
  IN
  /\ inProcess => refs[p] < MaxRefs
  /\ exists => created < MaxCreated
  /\ Module' = [Module EXCEPT ![p] = IF outcome = "path" THEN @ ELSE inProcess]
  /\ refs' = [refs EXCEPT ![p] = IF inProcess THEN @ + 1 ELSE @]
  /\ created' = IF exists THEN created + 1 ELSE created
  /\ ScriptProvider' = [ScriptProvider EXCEPT ![p] = IF exists THEN created' ELSE 0]
  /\ started' = IF outcome = "ok" THEN started \union {created'} ELSE started

\* Fault: a reference is dropped whether or not there is an instance.
UnloadUnconditionally(S) ==
  /\ ScriptProvider' = [p \in Provider |-> IF p \in S THEN 0 ELSE ScriptProvider[p]]
  /\ Module' = [p \in Provider |-> Module[p] /\ p \notin S]
  /\ refs' = [p \in Provider |-> IF p \in S THEN refs[p] - 1 ELSE refs[p]]
  /\ UNCHANGED <<created, started>>

\* Fault: the pointer to the deleted instance stays.
UnloadDangling(S) ==
  LET gone == {p \in S : ScriptProvider[p] # 0} IN
  /\ Module' = [p \in Provider |-> Module[p] /\ p \notin gone]
  /\ refs' = [p \in Provider |-> IF p \in gone /\ refs[p] > 0 THEN refs[p] - 1 ELSE refs[p]]
  /\ UNCHANGED <<ScriptProvider, created, started>>

\* Cleanup (StopVM and delete), the DLL's cleanup, FreeLibrary; nothing when
\* there is no instance.
Unload(S) ==
  LET gone == {p \in S : ScriptProvider[p] # 0} IN
  /\ ScriptProvider' = [p \in Provider |-> IF p \in gone THEN 0 ELSE ScriptProvider[p]]
  /\ Module' = [p \in Provider |-> Module[p] /\ p \notin gone]
  /\ refs' = [p \in Provider |-> IF p \in gone THEN refs[p] - 1 ELSE refs[p]]
  /\ UNCHANGED <<created, started>>

unloadScriptProvider(p) == Unload({p})
unloadAllScriptProviders == Unload(Provider)

-----------------------------------------------------------------------------
(* runscript and evalstring                                                *)

\* The debugger invokes a host command at its prompt, or because the innermost
\* script executes it.
MayInvoke(cmd) == up /\ (stack = <<>> \/ cmd \in Nested)

MayEnter(cmd) ==
  /\ MayInvoke(cmd)
  /\ Len(stack) < MaxDepth

Push(cmd, p, instance) ==
  stack' = Append(stack, [cmd |-> cmd, prov |-> p,
                          startVMEnabled |-> StartVMEnabled,
                          instance |-> instance])

\* loadScriptProviderIfNeeded, then Run or RunString begins.
EnterLoaded(cmd, p) ==
  /\ MayEnter(cmd)
  /\ ScriptProvider[p] # 0
  /\ Push(cmd, p, ScriptProvider[p])
  /\ UNCHANGED <<up, StartVMEnabled, Module, refs, ScriptProvider, created, started>>

\* Fault: the provider is loaded again although it is.
EnterReloading(cmd, p) ==
  /\ MayEnter(cmd)
  /\ loadAndCreateScriptProvider(p, "ok")
  /\ Push(cmd, p, created')
  /\ UNCHANGED <<up, StartVMEnabled>>

EnterLoading(cmd, p) ==
  /\ MayEnter(cmd)
  /\ ScriptProvider[p] = 0
  /\ loadAndCreateScriptProvider(p, "ok")
  /\ Push(cmd, p, created')
  /\ UNCHANGED <<up, StartVMEnabled>>

\* The load fails, and with it the command: initializedProvider is still false,
\* so its exit unloads nothing.
LoadFails(cmd, p) ==
  /\ MayEnter(cmd)
  /\ ScriptProvider[p] = 0
  /\ \E outcome \in LoadOutcome(p) \ {"ok"} : loadAndCreateScriptProvider(p, outcome)
  /\ UNCHANGED <<up, StartVMEnabled, stack>>

\* Fault: the exit ignores the session.
ExitUnloading(cmd) ==
  /\ stack # <<>>
  /\ Top.cmd = cmd
  /\ unloadScriptProvider(Top.prov)
  /\ stack' = SubSeq(stack, 1, Len(stack) - 1)
  /\ UNCHANGED <<up, StartVMEnabled>>

\* Fault: the exit leaves the provider loaded.
ExitKeeping(cmd) ==
  /\ stack # <<>>
  /\ Top.cmd = cmd
  /\ stack' = SubSeq(stack, 1, Len(stack) - 1)
  /\ UNCHANGED <<up, StartVMEnabled, Module, refs, ScriptProvider, created, started>>

\* The script is over, or an argument was bad: the provider goes unless a
\* session was in progress when the command began.
Exit(cmd) ==
  /\ stack # <<>>
  /\ Top.cmd = cmd
  /\ IF Top.startVMEnabled
     THEN UNCHANGED <<Module, refs, ScriptProvider, created, started>>
     ELSE unloadScriptProvider(Top.prov)
  /\ stack' = SubSeq(stack, 1, Len(stack) - 1)
  /\ UNCHANGED <<up, StartVMEnabled>>

runscript(p) ==
  \/ EnterLoaded("runscript", p)
  \/ EnterLoading("runscript", p)
  \/ LoadFails("runscript", p)

evalstring(p) ==
  \/ EnterLoaded("evalstring", p)
  \/ EnterLoading("evalstring", p)
  \/ LoadFails("evalstring", p)

runscript_exit == Exit("runscript")
evalstring_exit == Exit("evalstring")

-----------------------------------------------------------------------------
(* startvm, stopvm and the extension's own life                            *)

startvm ==
  /\ MayInvoke("startvm")
  /\ ~StartVMEnabled
  /\ StartVMEnabled' = TRUE
  /\ UNCHANGED <<up, Module, refs, ScriptProvider, created, started, stack>>

\* Fault: the session ends and its instances stay.
stopvm_keeping ==
  /\ MayInvoke("stopvm")
  /\ StartVMEnabled
  /\ StartVMEnabled' = FALSE
  /\ UNCHANGED <<up, Module, refs, ScriptProvider, created, started, stack>>

stopvm ==
  /\ MayInvoke("stopvm")
  /\ StartVMEnabled
  /\ unloadAllScriptProviders
  /\ StartVMEnabled' = FALSE
  /\ UNCHANGED <<up, stack>>

DebugExtensionInitialize ==
  /\ ~up
  /\ up' = TRUE
  /\ UNCHANGED <<StartVMEnabled, Module, refs, ScriptProvider, created, started, stack>>

\* cleanupScriptProviders unloads the providers and frees the list; the debugger
\* then unmaps the extension, and its globals with it.
DebugExtensionUninitialize ==
  LET gone == {p \in Provider : ScriptProvider[p] # 0} IN
  /\ up
  /\ stack = <<>>
  /\ up' = FALSE
  /\ ScriptProvider' = [p \in Provider |-> 0]
  /\ Module' = [p \in Provider |-> FALSE]
  /\ refs' = [p \in Provider |-> IF p \in gone THEN refs[p] - 1 ELSE refs[p]]
  /\ StartVMEnabled' = FALSE
  /\ UNCHANGED <<created, started, stack>>

Next ==
  \/ \E p \in Provider : runscript(p) \/ evalstring(p)
  \/ runscript_exit
  \/ evalstring_exit
  \/ startvm
  \/ stopvm
  \/ DebugExtensionInitialize
  \/ DebugExtensionUninitialize

Spec == Init /\ [][Next]_vars

-----------------------------------------------------------------------------
(* Properties                                                              *)

\* The instance of a script in progress goes away in two ways only: by !stopvm,
\* and by the end of another command of its provider that began outside a session,
\* on the same instance.  Until then it has an initialised machine and its DLL in
\* the process, whatever the script and the scripts nested in it execute.
RunningStaysLoaded ==
  [][ /\ \A i \in 1 .. Len(stack) :
           (i <= Len(stack') /\ Loaded(stack[i])
              /\ ScriptProvider'[stack[i].prov] # stack[i].instance) =>
             \/ StartVMEnabled /\ ~StartVMEnabled'
             \/ /\ stack' = SubSeq(stack, 1, Len(stack) - 1)
                /\ Top.instance = stack[i].instance
                /\ ~Top.startVMEnabled
      /\ \A i \in 1 .. Len(stack') :
           ScriptProvider'[stack'[i].prov] = stack'[i].instance =>
             stack'[i].instance \in started' /\ refs'[stack'[i].prov] > 0 ]_vars

\* "By default, every script execution or string evaluation will recycle the
\* script provider's virtual machine" (docs/Reference.rst): at the prompt and
\* outside a session no provider has an instance.
RecycledOutsideSession ==
  stack = <<>> /\ ~StartVMEnabled => \A p \in Provider : ScriptProvider[p] = 0

\* The asserts of unloadScriptProvider: an instance to clean up has a module
\* handle, and FreeLibrary has a reference to drop.
UnloadAsserts ==
  \A p \in Provider : ScriptProvider[p] # 0 => Module[p] /\ refs[p] > 0

\* Outside a session a script starts in a machine of its own, never in one that
\* an earlier command left behind: the machine is new, or that of a script of its
\* provider that is still in progress.
FreshMachine ==
  [][ (Len(stack') > Len(stack) /\ ~StartVMEnabled)
        => LET instance == stack'[Len(stack')].instance IN
           \/ instance > created
           \/ \E i \in 1 .. Len(stack) : stack[i].instance = instance ]_vars

\* !startvm preserves "the VM state for all providers until !stopvm is called"
\* (docs/Reference.rst): while a session lasts, no instance goes away.
SessionPreservesVM ==
  [][ StartVMEnabled /\ StartVMEnabled' =>
        \A p \in Provider :
          ScriptProvider[p] # 0 => ScriptProvider'[p] = ScriptProvider[p] ]_vars

Session == INSTANCE VMSession WITH
  session <- StartVMEnabled,
  vm <- ScriptProvider,
  ever <- created,
  running <- [i \in 1 .. Len(stack) |-> <<stack[i].prov, stack[i].instance>>]

\* The providers' lives implement the documented one.
ImplementsSession == Session!Spec
=============================================================================
