# DbgScript in TLA+

DbgScript is a WinDbg extension that runs Lua, Python and Ruby scripts inside the
debugger. A host DLL (`src/dllmain.cpp`, `src/cmdline.cpp`, `src/support/`)
implements the commands `!runscript`, `!evalstring`, `!startvm`, `!stopvm` and
`!scriptpath`; one provider DLL per language (`src/luaprov`, `src/pythonprov`,
`src/rubyprov`) embeds the interpreter and exposes the debugger's threads, frames
and typed memory. Paths below are relative to the root of the repository.

All of it runs on one thread, the debugger's. What makes it hard is not
concurrency but *re-entrancy* (a script executes a debugger command, which may be
a host command that runs another script), *partial failure* (every engine call may
fail between two steps that belong together), *global state that outlives a
command* (buffer, VM session, caches, the user's selection of thread and frame),
and *order* (what is printed, flushed, unloaded or reverted first).

## Inventory

| Component | State | Operations | Interacts with | What must hold |
| --- | --- | --- | --- | --- |
| Buffered output and capture (`support/util.cpp`, `support/outputcallback.cpp`, stdio of the providers) | `IsBuffering`, `MessageBuf`, `BufPosition`, the client's output callbacks, the capture buffer | print, start and stop buffering, execute a command, flush, report an error | the engine calls the output callbacks back while a command executes; the host flushes at the end of a run | order and completeness of text, bounds, flush at the end, callbacks put back |
| Provider lifecycle and VM session (`dllmain.cpp`) | list of providers (module handle, instance), `StartVMEnabled`, a captured copy of it per command | load, create, Init, Run, unload; start and stop a session | providers by `IScriptProvider`; re-entered through executed commands | a running script keeps its VM; recycled outside a session, preserved inside |
| Command line (`cmdline.cpp`, `findScriptProvider`) | the line being cut by `strtok_s`, parsed arguments | parse, select a provider | host commands | what belongs to the provider reaches it whole; the provider named is the one that runs |
| Thread and frame queries (`support/ds*.cpp`, `CAutoSwitch*`, Thread and StackFrame of the providers) | the engine's current thread and frame, remembered selections, symbol groups | stack, current frame, TEB, locals and arguments | the engine; callbacks of the providers during enumeration | the selection is restored, answers are about the target, groups are released |
| Typed objects (`support/dstypedobject.cpp`, TypedObject of the providers) | typed data and whether it is valid, lengths | field, element, deref, value, run-time type | symbol cache, engine | no use of invalid data, widths and signs of values |
| Symbol cache (`support/symcache.cpp`) | three maps, never emptied | look up and fill | engine | an entry is what the engine says |
| Script path (`!scriptpath`, `UtilFindScriptFile`) | a linked list | replace, print, search | providers' Run | the first match in order; the list is the argument |
| Debugger interfaces (`acquireDbgEngIfaces` and relatives) | six interface pointers | acquire, release, re-acquire on a change of client | every command | all of the caller; references balanced |
| Standard input (`luaInputCb`, `luaGetCCb`, `readline`, `gets`) | Lua's input buffer | read a line or a character | engine prompt | no character lost or invented |
| Script start (`Run` of the providers) | the arguments, the provider's switches | take switches, find the script, hand over arguments | script path; host commands | every word reaches whom it is for, once and in order |
| Reading target memory (`UtilReadAnsiString`, `LuaReadString` and relatives) | - | read a string, a value | typed objects, engine | no more than asked for, whole if it fits, the same in each language |
| VM setup, symbol helpers, class bindings, registry, build and tests | - | - | - | wrappers around one call each, or no run-time state |

The hazards of this code, each at its line with the properties that would catch it
going wrong, are the `hazards` of `PROJECT.json`; those without a property say why.

## Modules

### OutputBuffer and TextStream

A text is a sequence of characters, because the buffers' capacities are counted in
characters. `MessageBuf` is what the code keeps in `MessageBuf[0 .. BufPosition-1]`,
`Buf` the capture buffer, `callback` the output callbacks of the client, `stack` the
invocations in progress: a host command running a script (`runscript`,
`evalstring`) or a command being executed by one, with its output captured
(`capture`) or not (`direct`). `shown`, `said`, `failures`, `unexplained` and `refusals`
are history variables; the last counts the calls the engine refused that cost the
client its callbacks (`CallbackFailure`: `GetOutputCallbacks`, after which the
destructor puts back null, and the destructor's own `SetOutputCallbacks`, which it only
asserts to succeed; a refused `Install` costs nothing).

* `luaOutputCb`, `DbgScriptIO_write`, `DbgScriptStdIO_write` print (`Emit`);
  `UtilBufferOutput` and `UtilFlushMessageBuffer` are the functions of that name.
* `dbgscript_startBuffering` and its siblings, one action per provider, nest.
* `ExecuteCaptured` .. `DirectReturns` are `UtilExecuteCommand` split where the
  command it executes runs; `CommandPrints` is that command printing, which calls
  `DbgScriptOutputCallbacks::Output` back. A host command may start there, too.
* `luaRuntimeError` and `topLevelExceptionHandler` flush and report. When the message
  of Ruby's exception cannot be had, the handler says so at once, past the buffer, and
  flushes nothing (`MessageUnobtainable`). Python prints its traceback through
  `DbgScriptIO_write`.
* `runscript_exit` is all that follows Run: the timing line, the reset of the count,
  the flush and the failure message. `evalstring_exit` only prints the message.

`TextStream` is what the documents of `start_buffering` and `stop_buffering` promise,
without buffers, callbacks or a stack: what is written is seen at once or, while it is
held back, in chunks, and `Report` and `End` show all of it. `OutputBuffer` implements
it under `written <- said`, `seen <- shown`, `holding <- IsBuffering > 0`,
`prompt <- stack = <<>>`, `reports <- failures` (`ImplementsStream`). A print that
overflows `MessageBuf` and a command whose captured output is added are a `Write`, of
which only the arithmetic of lengths tells what is seen; a nested start or stop, a
command that prints under capture or fails, and an inner invocation stutter; an inner
run that ends is an `End`.

### ProviderHost and VMSession

`ProviderHost` keeps, per provider, the module handle, the references to its DLL and
the number of its instance; a frame of `stack` is a command with its local
`startVMEnabled` and the instance it called. `EnterLoaded`, `EnterLoading` and
`LoadFails` are the part of `runscript` and `evalstring` up to the call of Run;
`loadAndCreateScriptProvider` has one outcome per way of failing, each leaving what
the steps before it did; `Exit` is the end of both commands.

`VMSession` is the documented promise (`docs/Reference.rst`, `!startvm`): a machine
is new outside a session, kept inside one, and thrown away at the end of either.
`ProviderHost` implements it under the mapping `session <- StartVMEnabled`,
`vm <- ScriptProvider`, `ever <- created`, `running` the providers and instances of
`stack` (`ImplementsSession`). A step that fails to load maps to a stuttering step.

### CommandLine

A line is the sequence of its words, `pos` how many of them `strtok_s` has cut off,
so that `nextTok` is the rest. The actions are the branches of the loop of
`ParseArgs`; `Advance` is its tail, where the next character is peeked at before the
next word is cut off. `findScriptProvider` searches the registered ids.

### ScopeQuery

`thread` and `frame` are the engine's current ones. A query (`Ask`) goes through
`SwitchThread`, for variables also `SwitchFrame`, then `Answer`, then the
destructors `RevertFrame` and `RevertThread` in reverse, and for variables
`GetNumberSymbols`, the loop `Enumerate` with the provider's callback, and
`Release`. Every engine call in `Failure` may fail where it is made, those of the
destructors included: a frame that cannot be put back is warned about, a thread that
cannot is not (an assertion only), which `stranded` remembers. What the engine
does to the frame when the thread changes is left open (`ScopeOnSwitch`).

### SymCache and TypedObject

`SymCache` has the three maps and the engine they ask: `loaded` is the module at each
base, which changes whenever the target runs. A lookup is a relation between the
maps, its answer and the maps after it, step by step as the code makes its calls:
a lookup that fails half way may have filled a map with what succeeded.

`TypedObject` has the records a script holds (`held`). Each way of making one is an
action: by name, as a global, from the symbol of a local, as a field, an element or
what a pointer points to, as its run-time type, each in the three languages with
their own checks. `DsInitializeTypedObject`, `DsWrapTypedData` and
`DsTypedObjectGetRuntimeType` are shared, as in the code, including that the last
one may succeed without having filled anything in (`Unfilled`). What differs is the
memory: Python and Ruby zero it, Lua does not (`LuaMemory`).

### TargetMemory and ScriptData

Reading changes nothing, so it is an operator: the set of the answers a script may get.
`TargetMemory` has the reading of strings, with its counts and buffers in characters
and in UTF-8, and of values through the member of a union whose width and sign each
language chooses, computed on the bytes. `ScriptData` puts them behind the
checks of the objects in `held`.

### HostCommand, with CommandLine, DebuggerInterfaces and ScriptPath

`HostCommand` composes three modules over the state of a command (`stage`): `Enter`
acquires the interfaces (`DebuggerInterfaces`), `Parse` makes the steps of
`CommandLine`, `Load` splits the rest with `CommandLineToArgvW`: an argument is one word
or, where quotes join them, some neighbouring ones (which, is left open); an empty rest
makes the path of the program, and a rest that begins with white space, because
`strtok_s` has cut one blank only, an empty first argument. `LuaSwitch`, `PythonSwitch` and `SwitchesEnd` are the
loops at the head of the providers' `Run`, `Search` is `UtilFindScriptFile` of
`ScriptPath`, `Located` and `Start` the rest of `Run` up to the script, `Exit` the end
of every command. `scriptpath` and `ScriptPathRuns` are `!scriptpath`, which goes
through its linked list element by element.

In `DebuggerInterfaces`, `iface` is the client each interface was obtained from and
`references` what the extension has added to the reference counts of each client's
interfaces. In `ScriptPath`, `heap` has the elements allocated, so that a leak is an
element too many; a look at the disk (`UtilFileExists`) is answered anew each time.

### Helpers

`SequenceFacts` has lemmas on sequences for the proofs. An `MC...` module gives the
constants of its module small values. An operator whose comment begins with "Fault"
is a broken variant of the definition after it and is used by no specification: it
documents the mistake that a property of the module is there to catch.

## Runs

| Configuration | Result | Shows |
| --- | --- | --- |
| `OutputRunscript.cfg` | holds | `TextInOrder`, `NothingLeftAtPrompt`, `FailureFollowsText` and `ImplementsStream` for `!runscript` with three providers, overflow, capture, nesting |
| `OutputEvalstring.cfg` | holds | `RoomForNul`, `HeldOnlyWhileBuffering`, `CallbacksReverted` with `!evalstring` and `-t`, whatever the engine refuses of the callbacks |
| `OutputEvalUnflushed.cfg` | violated | `FlushedAtTermination`: after `!evalstring` text stays in the buffer (`docs/shared/stop_buffering.txt` says it is flushed) |
| `OutputCaptureOverwritten.cfg` | violated | of a captured command only the last piece of output survives |
| `OutputNestedRunscript.cfg` | violated | `!runscript` inside a captured command resets the outer script's count; an assertion of `UtilBufferOutput` fails |
| `HostSession.cfg` | holds | lifecycle properties and `ImplementsSession`; loads fail anywhere before Init, scripts run scripts of their own and of other providers and execute `!stopvm` |
| `HostNestedStartvm.cfg` | violated | `!startvm` executed by a script does not preserve that script's VM |
| `HostInitFails.cfg` | violated | a provider whose Init failed is taken for loaded |
| `HostCommands.cfg` | holds | whole commands: `SplitsLine`, `RunsNamedProvider` of the parser, `InterfacesOfCaller`, `ReferencesBalanced` over changing clients, `PathIsArgument`, `FoundFirst` of the list and the search, `ArgumentsWhole` from the line to the script, and `CommandEnds` |
| `CommandLineDefault.cfg` | violated | a line without `-l` does not run with a default provider, and a leading script name is lost |
| `ScopeQueries.cfg` | holds | selection restored unless the switch back is itself refused, answers about the target, groups balanced, whichever engine calls fail; every query comes back (`QueryEnds`) |
| `TypedObjects.cfg` | holds | `EntriesTrue` of the cache while modules come and go; `NamesOfData`, `NamedAsAsked`, `NullNotTraversed`, `AnswersFromData` of objects; `ValuesFaithful`, `StringsAsAsked`, `LanguagesAgree` of what they yield |

Each violated property is what a document or an assertion of the repository says;
`findings` in `PROJECT.json` quotes it. What a constant keeps out of a passing run is:

* `NestWhileBuffering` = FALSE: captured host commands (`OutputNestedRunscript.cfg` has
  them).
* `HostCommand` and `TimeRun` of `OutputRunscript.cfg`: `!evalstring`, of which
  `OutputEvalUnflushed.cfg` shows that it leaves text behind, and the line of `-t`, which
  goes past the buffer; both are in `OutputEvalstring.cfg`.
* `CallbackFailure` of `OutputRunscript.cfg` is a refused `Install` only: without its
  callbacks the debugger shows nothing. `OutputEvalstring.cfg` has all three refusals.
* `"init"` of `LoadFailure` (`HostInitFails.cfg` has it) and `"startvm"` of `Nested`
  (`HostNestedStartvm.cfg`). No violated run is about anything else scripts may execute:
  running their own provider again and `!stopvm` are in `HostSession.cfg`, where
  `RunningStaysLoaded` says in which ways a script's instance goes away under it.

### Bounds

* Output: `MessageBuf` holds 3 characters and a NUL (`MSG_CCH` = 4), the capture
  buffer 2 (`CAP_CCH` = 3); texts have 1 or 2 characters, command output up to 3. Two
  prints can fill, exactly fill or overflow the one; one print overflows the other.
  `MaxSaid` = 4 or 6 allows two overflows, `MaxDepth` = 3 a script executed by a
  script, `MaxNest` = 2 an inner and an outer start, `MaxFailures` = 1 a message of
  each sort, `MaxRefusals` = 1 a call that costs the callbacks.
* Host: three providers, three nested invocations, four instances (a fresh one after
  a session's), three references to a DLL (what two failed loads leave, and a third).
* Host commands: every line of up to three words; behind `-l <id> --` up to three words
  more, so that a provider gets two switches, a switch with its name and a script, or
  one it does not know; and two languages before up to two words. Two clients, the
  third interface of which may be refused (two obtained, three not), each left once
  (`MaxChanges`), and the extension's own in between; lists of one and of three
  directories, so that a list is replaced by a longer and by a shorter one.
  `DebugControl` is never refused: the message of the failing command would go
  through the null pointer.
* Typed objects (127,252 states): two modules, of which B can be loaded at either of two bases and A at
  one, so that each takes the other's place; one base loses a module (`MaxUnloads`); a
  script holds one object at a time, since no operation reads two. Read buffers of four
  characters, counts from -1 to one more than that, strings of every length up to it;
  bytes have two values, so that a 64 bit value is one of 256 and every sign bit
  pattern occurs; the memory beside a value is clear or set.
* Scope: two threads of two frames, so that the user's selection differs from the
  target in either or both; two symbols, so that the loop fails at the first and the
  last; two groups, so that a query follows one that leaked.

Deadlock is checked in every run.

### Fairness

`HostCommands.cfg` and `ScopeQueries.cfg` assume weak fairness of the steps one thread
makes by itself between the prompt (or the script) and the prompt (or the script):
`WF(Continue)` and `WF(Proceed)`. The code there is straight-line code and loops,
the calls of the engine return, and nothing waits for anything. No fairness is
assumed of who enters a command, of a script, which may run for ever, or of the
target. `CommandEnds` and `QueryEnds` therefore say that no loop of the host goes on
for ever; they are not about scripts ending. The other runs assume no fairness.

## Proofs

All are checked by TLAPS for every value of the constants that satisfies the named
assumptions of the modules.

* `OutputBufferProofs`: `TypeCorrect` and `MessageBufBounded` hold without further
  assumption; the bound is inductive once the types are known, since every write
  truncates. `CallbacksComeBack` needs none either: at each step the outermost capture remembers what it found, and every way out puts that back or is
  a step in which the engine refuses. `HeldText` (nothing held while buffering is off)
  assumes `NotReentered`: no captured host command. Its invariant `HeldInv` adds the
  shape of the stack: a capture is always innermost and was started by a buffering
  script. `OrderedText` (`TextInOrder`, `NothingLeftAtPrompt`) assumes
  `PlainRuns`: also no `!evalstring`, no `-t`, no lost callbacks, and texts that fit.
  Its invariant `OrderInv` adds that buffering is off outside scripts and under direct commands, and that
  captured output is accounted for. From the same invariant `FailureIsReadLast` and
  `HeldUntilStopped`: a failure message shows all that was said before it (but for
  Ruby's that the exception's own could not be had), and while
  buffering goes on only an overflow or an error report shows what is held.
  `StreamImplemented`, under the same assumption, is the refinement of `TextStream`,
  one lemma per action of the stream: `OrderInv` gives that the length held is that of
  what was written and not seen, which decides between the two ways of a `Write`.
  `StreamReadsOn` says what such a stream is good for, of the stream alone.
* `ProviderHostProofs`: `TypeCorrect` and `UnloadIsSafe` need no assumption.
  `ScriptsKeepTheirProvider`, `PromptIsClean`, `SessionImplemented` and
  `MachinesFollowTheSession` assume `Disciplined`: Init succeeds and scripts do not execute
  `!startvm`. They may execute `!stopvm` and run their own provider again. The invariant
  `HostInv` says that no command recorded less of a session than there still is, that
  instances are numbered up to `created` and that those in use were initialised. The
  refinement is proved step by step against `VMSession`.
* `CommandLineProofs`: `TypeCorrect`, `LineSplit`, `NamedProviderRuns`, unconditionally.
  The invariant says that the words before the current one are complete switches that
  ask for what has been recorded.
* `TypedObjectProofs`: `TypeCorrect` for all sets of modules, types and symbols and
  whatever Lua's memory holds. `CacheIsTrue`: an entry is the engine's answer until a
  module is unloaded from its base. `ObjectsAreWhatTheySay`: so are the names of an
  object, and those it was asked for by; of a typed pointer only that it has a pointer's
  data, since it gives the name of what it points to. `NothingComesOfNull` for Python and Ruby. The
  invariant `Inv` joins the truth of the three maps with that of every object held;
  an object's truth has to speak of the base its names were looked up by, since that
  is what a later unloading makes stale. `NullHasNoAnswers` needs it to say, too, that
  an object of a null address has no valid data, however it was come by. Of the reading
  itself: `ValuesArrive` for bytes of any number of values. `ScriptData!Arrives` says of
  the C value alone what is read; the proof takes the kinds of types by the member each
  language reads them by, and needs of the sizes that a narrower type has at most half
  the values of eight bytes, and that numbers which differ by whole times a width have
  the same remainder. (`Values` spells the sizes out as products, because the prover has
  no facts about powers.) `StringsKeepToCounts` and `StringsAreTheSame` for read buffers
  of any length: they compare the counts, the buffer's end and the room UTF-8 needs.
* `ScriptPathProofs` and `HostCommandProofs`: `ListIsTheArgument` and
  `FirstIsFoundAlways` for lists of any length. The invariant follows a chain of
  distinct elements: while it is freed, what is left is one from the cursor; while it is
  rebuilt, what is there is the argument up to the part being read and `prev` is its
  last element. The search is at an element all of whose predecessors were seen without
  the script. `InterfacesAreTheCallers` and `ReferencesAreBalanced`, for all clients
  and whatever each refuses: what is kept is of one client, the one counted for, and
  during a command it is the caller. `HostLineSplit` and `HostProviderNamed` carry
  the theorems about the parser over: a step of a command is a step of `CommandLine` or
  leaves it alone (`HostSplitsLines`). `EveryArgumentReachesTheScript` follows the
  arguments of a line through `Run`: those taken are complete switches of the provider it
  is of, the first one left is none, and what is handed over is all that is left, after
  the module's name if there is one; an empty first argument is never found, so that the
  arguments of a script that runs are the words of the line, grouped.
  `HostTypeCorrect` needs those invariants: that the cursor of the list is an element or null follows from the chain, that the index stays within the
  arguments and Python's module is one of them from what was taken before it (the
  program's path, which `CommandLineToArgvW` makes of an empty rest, stands alone).
* `ScopeQueryProofs`: `TypeCorrect`, `ScopeRestored`, `AnswersMatch`, `GroupsReleased`,
  unconditionally. The invariant says at each point of a query what the engine's scope
  is in terms of the user's selection and of what the two switches remember.

Every invariant and action property the passing runs check is stated by a theorem.
Only model-checked are the liveness properties `CommandEnds` and `QueryEnds`, since
fairness and ENABLED are out of the prover's reach, and the violations. Of the order of
text nothing is proved beyond `PlainRuns`, nor checked: `-t` prints its line past the
buffer, and `!evalstring` and captured host commands are what the violated runs are about.

## Not modelled, and why

* A call whose success is only asserted may fail, and the code goes on as a release
  build does, without the assertion: the destructors of `CAutoSetOutputCallback` and
  `CAutoSwitchThread`. A single text longer than `MessageBuf` is truncated.
* An aborted call (`CHECK_ABORT`) does nothing; it is a stuttering step.
* A captured command inside a captured command whose overflow flush prints into the
  capture buffer being read; Lua's message about a script that does not compile, which
  is printed without a flush; engine helpers' own error messages.
* The user's frame is a number, kept by the engine for the current thread, so that the
  order of the two reverts of a query cannot be told: reversed, they end on the same
  thread and number. The order of the two switches can (`AnswersForTarget`).
* `CommandLineToArgvW` joins words of the line between quotes; text right behind a
  closing quote, escaped quotes and a first word cut at a quote are left out. A rest that
  begins with white space runs no script, whatever is behind it: its first argument is
  empty, for the code one that is no switch and names no file.
* Truncation of language ids to the length of `LangId`, a registry value without a name,
  allocation failures, the debugger unloading the extension under a running script.
* `HostCommand` leaves nesting and sessions to `ProviderHost`: a provider is new for every
  command, so that the `sys.argv` of an earlier script, which a module run without
  arguments would find in a session, does not occur. Paths longer than `MAX_PATH`,
  which `scriptpath` asserts away and the search truncates; elements of the list when
  the DLL itself is unloaded, which are lost with it.
* Of typed objects: addresses, offsets and sizes as numbers, reading raw bytes, listing
  fields. Values of floating point types; `BOOL` and `CHAR` are the numbers of their byte,
  as which `ValuesFaithful` compares them. `rbValueFromCValue` is that of a 64 bit build,
  where a fixnum holds any 32 bits. `Length` raises in the run, whose objects are no
  arrays, and no property is about the lengths of arrays. A local with a module but
  no offset, for which the code makes an object of a null address. The outputs of
  `UtilGetFieldOffset` and `UtilGetTypeSize`, which may be unset when they succeed.
* Lua's use of uninitialised memory is in the model, and the properties it breaks are
  stated of Python and Ruby. `get_runtime_obj` of an object without a vtable returns an
  object nobody filled in (`Unfilled`), where comments of `rubyprov` and `pythonprov`
  speak of an exception; `NullNotTraversed` and `AnswersFromData` hold of such objects
  too. Python's `obj.field` does not check that there is data: that nothing comes of a
  null object rests on the engine refusing a module base of zero (`Part`).
* `TypedObject_readWideString` of characters of three bytes, where Lua and Ruby raise
  for want of room and Python does not: in the model, but outside `LanguagesAgree`.
  `StringsAsAsked` allows an error everywhere, this one included.
* Standard input of scripts and the Lua stack over a session: state that is kept, but
  nothing in the repository says what should become of it.
* Search paths, the lockdown of Ruby, class registration and the wrappers around a
  single engine call that keep no state.

## Plan

Done: output, lifecycle, command line, scope, typed objects with the symbol cache,
script path, interfaces, and whole commands composed of them. Left:

1. The composition of `OutputBuffer`, `ProviderHost` and `HostCommand` over one stack of
   invocations, since all are re-entered by the same executed commands; then a proof that
   it implements `VMSession` and `TextStream` together.
2. Reading of bytes and of memory ranges with their buffers.
