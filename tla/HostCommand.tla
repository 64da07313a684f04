----------------------------- MODULE HostCommand -----------------------------
(***************************************************************************)
(* The commands !runscript, !evalstring and !scriptpath from the prompt to *)
(* the prompt (dllmain.cpp and Run of the providers): the interfaces of    *)
(* the client are acquired, the line is split (CommandLine), the provider  *)
(* is loaded, takes its own switches, finds the script (ScriptPath), hands *)
(* it its arguments and runs it.                                           *)
(*                                                                         *)
(* Loading is an outcome here and nesting is left to ProviderHost, so a    *)
(* provider is new for every command: no argument outlives one.            *)
(***************************************************************************)
EXTENDS CommandLine, DebuggerInterfaces, ScriptPath

CONSTANTS
  Executable,  \* the debugger's own path
  Unquoted     \* what is left of each word when its quotes are taken away

ASSUME HostCommandAssumption ==
  /\ Executable \notin Word
  /\ Unquoted \in [Word \cup {Executable} -> Word \cup {Executable, ""}]
  /\ Unquoted[Executable] = Executable
  /\ \A word \in Switchlike : Unquoted[word] \in Switchlike
  /\ {Registered[n] : n \in 1 .. Len(Registered)} \subseteq {"lua", "py", "rb"}

VARIABLES
  stage,    \* where the command is
  command,  \* which one it is
  hr,       \* has every call of it succeeded?
  argList,  \* the arguments of Run, each the sequence of its words
  i,        \* the arguments Run has taken for the provider
  module,   \* which of them is Python's module, 0 if none is
  argv      \* the script's: which of Run's each is, and the place a script was found in

run == <<stage, command, hr, argList, i, module, argv>>
hostvars == <<vars, ifaces, path, run>>

Argument == Seq(Word \cup {Executable})
ScriptArgument == [place : Place, arg : Nat]

HostTypeOK ==
  /\ TypeOK
  /\ InterfacesTypeOK
  /\ PathTypeOK
  /\ stage \in {"prompt", "parse", "path", "load", "switches", "search", "start", "script", "exit"}
  /\ command \in {"none", "runscript", "evalstring", "scriptpath"}
  /\ hr \in BOOLEAN
  /\ argList \in Seq(Argument)
  /\ i \in 0 .. Len(argList)
  /\ module \in 0 .. Len(argList)
  /\ argv \in Seq(ScriptArgument)

HostInit ==
  /\ Init
  /\ InterfacesInit
  /\ PathInit
  /\ stage = "prompt"
  /\ command = "none"
  /\ hr = TRUE
  /\ argList = <<>>
  /\ i = 0
  /\ module = 0
  /\ argv = <<>>

-----------------------------------------------------------------------------
(* Up to the provider                                                      *)

Enter(which, next) ==
  /\ stage = "prompt"
  /\ DebugClient # NoClient
  /\ command' = which
  /\ \E client \in Client, refused \in AcquireFailure \cup {"none"} :
       /\ caller' = client
       /\ reAcquireIfacesIfNeeded(client, refused)
       /\ hr' = (refused = "none")
       /\ stage' = IF refused = "none" THEN next ELSE "exit"
  /\ UNCHANGED <<argList, i, module, argv>>

ParsedCommand(which) ==
  /\ Enter(which, "parse")
  /\ IF hr' THEN Invoke ELSE UNCHANGED vars
  /\ UNCHANGED path

runscript == ParsedCommand("runscript")
evalstring == ParsedCommand("evalstring")

scriptpath ==
  /\ Enter("scriptpath", "path")
  /\ IF hr'
     THEN PrintPath \/ \E arg \in PathArgument : SetPath(arg)
     ELSE UNCHANGED path
  /\ UNCHANGED vars

\* What runs of scriptpath after it has the interfaces.
ScriptPathRuns ==
  /\ stage = "path"
  /\ \/ /\ FreeElem \/ Freed \/ SplitAtComma \/ CopyTrailer \/ PrintElem
        /\ UNCHANGED run
     \/ \E ok \in BOOLEAN : /\ Printed(ok)
                            /\ hr' = ok
                            /\ stage' = "exit"
                            /\ UNCHANGED <<command, argList, i, module, argv>>
  /\ UNCHANGED <<vars, ifaces>>

Parse ==
  /\ stage = "parse"
  /\ ParseArgs \/ findScriptProvider
  /\ UNCHANGED <<ifaces, path, run>>

Leave(ok) ==
  /\ stage' = "exit"
  /\ hr' = ok
  /\ UNCHANGED <<command, argList, i, module, argv>>

\* May the rest of the line begin with white space?  strtok_s has cut one blank
\* behind the last word it handed out; there may be more.
LeadingBlank == BOOLEAN

\* The line is split and its provider found, or not.  !evalstring skips an empty
\* string, but not one of blanks.
Parsed ==
  /\ stage = "parse"
  /\ \/ pc = "failed" /\ Leave(FALSE)
     \/ /\ pc = "run"
        /\ \E blank \in LeadingBlank :
             IF command = "evalstring" /\ RemainingArgs = <<>> /\ ~blank
             THEN Leave(TRUE)
             ELSE stage' = "load" /\ UNCHANGED <<command, hr, argList, i, module, argv>>
  /\ UNCHANGED <<vars, ifaces, path>>

\* The ways to cut n words into arguments: where each argument ends.
Ends(n) ==
  {ends \in UNION {[1 .. k -> 1 .. n] : k \in 0 .. n} :
     /\ n > 0 => ends # <<>> /\ ends[Len(ends)] = n
     /\ \A k \in 2 .. Len(ends) : ends[k - 1] < ends[k]}

\* Words between quotes are one argument.  Which are is left open: any neighbours
\* may be.
Grouped(words) ==
  {[k \in 1 .. Len(ends) |->
      SubSeq(words, IF k = 1 THEN 1 ELSE ends[k - 1] + 1, ends[k])] :
     ends \in Ends(Len(words))}

NoWord == <<>>  \* the empty argument

\* The arguments of a command line: of an empty one the path of the program; of one
\* that begins with white space an empty first one.
CommandLineToArgvW(words, blank) ==
  CASE blank -> {<<NoWord>> \o list : list \in Grouped(words)}
    [] ~blank /\ words = <<>> -> {<< <<Executable>> >>}
    [] OTHER -> Grouped(words)

\* The provider is there or can be loaded, or the command fails.
Load ==
  /\ stage = "load"
  /\ \/ Leave(FALSE)
     \/ /\ command = "runscript"
        /\ \E blank \in LeadingBlank :
             argList' \in CommandLineToArgvW(RemainingArgs, blank)
        /\ stage' = "switches"
        /\ UNCHANGED <<command, hr, i, module, argv>>
     \/ /\ command = "evalstring"
        /\ stage' = "script"
        /\ UNCHANGED <<command, hr, argList, i, module, argv>>
  /\ UNCHANGED <<vars, ifaces, path>>

-----------------------------------------------------------------------------
(* Run of the providers                                                    *)

InRun(p, s) == stage = s /\ scriptProv = p /\ UNCHANGED <<vars, ifaces>>

\* Does an argument begin with a '-', and is it this one?
Dashed(arg) == arg # NoWord /\ Unquoted[arg[1]] \in Switchlike
Is(arg, word) == Len(arg) = 1 /\ Unquoted[arg[1]] = word

MoreSwitches == i < Len(argList) /\ Dashed(argList[i + 1])

Skip(n) == i' = i + n /\ UNCHANGED <<stage, command, hr, argList, argv>>

\* Lua knows -d, Python -m with the name of a module, Ruby nothing.
LuaSwitch ==
  /\ InRun("lua", "switches")
  /\ MoreSwitches
  /\ IF Is(argList[i + 1], "-d") THEN Skip(1) /\ UNCHANGED module ELSE Leave(FALSE)
  /\ UNCHANGED path

\* Fault: the name of the module is not skipped.
PythonSwitchShort ==
  /\ InRun("py", "switches")
  /\ MoreSwitches
  /\ IF Is(argList[i + 1], "-m") /\ i + 1 < Len(argList)
     THEN Skip(1) /\ module' = i + 2
     ELSE Leave(FALSE)
  /\ UNCHANGED path

PythonSwitch ==
  /\ InRun("py", "switches")
  /\ MoreSwitches
  /\ IF Is(argList[i + 1], "-m") /\ i + 1 < Len(argList)
     THEN Skip(2) /\ module' = i + 2
     ELSE Leave(FALSE)
  /\ UNCHANGED path

\* What is left begins with the script: look for it.
FindScript ==
  /\ i < Len(argList)
  /\ \E exists \in UtilFileExists(argList[i + 1] # NoWord) : LookAsNamed(exists)
  /\ stage' = "search"
  /\ UNCHANGED <<command, hr, argList, i, module, argv>>

\* Nothing is left.  Python runs the module without arguments, or nothing.
NoArguments(ok, next) ==
  /\ i = Len(argList)
  /\ hr' = ok
  /\ stage' = next
  /\ UNCHANGED <<path, command, argList, i, module, argv>>

SwitchesEnd ==
  \/ /\ InRun("lua", "switches")
     /\ ~MoreSwitches
     /\ FindScript \/ NoArguments(FALSE, "exit")
  \/ /\ InRun("py", "switches")
     /\ ~MoreSwitches
     /\ \/ FindScript
        \/ NoArguments(TRUE, IF module = 0 THEN "exit" ELSE "start")
  \/ /\ InRun("rb", "switches")
     /\ FindScript

Search ==
  /\ stage = "search"
  /\ UtilFindScriptFile(argList[i + 1] # NoWord)
  /\ UNCHANGED <<vars, ifaces, run>>

\* The arguments left, the first of them with the place it was found in.
ArgsForScript ==
  [n \in 1 .. Len(argList) - i |->
     [place |-> IF n = 1 THEN fullPath ELSE AsNamed, arg |-> i + n]]

ModuleArgument == <<[place |-> AsNamed, arg |-> module]>>

\* The script is there, and its name converts to ANSI, or the run fails.  Python's
\* sys.argv begins with the module if there is one; Lua's arg and Ruby's ARGV with
\* the script, which Lua compiles first.
Located ==
  /\ stage = "search"
  /\ at \in {"found", "missing"}
  /\ at' = "idle"
  /\ absent' = {}
  /\ fullPath' = AsNamed
  /\ elem' = NoElem
  /\ UNCHANGED <<str, prev, ScriptPath, heap, given>>
  /\ \/ Leave(FALSE)
     \/ /\ at = "found"
        /\ argv' = IF scriptProv = "py" /\ module # 0
                   THEN ModuleArgument \o ArgsForScript
                   ELSE ArgsForScript
        /\ stage' = "start"
        /\ UNCHANGED <<command, hr, argList, i, module>>
  /\ UNCHANGED <<vars, ifaces>>

\* The script or the module runs, unless Lua fails to compile it or to convert an
\* argument, or Python to open its file.
Start ==
  /\ stage = "start"
  /\ \/ /\ scriptProv = "lua" \/ (scriptProv = "py" /\ module = 0)
        /\ Leave(FALSE)
     \/ stage' = "script" /\ UNCHANGED <<command, hr, argList, i, module, argv>>
  /\ UNCHANGED <<vars, ifaces, path>>

-----------------------------------------------------------------------------
(* The script ends, and the command                                        *)

ScriptEnds ==
  /\ stage = "script"
  /\ \E ok \in BOOLEAN : Leave(ok)
  /\ UNCHANGED <<vars, ifaces, path>>

\* The failure message is printed, and everything the command owned freed.
Exit ==
  /\ stage = "exit"
  /\ IF pc = "prompt" THEN UNCHANGED vars ELSE Return
  /\ stage' = "prompt"
  /\ command' = "none"
  /\ hr' = TRUE
  /\ argList' = <<>>
  /\ i' = 0
  /\ module' = 0
  /\ argv' = <<>>
  /\ caller' = NoClient
  /\ UNCHANGED <<path, DebugClient, iface, references>>

\* The extension is unloaded and loaded again: a new client of its own, and the
\* data of the DLL as at first.
DebugExtensionUninitialize ==
  /\ stage = "prompt"
  /\ DebugClient # NoClient
  /\ MayLeave(DebugClient)
  /\ releaseDbgEngIfaces
  /\ at' = "idle"
  /\ ScriptPath' = NoElem
  /\ heap' = <<>>
  /\ given' = <<>>
  /\ UNCHANGED <<vars, run, caller, str, elem, prev, fullPath, absent>>

DebugExtensionInitialize ==
  /\ stage = "prompt"
  /\ DebugClient = NoClient
  /\ LET created == [references EXCEPT ![OwnClient]["DebugClient"] = @ + 1] IN
     acquireDbgEngIfaces(OwnClient, "none", iface, created)
  /\ UNCHANGED <<vars, run, path, caller>>

\* The steps a command takes by itself.
Continue ==
  \/ ScriptPathRuns
  \/ Parse \/ Parsed \/ Load
  \/ LuaSwitch \/ PythonSwitch \/ SwitchesEnd \/ Search \/ Located \/ Start
  \/ Exit

HostNext ==
  \/ runscript \/ evalstring \/ scriptpath
  \/ Continue
  \/ ScriptEnds
  \/ DebugExtensionUninitialize \/ DebugExtensionInitialize

HostSpec == HostInit /\ [][HostNext]_hostvars

\* One thread runs the host's code: what it can do next it does.  A script may
\* run for ever, and nobody has to enter a command.
FairHostSpec == HostSpec /\ WF_hostvars(Continue)

-----------------------------------------------------------------------------
(* Properties                                                              *)

\* The first n of Run's arguments are the provider's: complete switches.
ProviderSwitches(n) ==
  CASE scriptProv = "lua" -> \A k \in 1 .. n : Is(argList[k], "-d")
    [] scriptProv = "py" -> n % 2 = 0 /\ \A k \in 1 .. n : k % 2 = 1 => Is(argList[k], "-m")
    [] scriptProv = "rb" -> n = 0

\* "[provider args] <scriptfile> [script args]" (dllmain.cpp, runscript): after
\* the provider's own switches the first argument is the script, in the place it was
\* found in, and every argument after it reaches the script once and in order, even
\* one that looks like a switch; a module of Python's comes before them.  The
\* arguments are the words of the rest of the line, none of them lost: a line that
\* leaves an empty first argument runs no script.
ArgumentsWhole ==
  stage \in {"start", "script"} /\ command = "runscript" =>
    /\ argList \in CommandLineToArgvW(RemainingArgs, FALSE)
    /\ \E n \in 0 .. Len(argList) :
         /\ ProviderSwitches(n)
         /\ n < Len(argList) /\ scriptProv # "rb" => ~Dashed(argList[n + 1])
         /\ module = IF scriptProv = "py" THEN n ELSE 0
         /\ LET own == IF module = 0 THEN 0 ELSE 1 IN
            /\ Len(argv) = IF n = Len(argList) THEN 0 ELSE own + (Len(argList) - n)
            /\ \A k \in 1 .. Len(argv) :
                 /\ argv[k].arg = IF k <= own THEN module ELSE n + (k - own)
                 /\ argv[k].place # AsNamed => k = own + 1

\* A command comes to its end or to the script it runs: no loop over the line, the
\* switches, or the list of directories goes on for ever, whichever call fails.
CommandEnds == stage \notin {"prompt", "script"} ~> stage \in {"prompt", "script"}
=============================================================================
