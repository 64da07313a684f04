-------------------------- MODULE HostCommandProofs --------------------------
(***************************************************************************)
(* Proofs about HostCommand, for every set of clients, words, lines and    *)
(* directories, and whatever is refused or fails.                          *)
(***************************************************************************)
EXTENDS HostCommand, CommandLineProofs, ScriptPathProofs, SequenceTheorems

-----------------------------------------------------------------------------
(* The command line                                                        *)

\* The host's commands split their lines as CommandLine has it.
LEMMA StepSplits == [HostNext]_hostvars => [Next]_vars
<1> SUFFICES ASSUME [HostNext]_hostvars PROVE [Next]_vars
  OBVIOUS
<1>1. CASE runscript \/ evalstring
  BY <1>1 DEF runscript, evalstring, ParsedCommand, Next
<1>2. CASE scriptpath
  BY <1>2 DEF scriptpath
<1>3. CASE Continue
  <2>1. CASE ScriptPathRuns
    BY <2>1 DEF ScriptPathRuns
  <2>2. CASE Parse
    BY <2>2 DEF Parse, Next
  <2>3. CASE Parsed \/ Load
    BY <2>3 DEF Parsed, Load
  <2>4. CASE LuaSwitch \/ PythonSwitch \/ SwitchesEnd
    BY <2>4 DEF LuaSwitch, PythonSwitch, SwitchesEnd, InRun
  <2>5. CASE Search \/ Located \/ Start
    BY <2>5 DEF Search, Located, Start
  <2>6. CASE Exit
    BY <2>6 DEF Exit, Next
  <2> QED
    BY <1>3, <2>1, <2>2, <2>3, <2>4, <2>5, <2>6 DEF Continue
<1>4. CASE ScriptEnds
  BY <1>4 DEF ScriptEnds
<1>5. CASE DebugExtensionUninitialize \/ DebugExtensionInitialize
  BY <1>5 DEF DebugExtensionUninitialize, DebugExtensionInitialize
<1>6. CASE UNCHANGED hostvars
  BY <1>6 DEF hostvars
<1> QED
  BY <1>1, <1>2, <1>3, <1>4, <1>5, <1>6 DEF HostNext

\* A whole command, from the prompt to the script's end, implements the parser of
\* parseArgs: each of its steps is one of the parser's or leaves the parser alone.
THEOREM HostSplitsLines == HostSpec => Spec
<1>1. HostInit => Init
  BY DEF HostInit
<1> QED
  BY <1>1, StepSplits, PTL DEF HostSpec, Spec

-----------------------------------------------------------------------------
(* The interfaces                                                          *)

\* What is kept is of one client, and complete up to what that client refused.
Kept ==
  /\ \A x \in Interface : iface[x] \in {DebugClient, NoClient}
  /\ iface["DebugControl"] = DebugClient \/ "DebugControl" \in AcquireFailure

Calling ==
  IF stage = "prompt" THEN caller = NoClient ELSE caller \in Client /\ DebugClient = caller

IfaceInv ==
  /\ InterfacesTypeOK
  /\ Kept
  /\ Calling
  /\ ReferencesBalanced

LEMMA Interfaces ==
  /\ Interface = {"DebugControl", "DebugSysObj", "DebugSymbols", "DebugAdvanced", "DebugDataSpaces"}
  /\ "DebugClient" \notin Interface
BY DEF Interface, QueryOrder

LEMMA ObtainedFirst ==
  ASSUME NEW refused
  PROVE  /\ Obtained(refused) \subseteq Interface
         /\ refused # "DebugControl" => "DebugControl" \in Obtained(refused)
BY DEF Obtained, Interface, QueryOrder

\* Nothing is held of any client, and nothing is counted, after a release.
LEMMA ReleasedAll ==
  ASSUME IfaceInv
  PROVE  /\ Released \in [AnyClient -> [Counted -> Int]]
         /\ \A c \in AnyClient : \A x \in Interface : Released[c][x] = 0
         /\ Released[OwnClient]["DebugClient"] = 0
         /\ \A c \in Client : Released[c]["DebugClient"] <= 0
<1>1. Interface \subseteq Counted /\ "DebugClient" \in Counted /\ "DebugClient" \notin Interface
  BY Interfaces DEF Counted
<1>2. OwnClient \in AnyClient /\ Client \subseteq AnyClient /\ OwnClient \notin Client
  BY DebuggerInterfacesAssumption, Zenon DEF AnyClient, DebuggerInterfacesAssumption
<1>3. \A c \in AnyClient : \A x \in Interface : references[c][x] = IF iface[x] = c THEN 1 ELSE 0
  BY DEF IfaceInv, ReferencesBalanced
<1>4. references[OwnClient]["DebugClient"] = IF DebugClient = OwnClient THEN 1 ELSE 0
  BY DEF IfaceInv, ReferencesBalanced
<1>5. \A c \in Client : references[c]["DebugClient"] <= 0
  BY DEF IfaceInv, ReferencesBalanced
<1>6. references \in [AnyClient -> [Counted -> Int]]
  BY DEF IfaceInv, InterfacesTypeOK
<1>7. \A c \in AnyClient : \A x \in Interface : Released[c][x] = 0
  BY <1>1, <1>3, <1>6 DEF Released
<1>8. Released[OwnClient]["DebugClient"] = 0
  BY <1>1, <1>2, <1>4, <1>6 DEF Released
<1>9. \A c \in Client : Released[c]["DebugClient"] <= 0
  BY <1>1, <1>2, <1>5, <1>6 DEF Released
<1>10. Released \in [AnyClient -> [Counted -> Int]]
  BY <1>6 DEF Released
<1> QED
  BY <1>7, <1>8, <1>9, <1>10

\* Acquiring from a client when nothing is held and nothing counted.
LEMMA Acquires ==
  ASSUME NEW client \in AnyClient, NEW refused \in AcquireFailure \cup {"none"}, NEW counts,
         acquireDbgEngIfaces(client, refused, NoneHeld, counts),
         counts \in [AnyClient -> [Counted -> Int]],
         \A c \in AnyClient : \A x \in Interface : counts[c][x] = 0,
         counts[OwnClient]["DebugClient"] = IF client = OwnClient THEN 1 ELSE 0,
         \A c \in Client : counts[c]["DebugClient"] <= 0
  PROVE  /\ DebugClient' = client
         /\ iface' \in [Interface -> AnyClient \cup {NoClient}]
         /\ references' \in [AnyClient -> [Counted -> Int]]
         /\ Kept'
         /\ ReferencesBalanced'
<1> DEFINE got == Obtained(refused)
<1>1. got \subseteq Interface /\ (refused # "DebugControl" => "DebugControl" \in got)
  BY ObtainedFirst
<1>2. Interface \subseteq Counted /\ "DebugClient" \in Counted /\ "DebugClient" \notin Interface
      /\ "DebugControl" \in Interface
  BY Interfaces DEF Counted
<1>3. NoClient \notin AnyClient /\ OwnClient \in AnyClient /\ Client \subseteq AnyClient
  BY DebuggerInterfacesAssumption, Zenon DEF AnyClient, DebuggerInterfacesAssumption
<1>4. DebugClient' = client
  BY DEF acquireDbgEngIfaces
<1>5. iface' = [x \in Interface |-> IF x \in got THEN client ELSE NoClient]
  BY <1>1 DEF acquireDbgEngIfaces, NoneHeld
<1>6. references' = [counts EXCEPT ![client] = [x \in Counted |-> @[x] + IF x \in got THEN 1 ELSE 0]]
  BY DEF acquireDbgEngIfaces
<1>7. "none" # "DebugControl"
  OBVIOUS
<1> HIDE DEF got
<1>8. iface' \in [Interface -> AnyClient \cup {NoClient}]
  BY <1>5
<1>9. references' \in [AnyClient -> [Counted -> Int]]
  <2>1. counts[client] \in [Counted -> Int]
    OBVIOUS
  <2>2. [x \in Counted |-> counts[client][x] + IF x \in got THEN 1 ELSE 0] \in [Counted -> Int]
    BY <2>1
  <2> QED
    BY <1>6, <2>2
<1>10. Kept'
  BY <1>1, <1>2, <1>4, <1>5, <1>7 DEF Kept
<1>11. \A c \in AnyClient : \A x \in Interface : references'[c][x] = IF iface'[x] = c THEN 1 ELSE 0
  <2> SUFFICES ASSUME NEW c \in AnyClient, NEW x \in Interface
               PROVE  references'[c][x] = IF iface'[x] = c THEN 1 ELSE 0
    OBVIOUS
  <2>1. counts[c][x] = 0 /\ x \in Counted
    BY <1>2
  <2>2. CASE c = client
    BY <2>1, <2>2, <1>3, <1>5, <1>6
  <2>3. CASE c # client
    BY <2>1, <2>3, <1>3, <1>5, <1>6
  <2> QED
    BY <2>2, <2>3
<1>12. \A c \in AnyClient : references'[c]["DebugClient"] = counts[c]["DebugClient"]
  <2> SUFFICES ASSUME NEW c \in AnyClient
               PROVE  references'[c]["DebugClient"] = counts[c]["DebugClient"]
    OBVIOUS
  <2>1. "DebugClient" \notin got /\ counts[c]["DebugClient"] \in Int
    BY <1>1, <1>2
  <2> QED
    BY <2>1, <1>2, <1>6
<1>13. ReferencesBalanced'
  BY <1>3, <1>4, <1>11, <1>12 DEF ReferencesBalanced
<1> QED
  BY <1>4, <1>8, <1>9, <1>10, <1>13

LEMMA IfaceInitially == HostInit => IfaceInv
<1> SUFFICES ASSUME HostInit PROVE IfaceInv
  OBVIOUS
<1>1. NoClient \notin AnyClient /\ OwnClient \in AnyClient /\ OwnClient \notin Client
      /\ Client \subseteq AnyClient
  BY DebuggerInterfacesAssumption, Zenon DEF AnyClient, DebuggerInterfacesAssumption
<1>2. Interface \subseteq Counted /\ "DebugClient" \in Counted /\ "DebugControl" \in Interface
  BY Interfaces DEF Counted
<1>3. InterfacesInit /\ stage = "prompt"
  BY DEF HostInit
<1>4. /\ DebugClient = OwnClient
      /\ iface = [x \in Interface |-> OwnClient]
      /\ references = [c \in AnyClient |-> [x \in Counted |-> IF c = OwnClient THEN 1 ELSE 0]]
      /\ caller = NoClient
  BY <1>3 DEF InterfacesInit
<1>5. references \in [AnyClient -> [Counted -> Int]]
  <2>1. \A c \in AnyClient : [x \in Counted |-> IF c = OwnClient THEN 1 ELSE 0] \in [Counted -> Int]
    OBVIOUS
  <2> QED
    BY <1>4, <2>1
<1>6. InterfacesTypeOK
  BY <1>1, <1>4, <1>5 DEF InterfacesTypeOK
<1>7. Kept /\ Calling
  BY <1>1, <1>2, <1>3, <1>4 DEF Kept, Calling
<1>8. ReferencesBalanced
  BY <1>1, <1>2, <1>4 DEF ReferencesBalanced
<1> QED
  BY <1>6, <1>7, <1>8 DEF IfaceInv

\* A step that leaves the interfaces and the caller alone, within a command or
\* between two.
LEMMA IfaceUntouched ==
  ASSUME IfaceInv, UNCHANGED ifaces, (stage = "prompt") <=> (stage' = "prompt")
  PROVE  IfaceInv'
<1>1. UNCHANGED <<DebugClient, iface, references, caller>>
  BY DEF ifaces
<1>2. InterfacesTypeOK'
  BY <1>1 DEF IfaceInv, InterfacesTypeOK
<1>3. Kept'
  BY <1>1 DEF IfaceInv, Kept
<1>4. Calling'
  BY <1>1 DEF IfaceInv, Calling
<1>5. ReferencesBalanced'
  BY <1>1 DEF IfaceInv, ReferencesBalanced
<1> QED
  BY <1>2, <1>3, <1>4, <1>5 DEF IfaceInv

LEMMA EnterKeeps ==
  ASSUME IfaceInv, NEW which, NEW next \in {"parse", "path"}, Enter(which, next)
  PROVE  IfaceInv'
<1>1. PICK client \in Client, refused \in AcquireFailure \cup {"none"} :
        /\ caller' = client
        /\ reAcquireIfacesIfNeeded(client, refused)
        /\ stage' = IF refused = "none" THEN next ELSE "exit"
  BY DEF Enter
<1>2. stage' # "prompt"
  BY <1>1
<1>3. client \in AnyClient /\ OwnClient \notin Client
  BY DebuggerInterfacesAssumption, Zenon DEF AnyClient, DebuggerInterfacesAssumption
<1>4. CASE client = DebugClient
  <2>1. UNCHANGED <<DebugClient, iface, references>>
    BY <1>1, <1>4 DEF reAcquireIfacesIfNeeded
  <2>2. InterfacesTypeOK'
    BY <2>1, <1>1 DEF IfaceInv, InterfacesTypeOK
  <2>3. Kept'
    BY <2>1 DEF IfaceInv, Kept
  <2>4. ReferencesBalanced'
    BY <2>1 DEF IfaceInv, ReferencesBalanced
  <2>5. Calling'
    BY <1>1, <1>2, <1>4, <2>1 DEF Calling
  <2> QED
    BY <2>2, <2>3, <2>4, <2>5 DEF IfaceInv
<1>5. CASE client # DebugClient
  <2>1. acquireDbgEngIfaces(client, refused, NoneHeld, Released)
    BY <1>1, <1>5 DEF reAcquireIfacesIfNeeded
  <2>2. client # OwnClient
    BY <1>3
  <2>3. /\ DebugClient' = client
        /\ iface' \in [Interface -> AnyClient \cup {NoClient}]
        /\ references' \in [AnyClient -> [Counted -> Int]]
        /\ Kept'
        /\ ReferencesBalanced'
    BY <2>1, <2>2, <1>3, ReleasedAll, Acquires
  <2>4. InterfacesTypeOK'
    BY <2>3, <1>1, <1>3 DEF InterfacesTypeOK
  <2>5. Calling'
    BY <2>3, <1>1, <1>2 DEF Calling
  <2> QED
    BY <2>3, <2>4, <2>5 DEF IfaceInv
<1> QED
  BY <1>4, <1>5

LEMMA ExitKeeps ==
  ASSUME IfaceInv, Exit
  PROVE  IfaceInv'
<1>1. UNCHANGED <<DebugClient, iface, references>> /\ caller' = NoClient /\ stage' = "prompt"
  BY DEF Exit
<1>2. InterfacesTypeOK'
  BY <1>1 DEF IfaceInv, InterfacesTypeOK
<1>3. Kept'
  BY <1>1 DEF IfaceInv, Kept
<1>4. Calling'
  BY <1>1 DEF Calling
<1>5. ReferencesBalanced'
  BY <1>1 DEF IfaceInv, ReferencesBalanced
<1> QED
  BY <1>2, <1>3, <1>4, <1>5 DEF IfaceInv

LEMMA UninitializeKeeps ==
  ASSUME IfaceInv, DebugExtensionUninitialize
  PROVE  IfaceInv'
<1>1. references' = Released /\ DebugClient' = NoClient /\ iface' = NoneHeld
      /\ stage = "prompt" /\ UNCHANGED <<stage, caller>>
  BY DEF DebugExtensionUninitialize, releaseDbgEngIfaces, run
<1>2. NoClient \notin AnyClient /\ OwnClient \in AnyClient
  BY DebuggerInterfacesAssumption, Zenon DEF AnyClient, DebuggerInterfacesAssumption
<1>3. "DebugControl" \in Interface
  BY Interfaces
<1>4. \A x \in Interface : iface'[x] = NoClient
  BY <1>1 DEF NoneHeld
<1>5. InterfacesTypeOK'
  BY <1>1, ReleasedAll DEF IfaceInv, InterfacesTypeOK, NoneHeld
<1>6. Kept'
  BY <1>1, <1>3, <1>4 DEF Kept
<1>7. Calling'
  BY <1>1 DEF IfaceInv, Calling
<1>8. ReferencesBalanced'
  BY <1>1, <1>2, <1>4, ReleasedAll DEF ReferencesBalanced
<1> QED
  BY <1>5, <1>6, <1>7, <1>8 DEF IfaceInv

LEMMA InitializeKeeps ==
  ASSUME IfaceInv, DebugExtensionInitialize
  PROVE  IfaceInv'
<1> DEFINE created == [references EXCEPT ![OwnClient]["DebugClient"] = @ + 1]
<1>1. /\ acquireDbgEngIfaces(OwnClient, "none", iface, created)
      /\ stage = "prompt" /\ DebugClient = NoClient /\ UNCHANGED <<stage, caller>>
  BY DEF DebugExtensionInitialize, run
<1>2. /\ OwnClient \in AnyClient /\ NoClient \notin AnyClient /\ Client \subseteq AnyClient
      /\ OwnClient \notin Client
  BY DebuggerInterfacesAssumption, Zenon DEF AnyClient, DebuggerInterfacesAssumption
<1>3. "DebugClient" \in Counted /\ Interface \subseteq Counted /\ "DebugClient" \notin Interface
  BY Interfaces DEF Counted
<1>4. iface = NoneHeld
  BY <1>1 DEF IfaceInv, InterfacesTypeOK, Kept, NoneHeld
<1>5. references \in [AnyClient -> [Counted -> Int]]
  BY DEF IfaceInv, InterfacesTypeOK
<1>6. created \in [AnyClient -> [Counted -> Int]]
  BY <1>2, <1>3, <1>5
<1>7. \A c \in AnyClient : \A x \in Counted :
        created[c][x] = IF c = OwnClient /\ x = "DebugClient" THEN references[c][x] + 1
                        ELSE references[c][x]
  BY <1>2, <1>3, <1>5
<1>8. \A c \in AnyClient : \A x \in Interface : references[c][x] = 0
  BY <1>2, <1>4 DEF IfaceInv, ReferencesBalanced, NoneHeld
<1>9. references[OwnClient]["DebugClient"] = 0 /\ \A c \in Client : references[c]["DebugClient"] <= 0
  BY <1>1, <1>2 DEF IfaceInv, ReferencesBalanced
<1> HIDE DEF created
<1>10. /\ \A c \in AnyClient : \A x \in Interface : created[c][x] = 0
       /\ created[OwnClient]["DebugClient"] = 1
       /\ \A c \in Client : created[c]["DebugClient"] <= 0
  BY <1>2, <1>3, <1>7, <1>8, <1>9
<1>11. /\ DebugClient' = OwnClient
       /\ iface' \in [Interface -> AnyClient \cup {NoClient}]
       /\ references' \in [AnyClient -> [Counted -> Int]]
       /\ Kept'
       /\ ReferencesBalanced'
  BY <1>1, <1>2, <1>4, <1>6, <1>10, Acquires
<1>12. InterfacesTypeOK'
  BY <1>1, <1>2, <1>11 DEF IfaceInv, InterfacesTypeOK
<1>13. Calling'
  BY <1>1 DEF IfaceInv, Calling
<1> QED
  BY <1>11, <1>12, <1>13 DEF IfaceInv

\* The other steps of a command go from one of its stages to another.
LEMMA ContinueWithin ==
  ASSUME Continue, ~Exit
  PROVE  UNCHANGED ifaces /\ stage # "prompt" /\ stage' # "prompt"
<1>1. CASE ScriptPathRuns
  BY <1>1 DEF ScriptPathRuns, run
<1>2. CASE Parse
  BY <1>2 DEF Parse, run
<1>3. CASE Parsed
  BY <1>3 DEF Parsed, Leave
<1>4. CASE Load
  BY <1>4 DEF Load, Leave
<1>5. CASE LuaSwitch
  BY <1>5 DEF LuaSwitch, InRun, Leave, Skip
<1>6. CASE PythonSwitch
  BY <1>6 DEF PythonSwitch, InRun, Leave, Skip
<1>7. CASE SwitchesEnd
  BY <1>7 DEF SwitchesEnd, InRun, FindScript, NoArguments
<1>8. CASE Search
  BY <1>8 DEF Search, run
<1>9. CASE Located
  BY <1>9 DEF Located, Leave
<1>10. CASE Start
  BY <1>10 DEF Start, Leave
<1> QED
  BY <1>1, <1>2, <1>3, <1>4, <1>5, <1>6, <1>7, <1>8, <1>9, <1>10 DEF Continue

LEMMA IfaceStep == IfaceInv /\ [HostNext]_hostvars => IfaceInv'
<1> SUFFICES ASSUME IfaceInv, [HostNext]_hostvars PROVE IfaceInv'
  OBVIOUS
<1>1. CASE runscript \/ evalstring \/ scriptpath
  BY <1>1, EnterKeeps DEF runscript, evalstring, scriptpath, ParsedCommand
<1>2. CASE Continue
  BY <1>2, ExitKeeps, ContinueWithin, IfaceUntouched
<1>3. CASE ScriptEnds
  BY <1>3, IfaceUntouched DEF ScriptEnds, Leave
<1>4. CASE DebugExtensionUninitialize \/ DebugExtensionInitialize
  BY <1>4, UninitializeKeeps, InitializeKeeps
<1>5. CASE UNCHANGED hostvars
  BY <1>5, IfaceUntouched DEF hostvars, run
<1> QED
  BY <1>1, <1>2, <1>3, <1>4, <1>5 DEF HostNext

LEMMA IfaceInductive == HostSpec => []IfaceInv
<1> QED
  BY IfaceInitially, IfaceStep, PTL DEF HostSpec

\* A command works with its caller's interfaces and with no other's, whatever
\* clients refuse (acquireDbgEngIfaces, reAcquireIfacesIfNeeded).
THEOREM InterfacesAreTheCallers == HostSpec => []InterfacesOfCaller
<1>1. IfaceInv => InterfacesOfCaller
  BY DebuggerInterfacesAssumption
  DEF IfaceInv, Kept, Calling, InterfacesOfCaller, DebuggerInterfacesAssumption
<1> QED
  BY <1>1, IfaceInductive, PTL

\* References are held exactly for the interfaces kept (releaseDbgEngIfaces,
\* acquireDbgEngIfaces).
THEOREM ReferencesAreBalanced == HostSpec => []ReferencesBalanced
<1>1. IfaceInv => ReferencesBalanced
  BY DEF IfaceInv
<1> QED
  BY <1>1, IfaceInductive, PTL

-----------------------------------------------------------------------------
(* What CommandLineProofs shows of the parser holds of the commands        *)

\* The parts the host has split a line into are the line (ParseArgs).
THEOREM HostLineSplit == HostSpec => []SplitsLine
BY HostSplitsLines, LineSplit, PTL

\* The provider a command runs is the one its line names (findScriptProvider).
THEOREM HostProviderNamed == HostSpec => []RunsNamedProvider
BY HostSplitsLines, NamedProviderRuns, PTL

-----------------------------------------------------------------------------
(* The list of directories                                                 *)

\* Only !scriptpath and the search of a script are ever in the middle of it.
StageInv ==
  /\ stage = "path" => at \in {"free", "split", "print"}
  /\ stage = "search" => at \in {"search", "check", "found", "missing"}
  /\ stage \notin {"path", "search"} => at = "idle"

HostPathInv == PathInv /\ StageInv

LEMMA PathInitially == HostInit => HostPathInv
<1> SUFFICES ASSUME HostInit PROVE HostPathInv
  OBVIOUS
<1>1. PathInit /\ stage = "prompt"
  BY DEF HostInit
<1>2. at = "idle" /\ heap = <<>> /\ given = <<>> /\ ScriptPath = NoElem /\ str = <<>>
  BY <1>1 DEF PathInit
<1>3. PathInv
  BY <1>2, NoList DEF NothingListed
<1> QED
  BY <1>1, <1>2, <1>3 DEF HostPathInv, StageInv

\* A step that does not touch the list.
LEMMA HostPathUntouched ==
  ASSUME HostPathInv, UNCHANGED path,
         stage' = stage \/ {stage, stage'} \cap {"path", "search"} = {}
  PROVE  HostPathInv'
<1>1. at' = at
  BY DEF path
<1> QED
  BY <1>1, PathUntouched DEF HostPathInv, StageInv

LEMMA ScriptPathRunsKeeps == ASSUME HostPathInv, ScriptPathRuns PROVE HostPathInv'
<1>1. CASE (FreeElem \/ Freed \/ SplitAtComma \/ CopyTrailer \/ PrintElem) /\ UNCHANGED run
  <2>1. PathInv'
    BY <1>1, FreeElemKeeps, FreedKeeps, SplitAtCommaKeeps, CopyTrailerKeeps, PrintElemKeeps
    DEF HostPathInv
  <2>2. stage = "path" /\ stage' = stage
    BY <1>1 DEF ScriptPathRuns, run
  <2>3. at' \in {"free", "split", "print"}
    BY <1>1 DEF FreeElem, Freed, SplitAtComma, CopyTrailer, PrintElem
  <2> QED
    BY <2>1, <2>2, <2>3 DEF HostPathInv, StageInv
<1>2. ASSUME NEW ok \in BOOLEAN, Printed(ok), stage' = "exit" PROVE HostPathInv'
  <2>1. PathInv'
    BY <1>2, PrintedKeeps DEF HostPathInv
  <2>2. at' = "idle"
    BY <1>2 DEF Printed
  <2> QED
    BY <1>2, <2>1, <2>2 DEF HostPathInv, StageInv
<1> QED
  BY <1>1, <1>2 DEF ScriptPathRuns

LEMMA ScriptpathKeeps == ASSUME HostPathInv, scriptpath PROVE HostPathInv'
<1>1. stage = "prompt" /\ at = "idle" /\ PathInv
  BY DEF scriptpath, Enter, HostPathInv, StageInv
<1>2. stage' = IF hr' THEN "path" ELSE "exit"
  BY DEF scriptpath, Enter
<1>3. CASE ~hr'
  BY <1>1, <1>2, <1>3, HostPathUntouched DEF scriptpath
<1>4. CASE hr' /\ PrintPath
  <2>1. PathInv' /\ at' = "print"
    BY <1>1, <1>4, PrintPathKeeps DEF PrintPath
  <2> QED
    BY <1>2, <1>4, <2>1 DEF HostPathInv, StageInv
<1>5. ASSUME hr', NEW arg \in PathArgument, SetPath(arg) PROVE HostPathInv'
  <2>1. PathInv' /\ at' = "free"
    BY <1>1, <1>5, SetPathKeeps DEF SetPath
  <2> QED
    BY <1>2, <1>5, <2>1 DEF HostPathInv, StageInv
<1> QED
  BY <1>3, <1>4, <1>5 DEF scriptpath

LEMMA SwitchesEndKeeps == ASSUME HostPathInv, SwitchesEnd PROVE HostPathInv'
<1>1. stage = "switches"
  BY DEF SwitchesEnd, InRun
<1>2. at = "idle" /\ PathInv
  BY <1>1 DEF HostPathInv, StageInv
<1>3. CASE FindScript
  <2>1. PICK exists \in BOOLEAN : stage' = "search" /\ LookAsNamed(exists)
    BY <1>3 DEF FindScript, UtilFileExists
  <2>2. PathInv' /\ at' \in {"search", "check"}
    BY <1>2, <2>1, LookAsNamedKeeps DEF LookAsNamed
  <2> QED
    BY <2>1, <2>2 DEF HostPathInv, StageInv
<1>4. ASSUME NEW ok, NEW next \in {"exit", "start"}, NoArguments(ok, next) PROVE HostPathInv'
  BY <1>1, <1>4, HostPathUntouched DEF NoArguments
<1> QED
  BY <1>3, <1>4 DEF SwitchesEnd

LEMMA SearchKeeps == ASSUME HostPathInv, Search PROVE HostPathInv'
<1>1. stage = "search" /\ stage' = "search" /\ \E named \in BOOLEAN : UtilFindScriptFile(named)
  BY DEF Search, run
<1>2. PathInv' /\ at' \in {"search", "check", "found", "missing"}
  BY <1>1, LookInPathKeeps, LookAgainKeeps, PathSearchedKeeps
  DEF UtilFindScriptFile, UtilFileExists, HostPathInv, LookInPath, LookAgain, PathSearched
<1> QED
  BY <1>1, <1>2 DEF HostPathInv, StageInv

LEMMA LocatedKeeps == ASSUME HostPathInv, Located PROVE HostPathInv'
<1>1. at \in {"found", "missing"} /\ at' = "idle" /\ UNCHANGED <<heap, ScriptPath, given, str>>
  BY DEF Located
<1>2. stage' \in {"exit", "start"}
  BY DEF Located, Leave
<1>3. PathInv'
  BY <1>1, SearchEndKeeps DEF HostPathInv
<1> QED
  BY <1>1, <1>2, <1>3 DEF HostPathInv, StageInv

LEMMA PathStep == HostPathInv /\ [HostNext]_hostvars => HostPathInv'
<1> SUFFICES ASSUME HostPathInv, [HostNext]_hostvars PROVE HostPathInv'
  OBVIOUS
<1>1. CASE runscript \/ evalstring
  <2>1. UNCHANGED path /\ stage = "prompt" /\ stage' \in {"parse", "exit"}
    BY <1>1 DEF runscript, evalstring, ParsedCommand, Enter
  <2> QED
    BY <2>1, HostPathUntouched
<1>2. CASE scriptpath
  BY <1>2, ScriptpathKeeps
<1>3. CASE ScriptPathRuns \/ SwitchesEnd \/ Search \/ Located
  BY <1>3, ScriptPathRunsKeeps, SwitchesEndKeeps, SearchKeeps, LocatedKeeps
<1>4. CASE Parse
  BY <1>4, HostPathUntouched DEF Parse, run
<1>5. CASE Parsed \/ Load \/ Start \/ ScriptEnds
  <2>1. /\ UNCHANGED path
        /\ stage \in {"parse", "load", "start", "script"}
        /\ stage' \in {"load", "switches", "script", "exit"}
    BY <1>5 DEF Parsed, Load, Start, ScriptEnds, Leave
  <2> QED
    BY <2>1, HostPathUntouched
<1>6. CASE LuaSwitch \/ PythonSwitch
  <2>1. UNCHANGED path /\ stage = "switches" /\ stage' \in {"switches", "exit"}
    BY <1>6 DEF LuaSwitch, PythonSwitch, InRun, Leave, Skip
  <2> QED
    BY <2>1, HostPathUntouched
<1>7. CASE Exit
  <2>1. UNCHANGED path /\ stage = "exit" /\ stage' = "prompt"
    BY <1>7 DEF Exit
  <2> QED
    BY <2>1, HostPathUntouched
<1>8. CASE DebugExtensionUninitialize
  <2>1. /\ at' = "idle" /\ ScriptPath' = NoElem /\ heap' = <<>> /\ given' = <<>>
        /\ str' = str /\ stage = "prompt" /\ stage' = stage
    BY <1>8 DEF DebugExtensionUninitialize, run
  <2>2. str' \in Seq(Directory)
    BY <2>1 DEF HostPathInv, PathInv, ArgInv
  <2>3. NothingListed' => PathInv'
    BY NoList, PTL
  <2> QED
    BY <2>1, <2>2, <2>3 DEF NothingListed, HostPathInv, StageInv
<1>9. CASE DebugExtensionInitialize
  BY <1>9, HostPathUntouched DEF DebugExtensionInitialize, run
<1>10. CASE UNCHANGED hostvars
  BY <1>10, HostPathUntouched DEF hostvars, run
<1> QED
  BY <1>1, <1>2, <1>3, <1>4, <1>5, <1>6, <1>7, <1>8, <1>9, <1>10 DEF HostNext, Continue

LEMMA PathInductive == HostSpec => []HostPathInv
<1> QED
  BY PathInitially, PathStep, PTL DEF HostSpec

\* The list is the last argument of !scriptpath part by part, and nothing else is
\* allocated, for arguments of any length (scriptpath).
THEOREM ListIsTheArgument == HostSpec => []PathIsArgument
<1>1. HostPathInv => PathIsArgument
  BY ListIsArgument DEF HostPathInv
<1> QED
  BY <1>1, PathInductive, PTL

\* A search of a list of any length finds the first place that has the script,
\* while files come and go (UtilFindScriptFile).
THEOREM FirstIsFoundAlways == HostSpec => []FoundFirst
<1>1. HostPathInv => FoundFirst
  BY FirstIsFound DEF HostPathInv
<1> QED
  BY <1>1, PathInductive, PTL

-----------------------------------------------------------------------------
(* The arguments                                                           *)

LuaSwitches == module = 0 /\ \A k \in 1 .. i : Is(argList[k], "-d")
PySwitches == i % 2 = 0 /\ (\A k \in 1 .. i : k % 2 = 1 => Is(argList[k], "-m")) /\ module = i

\* Run has the arguments of the rest of the line.  When the first is empty it has
\* taken none of them.
Cut ==
  \E blank \in BOOLEAN :
    /\ argList \in CommandLineToArgvW(RemainingArgs, blank)
    /\ blank => i = 0

\* The arguments Run has taken are complete switches of the provider it is of.
Switched ==
  /\ Cut
  /\ i \in 0 .. Len(argList)
  /\ scriptProv = "lua" => LuaSwitches
  /\ scriptProv = "py" => PySwitches
  /\ scriptProv = "rb" => i = 0 /\ module = 0

Languages == {"lua", "py", "rb"}

\* The first argument left is no switch.
ScriptNext ==
  /\ scriptProv \in Languages
  /\ i < Len(argList)
  /\ scriptProv # "rb" => ~Dashed(argList[i + 1])

\* No file of an empty name was found.
ScriptNamed == at = "found" => argList[i + 1] # NoWord

Own == IF module = 0 THEN 0 ELSE 1

\* The script has the arguments left, after the module's name, or a module has none.
HandedOver ==
  /\ scriptProv \in Languages
  /\ argList \in CommandLineToArgvW(RemainingArgs, FALSE)
  /\ i < Len(argList) /\ scriptProv # "rb" => ~Dashed(argList[i + 1])
  /\ Len(argv) = IF i = Len(argList) THEN 0 ELSE Own + (Len(argList) - i)
  /\ \A k \in 1 .. Len(argv) :
       /\ argv[k].arg = IF k <= Own THEN module ELSE i + (k - Own)
       /\ argv[k].place # AsNamed => k = Own + 1

ArgsInv ==
  /\ stage \in {"prompt", "parse", "path", "load"} => i = 0 /\ module = 0 /\ argv = <<>>
  /\ stage \in {"switches", "search"} => argv = <<>>
  /\ stage \in {"switches", "search", "start"} => command = "runscript"
  /\ stage \in {"switches", "search", "start", "script"} /\ command = "runscript" => Switched
  /\ stage = "search" => ScriptNext /\ ScriptNamed
  /\ stage \in {"start", "script"} /\ command = "runscript" => HandedOver

LEMMA HandedOverWhole == ArgsInv => ArgumentsWhole
<1> SUFFICES ASSUME ArgsInv, stage \in {"start", "script"}, command = "runscript"
             PROVE  ArgumentsWhole
  BY DEF ArgumentsWhole
<1>1. Switched /\ HandedOver
  BY DEF ArgsInv
<1>2. scriptProv \in Languages
  BY <1>1 DEF HandedOver
<1>3. ProviderSwitches(i) /\ module = IF scriptProv = "py" THEN i ELSE 0
  <2>1. CASE scriptProv = "lua"
    BY <1>1, <2>1 DEF Switched, LuaSwitches, ProviderSwitches
  <2>2. CASE scriptProv = "py"
    BY <1>1, <2>2 DEF Switched, PySwitches, ProviderSwitches
  <2>3. CASE scriptProv = "rb"
    BY <1>1, <2>3 DEF Switched, ProviderSwitches
  <2> QED
    BY <1>2, <2>1, <2>2, <2>3 DEF Languages
<1>4. i \in 0 .. Len(argList)
  BY <1>1 DEF Switched
<1> QED
  BY <1>1, <1>3, <1>4 DEF HandedOver, ArgumentsWhole, Own

\* What a step that leaves the arguments alone keeps.
LEMMA ArgumentsUntouched ==
  ASSUME UNCHANGED <<scriptProv, RemainingArgs, argList, i, module>>
  PROVE  /\ Switched => Switched'
         /\ ScriptNext => ScriptNext'
         /\ HandedOver /\ argv' = argv => HandedOver'
<1>1. Switched => Switched'
  BY DEF Switched, Cut, LuaSwitches, PySwitches
<1>2. ScriptNext => ScriptNext'
  BY DEF ScriptNext
<1>3. HandedOver /\ argv' = argv => HandedOver'
  BY DEF HandedOver, Own
<1> QED
  BY <1>1, <1>2, <1>3

\* Grouping makes sequences of words of a sequence of words.
LEMMA GroupsOfWords ==
  ASSUME NEW S, NEW words \in Seq(S), NEW list \in Grouped(words)
  PROVE  list \in Seq(Seq(S))
<1>1. PICK ends \in Ends(Len(words)) :
        list = [k \in 1 .. Len(ends) |->
                  SubSeq(words, IF k = 1 THEN 1 ELSE ends[k - 1] + 1, ends[k])]
  BY DEF Grouped
<1>2. PICK m \in 0 .. Len(words) : ends \in [1 .. m -> 1 .. Len(words)]
  BY DEF Ends
<1>3. Len(words) \in Nat /\ m \in Nat
  BY LenProperties
<1>4. ends \in Seq(1 .. Len(words)) /\ Len(ends) = m
  BY <1>2, <1>3, SeqDef
<1>5. ASSUME NEW k \in 1 .. m
      PROVE  SubSeq(words, IF k = 1 THEN 1 ELSE ends[k - 1] + 1, ends[k]) \in Seq(S)
  <2>1. PICK from : from = IF k = 1 THEN 1 ELSE ends[k - 1] + 1
    OBVIOUS
  <2>2. from \in Nat \ {0} /\ ends[k] \in 1 .. Len(words)
    <3>1. ends[k] \in 1 .. Len(words)
      BY <1>2
    <3>2. CASE k = 1
      BY <2>1, <3>1, <3>2
    <3>3. CASE k # 1
      <4>1. k - 1 \in 1 .. m
        BY <1>3, <3>3
      <4>2. ends[k - 1] \in 1 .. Len(words)
        BY <1>2, <4>1
      <4> QED
        BY <2>1, <3>1, <3>3, <4>2
    <3> QED
      BY <3>2, <3>3
  <2>3. \A j \in from .. ends[k] : words[j] \in S
    <3> SUFFICES ASSUME NEW j \in from .. ends[k] PROVE words[j] \in S
      OBVIOUS
    <3>1. j \in 1 .. Len(words)
      BY <1>3, <2>2
    <3> QED
      BY <3>1, ElementOfSeq
  <2>4. from \in Int /\ ends[k] \in Int
    BY <2>2
  <2>5. SubSeq(words, from, ends[k]) \in Seq(S)
    BY <2>3, <2>4, SubSeqProperties
  <2> QED
    BY <2>1, <2>5
<1> DEFINE T == Seq(S)
<1>6. list \in [1 .. m -> T]
  BY <1>1, <1>4, <1>5
<1> HIDE DEF T
<1>7. list \in Seq(T)
  BY <1>3, <1>6, SeqDef, Zenon
<1> QED
  BY <1>7 DEF T

\* The arguments of a line are sequences of words, and the first of one that begins
\* with white space is empty.
LEMMA ArgumentVector ==
  ASSUME TypeOK, NEW blank \in BOOLEAN,
         NEW list \in CommandLineToArgvW(RemainingArgs, blank)
  PROVE  /\ list \in Seq(Argument)
         /\ Len(list) \in Nat
         /\ blank => Len(list) > 0 /\ list[1] = NoWord
<1> DEFINE S == Word \cup {Executable}
           R == Seq(S)
<1>1. RemainingArgs \in R
  BY DEF TypeOK
<1> HIDE DEF S
<1>2. \A l \in Grouped(RemainingArgs) : l \in Seq(R)
  BY <1>1, GroupsOfWords
<1>3. NoWord \in R
  BY DEF NoWord
<1>4. CASE blank
  <2>1. PICK l \in Grouped(RemainingArgs) : list = <<NoWord>> \o l
    BY <1>4 DEF CommandLineToArgvW
  <2>2. l \in Seq(R)
    BY <1>2
  <2>3. PICK none : none = NoWord
    OBVIOUS
  <2>4. <<none>> \in Seq(R) /\ Len(<<none>>) = 1 /\ <<none>>[1] = none
    <3> HIDE DEF R
    <3> QED
      BY <1>3, <2>3
  <2>5. /\ <<none>> \o l \in Seq(R)
        /\ Len(<<none>> \o l) = 1 + Len(l)
        /\ (<<none>> \o l)[1] = none
    <3> HIDE DEF R
    <3>1. /\ <<none>> \o l \in Seq(R)
          /\ Len(<<none>> \o l) = Len(<<none>>) + Len(l)
          /\ \A k \in 1 .. Len(<<none>>) + Len(l) :
               (<<none>> \o l)[k] = IF k <= Len(<<none>>) THEN <<none>>[k] ELSE l[k - Len(<<none>>)]
      BY <2>2, <2>4, ConcatProperties
    <3>2. Len(l) \in Nat
      BY <2>2, LenProperties
    <3>3. 1 \in 1 .. 1 + Len(l)
      BY <3>2
    <3> QED
      BY <2>4, <3>1, <3>3
  <2>6. Len(l) \in Nat
    BY <2>2, LenProperties
  <2> QED
    BY <2>1, <2>3, <2>5, <2>6 DEF Argument, S
<1>5. CASE ~blank /\ RemainingArgs = <<>>
  <2>1. list = << <<Executable>> >>
    BY <1>5 DEF CommandLineToArgvW
  <2>2. <<Executable>> \in R
    BY DEF S
  <2>3. << <<Executable>> >> \in Seq(R)
    <3> HIDE DEF R
    <3> QED
      BY <2>2
  <2> QED
    BY <1>5, <2>1, <2>3, LenProperties DEF Argument, S
<1>6. CASE ~blank /\ RemainingArgs # <<>>
  <2>1. list \in Grouped(RemainingArgs)
    BY <1>6 DEF CommandLineToArgvW
  <2>2. list \in Seq(R) /\ Len(list) \in Nat
    BY <1>2, <2>1, LenProperties
  <2> QED
    BY <1>6, <2>2 DEF Argument, S
<1> QED
  BY <1>4, <1>5, <1>6

\* So Run's are, and an argument left to it that is not empty, or none at all, means
\* that no blank stood before the first.
LEMMA RunArguments ==
  ASSUME TypeOK, Switched
  PROVE  /\ argList \in Seq(Argument)
         /\ Len(argList) \in Nat
         /\ i = Len(argList) \/ argList[i + 1] # NoWord
              => argList \in CommandLineToArgvW(RemainingArgs, FALSE)
<1>1. PICK blank \in BOOLEAN : /\ argList \in CommandLineToArgvW(RemainingArgs, blank)
                               /\ blank => i = 0
  BY DEF Switched, Cut
<1>2. /\ argList \in Seq(Argument)
      /\ Len(argList) \in Nat
      /\ blank => Len(argList) > 0 /\ argList[1] = NoWord
  BY <1>1, ArgumentVector
<1>3. blank => i # Len(argList) /\ argList[i + 1] = NoWord
  BY <1>1, <1>2
<1>4. CASE blank
  BY <1>2, <1>3, <1>4
<1>5. CASE ~blank
  <2>1. blank = FALSE
    BY <1>5
  <2> QED
    BY <1>1, <1>2, <2>1
<1> QED
  BY <1>4, <1>5

\* The arguments left.
LEMMA ArgumentsLeft ==
  ASSUME Len(argList) \in Nat, i \in 0 .. Len(argList), fullPath \in Place
  PROVE  /\ ArgsForScript \in Seq(ScriptArgument)
         /\ Len(ArgsForScript) = Len(argList) - i
         /\ \A k \in 1 .. Len(argList) - i :
              /\ ArgsForScript[k].arg = i + k
              /\ ArgsForScript[k].place = IF k = 1 THEN fullPath ELSE AsNamed
<1>1. AsNamed \in Place
  BY DEF Place
<1>2. Len(argList) - i \in Nat
  OBVIOUS
<1>3. \A k \in 1 .. Len(argList) - i :
        [place |-> IF k = 1 THEN fullPath ELSE AsNamed, arg |-> i + k] \in ScriptArgument
  BY <1>1 DEF ScriptArgument
<1>4. ArgsForScript \in Seq(ScriptArgument)
  <2>1. PICK m \in Nat : m = Len(argList) - i
    BY <1>2
  <2>2. ArgsForScript \in [1 .. m -> ScriptArgument]
    BY <1>3, <2>1 DEF ArgsForScript
  <2>3. ArgsForScript \in UNION {[1 .. n -> ScriptArgument] : n \in Nat}
    BY <2>1, <2>2, Zenon
  <2> QED
    BY <2>3, SeqDef, Zenon
<1>5. Len(ArgsForScript) = Len(argList) - i
  BY <1>2 DEF ArgsForScript
<1> QED
  BY <1>4, <1>5 DEF ArgsForScript

\* A step between stages before the arguments are taken, or after the script.
LEMMA OutsideRun ==
  ASSUME ArgsInv, UNCHANGED <<i, module, argv>>,
         \/ /\ stage \in {"prompt", "parse", "path", "load"}
            /\ stage' \in {"prompt", "parse", "path", "load", "exit"}
         \/ stage' = "exit"
  PROVE  ArgsInv'
BY DEF ArgsInv

\* A step that leaves the arguments alone, and does not find a nameless script.
LEMMA RunUntouched ==
  ASSUME ArgsInv, UNCHANGED <<scriptProv, RemainingArgs, run>>,
         stage = "search" => ScriptNamed'
  PROVE  ArgsInv'
<1>1. UNCHANGED <<stage, command, argList, i, module, argv>>
  BY DEF run
<1>2. /\ Switched => Switched'
      /\ ScriptNext => ScriptNext'
      /\ HandedOver => HandedOver'
  BY <1>1, ArgumentsUntouched
<1> QED
  BY <1>1, <1>2 DEF ArgsInv

LEMMA LoadArgs == ASSUME TypeOK, ArgsInv, Load PROVE ArgsInv'
<1>1. /\ stage = "load" /\ UNCHANGED <<scriptProv, RemainingArgs, i, module, argv>>
      /\ i = 0 /\ module = 0 /\ argv = <<>>
  BY DEF Load, Leave, ArgsInv, vars
<1>2. CASE stage' = "exit"
  BY <1>1, <1>2, OutsideRun
<1>3. ASSUME stage' = "switches", command' = "runscript", NEW blank \in BOOLEAN,
             argList' \in CommandLineToArgvW(RemainingArgs, blank)
      PROVE  ArgsInv'
  <2>1. Len(argList') \in Nat
    BY <1>3, ArgumentVector
  <2>2. i' = 0 /\ module' = 0
    BY <1>1
  <2>3. argv' = <<>>
    BY <1>1
  <2>4. \A k \in 1 .. i' : FALSE
    BY <2>2
  <2>5. LuaSwitches' /\ PySwitches'
    BY <2>2, <2>4 DEF LuaSwitches, PySwitches
  <2>6. Cut'
    BY <1>1, <1>3, <2>2 DEF Cut, CommandLineToArgvW
  <2>7. i' \in 0 .. Len(argList')
    BY <2>1, <2>2
  <2>8. Switched'
    BY <2>2, <2>5, <2>6, <2>7 DEF Switched
  <2> QED
    BY <1>3, <2>3, <2>8 DEF ArgsInv
<1>4. CASE stage' = "script" /\ command' = "evalstring"
  BY <1>4 DEF ArgsInv
<1> QED
  BY <1>2, <1>3, <1>4 DEF Load, Leave, LeadingBlank

\* A switch is not empty, so that no blank stood before the first argument.
LEMMA SwitchSeen ==
  ASSUME TypeOK, Switched, MoreSwitches
  PROVE  /\ Len(argList) \in Nat /\ i \in 0 .. Len(argList) /\ i < Len(argList)
         /\ argList \in CommandLineToArgvW(RemainingArgs, FALSE)
BY RunArguments DEF Switched, MoreSwitches, Dashed

LEMMA LuaSwitchArgs == ASSUME TypeOK, ArgsInv, LuaSwitch PROVE ArgsInv'
<1>1. /\ stage = "switches" /\ scriptProv = "lua" /\ UNCHANGED <<scriptProv, RemainingArgs>>
      /\ MoreSwitches
  BY DEF LuaSwitch, InRun, vars
<1>2. Switched /\ command = "runscript" /\ argv = <<>>
  BY <1>1 DEF ArgsInv
<1>3. CASE Is(argList[i + 1], "-d")
  <2>1. /\ i' = i + 1 /\ UNCHANGED <<stage, command, argList, argv, module>>
    BY <1>3 DEF LuaSwitch, Skip
  <2>2. /\ Len(argList) \in Nat /\ i \in 0 .. Len(argList) /\ i < Len(argList)
        /\ argList \in CommandLineToArgvW(RemainingArgs, FALSE)
    BY <1>1, <1>2, SwitchSeen
  <2>3. LuaSwitches
    BY <1>1, <1>2 DEF Switched
  <2>4. \A k \in 1 .. i + 1 : k \in 1 .. i \/ k = i + 1
    BY <2>2
  <2>5. LuaSwitches'
    <3>1. \A k \in 1 .. i + 1 : Is(argList[k], "-d")
      BY <1>3, <2>3, <2>4 DEF LuaSwitches
    <3> QED
      BY <2>1, <2>3, <3>1 DEF LuaSwitches, Is
  <2>6. i' \in 0 .. Len(argList')
    BY <2>1, <2>2
  <2>7. Cut'
    BY <1>1, <2>1, <2>2 DEF Cut, CommandLineToArgvW
  <2>8. Switched'
    BY <1>1, <2>5, <2>6, <2>7 DEF Switched
  <2> QED
    BY <1>1, <1>2, <2>1, <2>8 DEF ArgsInv
<1>4. CASE ~Is(argList[i + 1], "-d")
  <2>1. stage' = "exit" /\ UNCHANGED <<i, module, argv>>
    BY <1>4 DEF LuaSwitch, Leave
  <2> QED
    BY <2>1, OutsideRun
<1> QED
  BY <1>3, <1>4

LEMMA PythonSwitchArgs == ASSUME TypeOK, ArgsInv, PythonSwitch PROVE ArgsInv'
<1>1. /\ stage = "switches" /\ scriptProv = "py" /\ UNCHANGED <<scriptProv, RemainingArgs>>
      /\ MoreSwitches
  BY DEF PythonSwitch, InRun, vars
<1>2. Switched /\ command = "runscript" /\ argv = <<>>
  BY <1>1 DEF ArgsInv
<1>3. CASE Is(argList[i + 1], "-m") /\ i + 1 < Len(argList)
  <2>1. /\ i' = i + 2 /\ module' = i + 2 /\ UNCHANGED <<stage, command, argList, argv>>
    BY <1>3 DEF PythonSwitch, Skip
  <2>2. /\ Len(argList) \in Nat /\ i \in 0 .. Len(argList) /\ i < Len(argList)
        /\ argList \in CommandLineToArgvW(RemainingArgs, FALSE)
    BY <1>1, <1>2, SwitchSeen
  <2>3. PySwitches
    BY <1>1, <1>2 DEF Switched
  <2>4. i % 2 = 0 /\ \A k \in 1 .. i : k % 2 = 1 => Is(argList[k], "-m")
    BY <2>3 DEF PySwitches
  <2>5. (i + 2) % 2 = 0
    BY <2>2, <2>4
  <2>6. ASSUME NEW k \in 1 .. i + 2, k % 2 = 1 PROVE Is(argList[k], "-m")
    <3>1. k \in 1 .. i \/ k = i + 1 \/ k = i + 2
      BY <2>2
    <3>2. k # i + 2
      BY <2>5, <2>6
    <3> QED
      BY <1>3, <2>4, <2>6, <3>1, <3>2
  <2>7. PySwitches'
    BY <2>1, <2>5, <2>6 DEF PySwitches, Is
  <2>8. i' \in 0 .. Len(argList')
    BY <1>3, <2>1, <2>2
  <2>9. Cut'
    BY <1>1, <2>1, <2>2 DEF Cut, CommandLineToArgvW
  <2>10. Switched'
    BY <1>1, <2>7, <2>8, <2>9 DEF Switched
  <2> QED
    BY <1>1, <1>2, <2>1, <2>10 DEF ArgsInv
<1>4. CASE ~(Is(argList[i + 1], "-m") /\ i + 1 < Len(argList))
  <2>1. stage' = "exit" /\ UNCHANGED <<i, module, argv>>
    BY <1>4 DEF PythonSwitch, Leave
  <2> QED
    BY <2>1, OutsideRun
<1> QED
  BY <1>3, <1>4

LEMMA SwitchesEndArgs == ASSUME TypeOK, ArgsInv, SwitchesEnd PROVE ArgsInv'
<1>1. /\ stage = "switches" /\ scriptProv \in Languages
      /\ UNCHANGED <<scriptProv, RemainingArgs, command, argList, i, module, argv>>
      /\ scriptProv # "rb" => ~MoreSwitches
  BY DEF SwitchesEnd, InRun, FindScript, NoArguments, Languages, vars
<1>2. Switched /\ command = "runscript" /\ argv = <<>>
  BY <1>1 DEF ArgsInv
<1>3. Switched' /\ argv' = <<>> /\ command' = "runscript"
  BY <1>1, <1>2, ArgumentsUntouched
<1>4. CASE stage' = "search" /\ i < Len(argList) /\ at' # "found"
  <2>1. ScriptNext
    BY <1>1, <1>4 DEF ScriptNext, MoreSwitches
  <2>2. ScriptNext' /\ ScriptNamed'
    BY <1>1, <1>4, <2>1, ArgumentsUntouched DEF ScriptNamed
  <2> QED
    BY <1>3, <1>4, <2>2 DEF ArgsInv
<1>5. CASE stage' = "start" /\ i = Len(argList)
  <2>1. argList \in CommandLineToArgvW(RemainingArgs, FALSE)
    BY <1>2, <1>5, RunArguments
  <2>2. argList' \in CommandLineToArgvW(RemainingArgs', FALSE)
    BY <1>1, <2>1
  <2>3. Len(argv') = 0
    BY <1>3
  <2>4. i' = Len(argList') /\ ~(i' < Len(argList'))
    BY <1>1, <1>2, <1>5, RunArguments
  <2>5. HandedOver'
    BY <1>1, <2>2, <2>3, <2>4 DEF HandedOver, CommandLineToArgvW
  <2> QED
    BY <1>3, <1>5, <2>5 DEF ArgsInv
<1>6. CASE stage' = "exit"
  BY <1>1, <1>6, OutsideRun
<1> QED
  BY <1>4, <1>5, <1>6 DEF SwitchesEnd, FindScript, NoArguments, LookAsNamed

LEMMA SearchArgs == ASSUME ArgsInv, Search PROVE ArgsInv'
<1>1. stage = "search" /\ UNCHANGED <<scriptProv, RemainingArgs, run, argList, i>>
  BY DEF Search, vars, run
<1>2. CASE argList[i + 1] # NoWord
  BY <1>1, <1>2, RunUntouched DEF ScriptNamed
<1>3. CASE argList[i + 1] = NoWord
  <2>1. at # "found"
    BY <1>1, <1>3 DEF ArgsInv, ScriptNamed
  <2>2. at' # "found"
    BY <1>3, <2>1
    DEF Search, UtilFindScriptFile, UtilFileExists, LookInPath, LookAgain, PathSearched
  <2> QED
    BY <1>1, <2>2, RunUntouched DEF ScriptNamed
<1> QED
  BY <1>2, <1>3

\* What Located hands over: the arguments left, after the module if there is one.
LEMMA Handed ==
  ASSUME Len(argList) \in Nat, i \in 0 .. Len(argList), module \in Nat, fullPath \in Place,
         NEW own \in {0, 1}, NEW list,
         own = 0 => list = ArgsForScript,
         own = 1 => list = ModuleArgument \o ArgsForScript
  PROVE  /\ list \in Seq(ScriptArgument)
         /\ Len(list) = own + (Len(argList) - i)
         /\ \A k \in 1 .. Len(list) :
              /\ list[k].arg = IF k <= own THEN module ELSE i + (k - own)
              /\ list[k].place # AsNamed => k = own + 1
<1>1. /\ ArgsForScript \in Seq(ScriptArgument)
      /\ Len(ArgsForScript) = Len(argList) - i
      /\ \A k \in 1 .. Len(argList) - i :
           /\ ArgsForScript[k].arg = i + k
           /\ ArgsForScript[k].place = IF k = 1 THEN fullPath ELSE AsNamed
  BY ArgumentsLeft
<1>2. Len(argList) - i \in Nat
  OBVIOUS
<1>3. CASE own = 0
  <2>1. /\ list \in Seq(ScriptArgument) /\ Len(list) = Len(argList) - i
        /\ \A k \in 1 .. Len(argList) - i :
             /\ list[k].arg = i + k
             /\ list[k].place # AsNamed => k = 1
    BY <1>1, <1>3
  <2>2. \A k \in 1 .. Len(argList) - i : ~(k <= own) /\ k - own = k
    BY <1>2, <1>3
  <2> QED
    BY <1>2, <1>3, <2>1, <2>2
<1>4. CASE own = 1
  <2>1. PICK e : e = [place |-> AsNamed, arg |-> module]
    OBVIOUS
  <2>2. e \in ScriptArgument /\ e.arg = module /\ e.place = AsNamed
    BY <2>1 DEF ScriptArgument, Place
  <2>3. ModuleArgument = <<e>>
    BY <2>1 DEF ModuleArgument
  <2>4. <<e>> \in Seq(ScriptArgument) /\ Len(<<e>>) = 1 /\ <<e>>[1] = e
    BY <2>2
  <2>5. /\ list \in Seq(ScriptArgument)
        /\ Len(list) = 1 + (Len(argList) - i)
        /\ \A k \in 1 .. 1 + (Len(argList) - i) :
             list[k] = IF k <= 1 THEN <<e>>[k] ELSE ArgsForScript[k - 1]
    <3>1. /\ <<e>> \o ArgsForScript \in Seq(ScriptArgument)
          /\ Len(<<e>> \o ArgsForScript) = Len(<<e>>) + Len(ArgsForScript)
          /\ \A k \in 1 .. Len(<<e>>) + Len(ArgsForScript) :
               (<<e>> \o ArgsForScript)[k] =
                 IF k <= Len(<<e>>) THEN <<e>>[k] ELSE ArgsForScript[k - Len(<<e>>)]
      BY <1>1, <2>4, ConcatProperties
    <3>2. list = <<e>> \o ArgsForScript
      BY <1>4, <2>3
    <3> QED
      BY <1>1, <2>4, <3>1, <3>2
  <2>6. ASSUME NEW k \in 1 .. 1 + (Len(argList) - i)
        PROVE  /\ list[k].arg = IF k <= 1 THEN module ELSE i + (k - 1)
               /\ list[k].place # AsNamed => k = 2
    <3>1. CASE k = 1
      <4>1. list[k] = e
        BY <2>4, <2>5, <3>1
      <4> QED
        BY <2>2, <3>1, <4>1
    <3>2. CASE k # 1
      <4>1. k - 1 \in 1 .. Len(argList) - i /\ ~(k <= 1)
        BY <1>2, <3>2
      <4>2. list[k] = ArgsForScript[k - 1]
        BY <2>5, <4>1
      <4>3. /\ ArgsForScript[k - 1].arg = i + (k - 1)
            /\ ArgsForScript[k - 1].place = IF k - 1 = 1 THEN fullPath ELSE AsNamed
        BY <1>1, <4>1
      <4> QED
        BY <4>1, <4>2, <4>3
    <3> QED
      BY <3>1, <3>2
  <2> QED
    BY <1>4, <2>5, <2>6
<1> QED
  BY <1>3, <1>4

LEMMA LocatedArgs ==
  ASSUME TypeOK, ArgsInv, fullPath \in Place, Located
  PROVE  ArgsInv'
<1>1. /\ stage = "search"
      /\ UNCHANGED <<scriptProv, RemainingArgs, command, argList, i, module>>
  BY DEF Located, Leave, vars
<1>2. Switched /\ ScriptNext /\ ScriptNamed /\ command = "runscript"
  BY <1>1 DEF ArgsInv
<1>3. CASE stage' = "exit" /\ UNCHANGED argv
  BY <1>1, <1>3, OutsideRun
<1>4. CASE /\ stage' = "start"
           /\ at = "found"
           /\ argv' = IF scriptProv = "py" /\ module # 0
                      THEN ModuleArgument \o ArgsForScript
                      ELSE ArgsForScript
  <2>1. /\ Len(argList) \in Nat /\ i \in 0 .. Len(argList) /\ i < Len(argList)
        /\ argList \in CommandLineToArgvW(RemainingArgs, FALSE)
    BY <1>2, <1>4, RunArguments DEF Switched, ScriptNext, ScriptNamed
  <2>2. module \in Nat /\ (module # 0 => scriptProv = "py")
    BY <1>2, <2>1 DEF Switched, ScriptNext, Languages, LuaSwitches, PySwitches
  <2>3. /\ Own \in {0, 1}
        /\ Own = 0 => argv' = ArgsForScript
        /\ Own = 1 => argv' = ModuleArgument \o ArgsForScript
    <3>1. CASE module = 0
      BY <1>4, <3>1 DEF Own
    <3>2. CASE module # 0
      BY <1>4, <2>2, <3>2 DEF Own
    <3> QED
      BY <3>1, <3>2
  <2>4. /\ Len(argv') = Own + (Len(argList) - i)
        /\ \A k \in 1 .. Len(argv') :
             /\ argv'[k].arg = IF k <= Own THEN module ELSE i + (k - Own)
             /\ argv'[k].place # AsNamed => k = Own + 1
    BY <2>1, <2>2, <2>3, Handed
  <2>5. Own' = Own /\ i' # Len(argList')
    BY <1>1, <2>1 DEF Own
  <2>6. HandedOver'
    <3>1. scriptProv' \in Languages /\ (scriptProv # "rb" => ~Dashed(argList[i + 1]))'
      BY <1>1, <1>2 DEF ScriptNext
    <3>2. argList' \in CommandLineToArgvW(RemainingArgs', FALSE)
      BY <1>1, <2>1
    <3> QED
      BY <1>1, <2>4, <2>5, <3>1, <3>2 DEF HandedOver, CommandLineToArgvW
  <2>7. Switched'
    BY <1>1, <1>2, ArgumentsUntouched
  <2> QED
    BY <1>1, <1>2, <1>4, <2>6, <2>7 DEF ArgsInv
<1> QED
  BY <1>1, <1>3, <1>4 DEF Located, Leave

LEMMA StartArgs == ASSUME ArgsInv, Start PROVE ArgsInv'
<1>1. /\ stage = "start" /\ command = "runscript"
      /\ UNCHANGED <<scriptProv, RemainingArgs, command, argList, i, module, argv>>
  BY DEF Start, Leave, ArgsInv, vars
<1>2. CASE stage' = "exit"
  BY <1>1, <1>2, OutsideRun
<1>3. CASE stage' = "script"
  <2>1. Switched /\ HandedOver
    BY <1>1 DEF ArgsInv
  <2>2. Switched' /\ HandedOver'
    BY <1>1, <2>1, ArgumentsUntouched
  <2> QED
    BY <1>1, <1>3, <2>2 DEF ArgsInv
<1> QED
  BY <1>2, <1>3 DEF Start, Leave

LEMMA ArgsInitially == HostInit => ArgsInv
BY DEF HostInit, ArgsInv

LEMMA ArgsStep == TypeOK /\ PathTyped /\ ArgsInv /\ [HostNext]_hostvars => ArgsInv'
<1> SUFFICES ASSUME TypeOK, PathTyped, ArgsInv, [HostNext]_hostvars PROVE ArgsInv'
  OBVIOUS
<1>1. CASE runscript \/ evalstring \/ scriptpath
  <2>1. /\ stage = "prompt" /\ UNCHANGED <<i, module, argv>>
        /\ stage' \in {"parse", "path", "exit"}
    BY <1>1 DEF runscript, evalstring, scriptpath, ParsedCommand, Enter
  <2> QED
    BY <2>1, OutsideRun
<1>2. CASE ScriptPathRuns
  <2>1. CASE UNCHANGED run
    BY <1>2, <2>1, RunUntouched DEF ScriptPathRuns, vars
  <2>2. CASE stage' = "exit" /\ UNCHANGED <<i, module, argv>>
    BY <2>2, OutsideRun
  <2> QED
    BY <1>2, <2>1, <2>2 DEF ScriptPathRuns
<1>3. CASE Parse
  <2>1. stage = "parse" /\ stage' = "parse" /\ UNCHANGED <<i, module, argv>>
    BY <1>3 DEF Parse, run
  <2> QED
    BY <2>1, OutsideRun
<1>4. CASE Parsed
  <2>1. /\ stage = "parse" /\ stage' \in {"load", "exit"} /\ UNCHANGED <<i, module, argv>>
    BY <1>4 DEF Parsed, Leave
  <2> QED
    BY <2>1, OutsideRun
<1>5. CASE Load \/ LuaSwitch \/ PythonSwitch \/ SwitchesEnd
  BY <1>5, LoadArgs, LuaSwitchArgs, PythonSwitchArgs, SwitchesEndArgs
<1>6. CASE Search
  BY <1>6, SearchArgs
<1>7. CASE Located \/ Start
  <2>1. fullPath \in Place
    BY DEF PathTyped, PathTypeOK
  <2> QED
    BY <1>7, <2>1, LocatedArgs, StartArgs
<1>8. CASE ScriptEnds
  <2>1. stage' = "exit" /\ UNCHANGED <<i, module, argv>>
    BY <1>8 DEF ScriptEnds, Leave
  <2> QED
    BY <2>1, OutsideRun
<1>9. CASE Exit
  BY <1>9 DEF Exit, ArgsInv
<1>10. CASE DebugExtensionUninitialize \/ DebugExtensionInitialize
  BY <1>10, RunUntouched DEF DebugExtensionUninitialize, DebugExtensionInitialize, vars
<1>11. CASE UNCHANGED hostvars
  <2>1. UNCHANGED <<scriptProv, RemainingArgs, run, at, argList, i>>
    BY <1>11 DEF hostvars, vars, path, run
  <2>2. stage = "search" => ScriptNamed'
    BY <2>1 DEF ArgsInv, ScriptNamed
  <2> QED
    BY <2>1, <2>2, RunUntouched
<1> QED
  BY <1>1, <1>2, <1>3, <1>4, <1>5, <1>6, <1>7, <1>8, <1>9, <1>10, <1>11 DEF HostNext, Continue

-----------------------------------------------------------------------------
(* Types                                                                   *)

Stage == {"prompt", "parse", "path", "load", "switches", "search", "start", "script", "exit"}
OutcomeTyped ==
  /\ stage \in Stage
  /\ command \in {"none", "runscript", "evalstring", "scriptpath"}
  /\ hr \in BOOLEAN
ArgumentsTyped ==
  /\ argList \in Seq(Argument)
  /\ i \in 0 .. Len(argList)
  /\ module \in 0 .. Len(argList)
  /\ argv \in Seq(ScriptArgument)

\* The inductive invariant: types, and what it takes to keep them.
HostTypeInv ==
  /\ TypeOK /\ IfaceInv /\ HostPathInv /\ ArgsInv
  /\ PathTyped /\ OutcomeTyped /\ ArgumentsTyped

LEMMA HostTypes == HostTypeInv => HostTypeOK
BY DEF HostTypeInv, HostTypeOK, IfaceInv, PathTyped, OutcomeTyped, ArgumentsTyped, Stage

LEMMA HostInitTyped == HostInit => PathTyped /\ OutcomeTyped /\ ArgumentsTyped
<1> SUFFICES ASSUME HostInit PROVE PathTyped /\ OutcomeTyped /\ ArgumentsTyped
  OBVIOUS
<1>1. PathTyped
  BY PathInitTyped DEF HostInit
<1>2. stage = "prompt" /\ command = "none" /\ hr = TRUE
  BY DEF HostInit
<1>3. OutcomeTyped
  BY <1>2 DEF OutcomeTyped, Stage
<1>4. argList = <<>> /\ argv = <<>>
  BY DEF HostInit
<1>5. i = 0 /\ module = 0
  BY DEF HostInit
<1>6. i \in 0 .. Len(argList) /\ module \in 0 .. Len(argList)
  BY <1>4, <1>5
<1>7. ArgumentsTyped
  BY <1>4, <1>6 DEF ArgumentsTyped
<1> QED
  BY <1>1, <1>3, <1>7

-----------------------------------------------------------------------------

LEMMA PathStepTyped == HostPathInv /\ PathTyped /\ [HostNext]_hostvars => PathTyped'
<1> SUFFICES ASSUME HostPathInv, PathTyped, [HostNext]_hostvars PROVE PathTyped'
  OBVIOUS
<1>0. PathInv /\ (stage \notin {"path", "search"} => at = "idle")
  BY DEF HostPathInv, StageInv
<1>1. CASE UNCHANGED path
  BY <1>1, PathUntouchedTyped
<1>2. CASE scriptpath
  <2>1. at = "idle"
    BY <1>0, <1>2 DEF scriptpath, Enter
  <2>2. UNCHANGED path \/ PrintPath \/ \E arg \in PathArgument : SetPath(arg)
    BY <1>2 DEF scriptpath
  <2> QED
    BY <1>0, <1>1, <2>1, <2>2, PrintPathTyped, SetPathTyped
<1>3. CASE ScriptPathRuns
  <2>1. \/ FreeElem \/ Freed \/ SplitAtComma \/ CopyTrailer \/ PrintElem
        \/ \E ok \in BOOLEAN : Printed(ok)
    BY <1>3 DEF ScriptPathRuns
  <2> QED
    BY <1>0, <2>1, FreeElemTyped, FreedTyped, SplitAtCommaTyped, CopyTrailerTyped,
       PrintElemTyped, PrintedTyped
<1>4. CASE SwitchesEnd
  <2>1. UNCHANGED path \/ \E exists \in BOOLEAN : LookAsNamed(exists)
    BY <1>4 DEF SwitchesEnd, FindScript, NoArguments, UtilFileExists
  <2> QED
    BY <1>1, <2>1, LookAsNamedTyped
<1>5. CASE Search
  <2>1. PICK named \in BOOLEAN : UtilFindScriptFile(named)
    BY <1>5 DEF Search
  <2> QED
    BY <1>0, <2>1, SearchTyped
<1>6. CASE Located
  BY <1>6, SearchEndTyped DEF Located
<1>7. CASE DebugExtensionUninitialize
  <2>1. /\ at' = "idle" /\ ScriptPath' = NoElem /\ heap' = <<>> /\ given' = <<>>
        /\ UNCHANGED <<str, elem, prev, fullPath, absent>>
    BY <1>7 DEF DebugExtensionUninitialize
  <2>2. at \in At /\ HeapTyped /\ CursorsTyped /\ TextsTyped
    BY PathTypes DEF PathTyped
  <2>3. at' \in At /\ CursorsTyped'
    BY <2>1, <2>2 DEF At, CursorsTyped
  <2>4. HeapTyped'
    BY <2>1 DEF HeapTyped
  <2>5. TextsTyped'
    BY <2>1, <2>2 DEF TextsTyped
  <2> QED
    BY <2>1, <2>3, <2>4, <2>5, TypedAfter
<1>8. CASE runscript \/ evalstring
  BY <1>1, <1>8 DEF runscript, evalstring, ParsedCommand
<1>9. CASE Parse \/ Parsed \/ Load \/ LuaSwitch \/ PythonSwitch \/ Start \/ Exit
  BY <1>1, <1>9 DEF Parse, Parsed, Load, LuaSwitch, PythonSwitch, Start, Exit
<1>10. CASE ScriptEnds \/ DebugExtensionInitialize
  BY <1>1, <1>10 DEF ScriptEnds, DebugExtensionInitialize
<1>11. CASE UNCHANGED hostvars
  BY <1>1, <1>11 DEF hostvars
<1> QED
  BY <1>2, <1>3, <1>4, <1>5, <1>6, <1>7, <1>8, <1>9, <1>10, <1>11 DEF HostNext, Continue

LEMMA OutcomeStepTyped == OutcomeTyped /\ [HostNext]_hostvars => OutcomeTyped'
<1> SUFFICES ASSUME OutcomeTyped, [HostNext]_hostvars PROVE OutcomeTyped'
  OBVIOUS
<1>1. CASE UNCHANGED run
  BY <1>1 DEF OutcomeTyped, run
<1>2. ASSUME NEW ok \in BOOLEAN, Leave(ok) PROVE OutcomeTyped'
  BY <1>2 DEF Leave, OutcomeTyped, Stage
<1>3. CASE runscript \/ evalstring \/ scriptpath
  <2>1. \E which \in {"runscript", "evalstring", "scriptpath"}, next \in {"parse", "path"} :
          Enter(which, next)
    BY <1>3 DEF runscript, evalstring, scriptpath, ParsedCommand
  <2>2. PICK which \in {"runscript", "evalstring", "scriptpath"}, next \in {"parse", "path"} :
          Enter(which, next)
    BY <2>1
  <2>3. /\ command' = which
        /\ hr' \in BOOLEAN
        /\ stage' \in {next, "exit"}
    BY <2>2 DEF Enter
  <2> QED
    BY <2>3 DEF OutcomeTyped, Stage
<1>4. CASE ScriptPathRuns
  <2>1. CASE UNCHANGED run
    BY <1>1, <2>1
  <2>2. CASE \E ok \in BOOLEAN : hr' = ok /\ stage' = "exit" /\ UNCHANGED command
    BY <2>2 DEF OutcomeTyped, Stage
  <2> QED
    BY <1>4, <2>1, <2>2 DEF ScriptPathRuns
<1>5. CASE Parsed \/ Load \/ Start
  <2>1. \/ \E ok \in BOOLEAN : Leave(ok)
        \/ UNCHANGED <<command, hr>> /\ stage' \in {"load", "switches", "script"}
    BY <1>5 DEF Parsed, Load, Start
  <2> QED
    BY <1>2, <2>1 DEF OutcomeTyped, Stage
<1>6. CASE LuaSwitch \/ PythonSwitch
  <2>1. Leave(FALSE) \/ UNCHANGED <<stage, command, hr>>
    BY <1>6 DEF LuaSwitch, PythonSwitch, Skip
  <2> QED
    BY <1>2, <2>1 DEF OutcomeTyped
<1>7. CASE SwitchesEnd
  <2>1. /\ UNCHANGED command
        /\ stage' \in {"search", "exit", "start"}
        /\ hr' \in {hr, TRUE, FALSE}
    BY <1>7 DEF SwitchesEnd, FindScript, NoArguments
  <2> QED
    BY <2>1 DEF OutcomeTyped, Stage
<1>8. CASE Located
  <2>1. Leave(FALSE) \/ (UNCHANGED <<command, hr>> /\ stage' = "start")
    BY <1>8 DEF Located
  <2> QED
    BY <1>2, <2>1 DEF OutcomeTyped, Stage
<1>9. CASE ScriptEnds
  BY <1>2, <1>9 DEF ScriptEnds
<1>10. CASE Exit
  <2>1. stage' = "prompt" /\ command' = "none" /\ hr' = TRUE
    BY <1>10 DEF Exit
  <2> QED
    BY <2>1 DEF OutcomeTyped, Stage
<1>11. CASE Parse \/ Search \/ DebugExtensionUninitialize \/ DebugExtensionInitialize
  BY <1>1, <1>11 DEF Parse, Search, DebugExtensionUninitialize, DebugExtensionInitialize
<1>12. CASE UNCHANGED hostvars
  BY <1>1, <1>12 DEF hostvars
<1> QED
  BY <1>3, <1>4, <1>5, <1>6, <1>7, <1>8, <1>9, <1>10, <1>11, <1>12 DEF HostNext, Continue

LEMMA LoadTyped == ASSUME TypeOK, ArgsInv, ArgumentsTyped, Load PROVE ArgumentsTyped'
<1>1. CASE UNCHANGED <<argList, i, module, argv>>
  BY <1>1 DEF ArgumentsTyped
<1>2. ASSUME NEW blank \in BOOLEAN, argList' \in CommandLineToArgvW(RemainingArgs, blank),
             UNCHANGED <<i, module, argv>>
      PROVE  ArgumentsTyped'
  <2>1. i = 0 /\ module = 0
    BY DEF ArgsInv, Load
  <2>2. argList' \in Seq(Argument) /\ Len(argList') \in Nat
    BY <1>2, ArgumentVector
  <2>3. i' \in 0 .. Len(argList') /\ module' \in 0 .. Len(argList')
    BY <1>2, <2>1, <2>2
  <2> QED
    BY <1>2, <2>2, <2>3 DEF ArgumentsTyped
<1> QED
  BY <1>1, <1>2 DEF Load, Leave, LeadingBlank

LEMMA PythonSwitchTyped == ASSUME ArgumentsTyped, PythonSwitch PROVE ArgumentsTyped'
<1>1. CASE UNCHANGED <<argList, i, module, argv>>
  BY <1>1 DEF ArgumentsTyped
<1>2. CASE i + 1 < Len(argList) /\ i' = i + 2 /\ module' = i + 2 /\ UNCHANGED <<argList, argv>>
  <2>1. i \in 0 .. Len(argList) /\ Len(argList) \in Nat
    BY DEF ArgumentsTyped
  <2>2. i' \in 0 .. Len(argList) /\ module' \in 0 .. Len(argList)
    BY <1>2, <2>1
  <2> QED
    BY <1>2, <2>2 DEF ArgumentsTyped
<1> QED
  BY <1>1, <1>2 DEF PythonSwitch, Skip, Leave

LEMMA LuaSwitchTyped == ASSUME ArgumentsTyped, LuaSwitch PROVE ArgumentsTyped'
<1>1. CASE UNCHANGED <<argList, i, module, argv>>
  BY <1>1 DEF ArgumentsTyped
<1>2. CASE i' = i + 1 /\ UNCHANGED <<argList, module, argv>>
  <2>1. i < Len(argList)
    BY DEF LuaSwitch, MoreSwitches
  <2>2. i \in 0 .. Len(argList) /\ Len(argList) \in Nat
    BY DEF ArgumentsTyped
  <2>3. i' \in 0 .. Len(argList)
    BY <1>2, <2>1, <2>2
  <2> QED
    BY <1>2, <2>3 DEF ArgumentsTyped
<1> QED
  BY <1>1, <1>2 DEF LuaSwitch, Skip, Leave

LEMMA LocatedTyped == ASSUME PathTyped, ArgumentsTyped, Located PROVE ArgumentsTyped'
<1>1. CASE UNCHANGED <<argList, i, module, argv>>
  BY <1>1 DEF ArgumentsTyped
<1>2. CASE /\ argv' = IF scriptProv = "py" /\ module # 0
                      THEN ModuleArgument \o ArgsForScript
                      ELSE ArgsForScript
           /\ UNCHANGED <<argList, i, module>>
  <2>1. fullPath \in Place
    BY DEF PathTyped, PathTypeOK
  <2>2. Len(argList) \in Nat /\ i \in 0 .. Len(argList) /\ module \in Nat
    BY DEF ArgumentsTyped
  <2>3. PICK own \in {0, 1} : /\ own = 0 => argv' = ArgsForScript
                              /\ own = 1 => argv' = ModuleArgument \o ArgsForScript
    <3>1. CASE scriptProv = "py" /\ module # 0
      <4> WITNESS 1 \in {0, 1}
      <4> QED
        BY <1>2, <3>1
    <3>2. CASE ~(scriptProv = "py" /\ module # 0)
      <4> WITNESS 0 \in {0, 1}
      <4> QED
        BY <1>2, <3>2
    <3> QED
      BY <3>1, <3>2
  <2>4. argv' \in Seq(ScriptArgument)
    BY <2>1, <2>2, <2>3, Handed
  <2> QED
    BY <1>2, <2>4 DEF ArgumentsTyped
<1> QED
  BY <1>1, <1>2 DEF Located, Leave

LEMMA ArgumentsStepTyped ==
  TypeOK /\ ArgsInv /\ PathTyped /\ ArgumentsTyped /\ [HostNext]_hostvars => ArgumentsTyped'
<1> SUFFICES ASSUME TypeOK, ArgsInv, PathTyped, ArgumentsTyped, [HostNext]_hostvars
             PROVE  ArgumentsTyped'
  OBVIOUS
<1>1. CASE UNCHANGED <<argList, i, module, argv>>
  BY <1>1 DEF ArgumentsTyped
<1>2. CASE runscript \/ evalstring \/ scriptpath
  BY <1>1, <1>2 DEF runscript, evalstring, scriptpath, ParsedCommand, Enter
<1>3. CASE ScriptPathRuns \/ Parse \/ Search
  BY <1>1, <1>3 DEF ScriptPathRuns, Parse, Search, run
<1>4. CASE Parsed \/ Start \/ ScriptEnds
  BY <1>1, <1>4 DEF Parsed, Start, ScriptEnds, Leave
<1>5. CASE SwitchesEnd
  BY <1>1, <1>5 DEF SwitchesEnd, FindScript, NoArguments
<1>6. CASE Load \/ LuaSwitch \/ PythonSwitch \/ Located
  BY <1>6, LoadTyped, LuaSwitchTyped, PythonSwitchTyped, LocatedTyped
<1>7. CASE Exit
  <2>1. argList' = <<>> /\ argv' = <<>>
    BY <1>7 DEF Exit
  <2>2. i' = 0 /\ module' = 0
    BY <1>7 DEF Exit
  <2>3. i' \in 0 .. Len(argList') /\ module' \in 0 .. Len(argList')
    BY <2>1, <2>2
  <2> QED
    BY <2>1, <2>2, <2>3 DEF ArgumentsTyped
<1>8. CASE DebugExtensionUninitialize \/ DebugExtensionInitialize
  BY <1>1, <1>8 DEF DebugExtensionUninitialize, DebugExtensionInitialize, run
<1>9. CASE UNCHANGED hostvars
  BY <1>1, <1>9 DEF hostvars, run
<1> QED
  BY <1>2, <1>3, <1>4, <1>5, <1>6, <1>7, <1>8, <1>9 DEF HostNext, Continue

\* Types of the path and the outcome, and what becomes of the arguments.
LEMMA ArgsInductive ==
  /\ HostSpec => [](TypeOK /\ PathTyped /\ OutcomeTyped)
  /\ HostSpec => []ArgsInv
<1>1. HostSpec => []TypeOK
  BY HostSplitsLines, TypeCorrect, PTL
<1>2. HostInit => PathTyped /\ OutcomeTyped
  BY HostInitTyped
<1>3. HostSpec => [](PathTyped /\ OutcomeTyped)
  BY <1>2, PathInductive, PathStepTyped, OutcomeStepTyped, PTL DEF HostSpec
<1>4. HostSpec => []ArgsInv
  BY <1>1, <1>3, ArgsInitially, ArgsStep, PTL DEF HostSpec
<1> QED
  BY <1>1, <1>3, <1>4, PTL

\* Once its provider has taken its own switches, a script has every argument left,
\* once and in order, behind its module's name or the place it was found in; for
\* lines of any length and any words, however quotes join them.  White space before
\* the first argument leaves an empty one, with which no script is found: the script
\* that runs has lost none (Run of the providers).
THEOREM EveryArgumentReachesTheScript == HostSpec => []ArgumentsWhole
BY ArgsInductive, HandedOverWhole, PTL

\* Every variable of the host keeps to its type, whatever the line, the list of
\* directories and the words are: no cursor leaves the list, no count passes the
\* arguments, and a module of Python's is one of them (dllmain.cpp, Run of the
\* providers).
THEOREM HostTypeCorrect == HostSpec => []HostTypeOK
<1>1. HostInit => ArgumentsTyped
  BY HostInitTyped
<1>2. HostSpec => []ArgumentsTyped
  BY <1>1, ArgsInductive, ArgumentsStepTyped, PTL DEF HostSpec
<1> QED
  BY <1>2, ArgsInductive, IfaceInductive, PathInductive, HostTypes, PTL DEF HostTypeInv
=============================================================================
