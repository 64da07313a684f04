----------------------------- MODULE CommandLine -----------------------------
(***************************************************************************)
(* How !runscript and !evalstring split their arguments between the host   *)
(* layer and the script provider they select (ParseArgs in cmdline.cpp,    *)
(* findScriptProvider in dllmain.cpp).                                     *)
(*                                                                         *)
(* A line is the sequence of its words.  strtok_s hands them out one by    *)
(* one, cutting the line after each, so that whatever it has not handed    *)
(* out is left whole for the provider; `pos' counts the words it has       *)
(* handed out, and nextTok is the rest of the line.  Only the first        *)
(* character of a word that is no switch matters: whether it is a '-'.     *)
(***************************************************************************)
EXTENDS Integers, Sequences

CONSTANTS
  Switchlike, \* the words in use that begin with '-'
  Plain,      \* the words in use that do not
  Registered, \* the language ids of the registered providers, head of the list first
  Line        \* bound: the lines that are entered, each the sequence of its words

Word == Switchlike \union Plain

\* A language id, or the empty string of a line that names none.
LanguageId == Word \union {""}

ASSUME CommandLineAssumption ==
  /\ {"--", "-t", "-l"} \subseteq Switchlike
  /\ Switchlike \intersect Plain = {}
  /\ "" \notin Word
  /\ Registered \in Seq(Plain) \ {<<>>}
  /\ Line \subseteq Seq(Word)

VARIABLES
  pc,            \* where the command is
  args,          \* the words of the line
  pos,           \* the words strtok_s has handed out
  TimeRun,       \* parsedArgs.TimeRun
  LangId,        \* parsedArgs.LangId
  RemainingArgs, \* parsedArgs.RemainingArgs
  scriptProv     \* the language id of the provider found

vars == <<pc, args, pos, TimeRun, LangId, RemainingArgs, scriptProv>>

TypeOK ==
  /\ pc \in {"prompt", "token", "parsed", "run", "failed"}
  /\ args \in Seq(Word)
  /\ pos \in 0 .. Len(args)
  /\ pc = "token" => pos > 0
  /\ TimeRun \in BOOLEAN
  /\ LangId \in LanguageId
  /\ RemainingArgs \in Seq(Word)
  /\ scriptProv \in LanguageId

Init ==
  /\ pc = "prompt"
  /\ args = <<>>
  /\ pos = 0
  /\ TimeRun = FALSE
  /\ LangId = ""
  /\ RemainingArgs = <<>>
  /\ scriptProv = ""

tok == args[pos]
Rest(n) == SubSeq(args, n + 1, Len(args))
nextTok == Rest(pos)

-----------------------------------------------------------------------------
(* ParseArgs                                                               *)

\* The user enters a command: the line is copied and its first word fetched.  A
\* line without a word is refused.
Invoke ==
  /\ pc = "prompt"
  /\ \E line \in Line :
       /\ args' = line
       /\ IF line = <<>>
          THEN pc' = "failed" /\ pos' = 0
          ELSE pc' = "token" /\ pos' = 1
  /\ UNCHANGED <<TimeRun, LangId, RemainingArgs, scriptProv>>

\* The loop is over: the provider gets what has not been handed out.
Break ==
  /\ pc' = "parsed"
  /\ RemainingArgs' = nextTok
  /\ UNCHANGED <<args, pos, TimeRun, LangId, scriptProv>>

Fail ==
  /\ pc' = "failed"
  /\ UNCHANGED <<args, pos, TimeRun, LangId, RemainingArgs, scriptProv>>

peekNextTokenChar(n) == IF n < Len(args) /\ args[n + 1] \in Switchlike THEN "-" ELSE "other"

\* Fault: the next word is fetched whatever it begins with.
AdvanceAlways(n) ==
  /\ IF n < Len(args)
     THEN pc' = "token" /\ pos' = n + 1 /\ UNCHANGED RemainingArgs
     ELSE pc' = "parsed" /\ pos' = n /\ RemainingArgs' = Rest(n)
  /\ UNCHANGED <<args, scriptProv>>

\* Fault: the word that ends the loop counts as handed out.
AdvancePast(n) ==
  /\ pos' = n + 1
  /\ IF peekNextTokenChar(n) = "-"
     THEN pc' = "token" /\ UNCHANGED RemainingArgs
     ELSE pc' = "parsed" /\ RemainingArgs' = Rest(n)
  /\ UNCHANGED <<args, scriptProv>>

\* Fault: the next word is not fetched.
AdvanceNowhere(n) ==
  /\ IF peekNextTokenChar(n) = "-"
     THEN pc' = "token" /\ pos' = n /\ UNCHANGED RemainingArgs
     ELSE pc' = "parsed" /\ pos' = n /\ RemainingArgs' = Rest(n)
  /\ UNCHANGED <<args, scriptProv>>

\* After a switch that ends at word n: on to the next word, which is fetched only
\* if it may be a switch, too.
Advance(n) ==
  /\ IF peekNextTokenChar(n) = "-"
     THEN pc' = "token" /\ pos' = n + 1 /\ UNCHANGED RemainingArgs
     ELSE pc' = "parsed" /\ pos' = n /\ RemainingArgs' = Rest(n)
  /\ UNCHANGED <<args, scriptProv>>

EndOfSwitches == pc = "token" /\ tok = "--" /\ Break

TimeSwitch ==
  /\ pc = "token"
  /\ tok = "-t"
  /\ TimeRun' = TRUE
  /\ Advance(pos)
  /\ UNCHANGED LangId

\* Fault: the first -l wins.
FirstLanguageSwitch ==
  /\ pc = "token"
  /\ tok = "-l"
  /\ pos < Len(args)
  /\ LangId' = IF LangId = "" THEN args[pos + 1] ELSE LangId
  /\ Advance(pos + 1)
  /\ UNCHANGED TimeRun

LanguageSwitch ==
  /\ pc = "token"
  /\ tok = "-l"
  /\ pos < Len(args)
  /\ LangId' = args[pos + 1]
  /\ Advance(pos + 1)
  /\ UNCHANGED TimeRun

LanguageMissing == pc = "token" /\ tok = "-l" /\ pos = Len(args) /\ Fail

UnknownSwitch == pc = "token" /\ tok \in Switchlike \ {"--", "-t", "-l"} /\ Fail

PlainWord == pc = "token" /\ tok \notin Switchlike /\ Break

ParseArgs ==
  \/ EndOfSwitches
  \/ TimeSwitch
  \/ LanguageSwitch
  \/ LanguageMissing
  \/ UnknownSwitch
  \/ PlainWord

-----------------------------------------------------------------------------
(* findScriptProvider, and the way back to the prompt                      *)

ProviderIds == {Registered[i] : i \in 1 .. Len(Registered)}

\* Fault: a language nobody registered falls back on the default provider.
findScriptProviderOrDefault ==
  /\ pc = "parsed"
  /\ scriptProv' = IF LangId \in ProviderIds THEN LangId ELSE Registered[1]
  /\ pc' = "run"
  /\ UNCHANGED <<args, pos, TimeRun, LangId, RemainingArgs>>

\* LangId is an array, never null: the registered ids are always searched, even
\* for the empty one of a line without -l.
findScriptProvider ==
  /\ pc = "parsed"
  /\ IF LangId \in ProviderIds
     THEN pc' = "run" /\ scriptProv' = LangId
     ELSE pc' = "failed" /\ UNCHANGED scriptProv
  /\ UNCHANGED <<args, pos, TimeRun, LangId, RemainingArgs>>

\* Everything the command parsed was its own.
Return ==
  /\ pc \in {"run", "failed"}
  /\ pc' = "prompt"
  /\ args' = <<>>
  /\ pos' = 0
  /\ TimeRun' = FALSE
  /\ LangId' = ""
  /\ RemainingArgs' = <<>>
  /\ scriptProv' = ""

Next ==
  \/ Invoke
  \/ ParseArgs
  \/ findScriptProvider
  \/ Return

Spec == Init /\ [][Next]_vars

-----------------------------------------------------------------------------
(* Properties                                                              *)

AfterLanguageSwitch(n) == {i \in 2 .. n : args[i - 1] = "-l"}

\* The first n words of the line are complete host switches, the words at the
\* positions in `values' being the language ids that follow a -l.
HostSwitches(n, values) ==
  /\ \A i \in values : i - 1 \notin values
  /\ \A i \in (1 .. n) \ values :
       \/ args[i] = "-t"
       \/ args[i] = "-l" /\ i + 1 \in values

\* What the first n words ask for: -t anywhere among the switches, and the
\* language of the last -l.
Asked(n, values) ==
  /\ TimeRun <=> \E i \in (1 .. n) \ values : args[i] = "-t"
  /\ IF values = {}
     THEN LangId = ""
     ELSE \E i \in values : LangId = args[i] /\ \A j \in values : j <= i

Consumed(n) ==
  \E values \in SUBSET AfterLanguageSwitch(n) :
    HostSwitches(n, values) /\ Asked(n, values)

\* A line that begins with a switch is split as the documentation of !runscript
\* and ParseArgs have it: host switches, the optional terminator, and then all
\* the rest for the provider, not a word of it lost, doubled or taken for a switch
\* although it may contain the host's own.
SplitsLine ==
  pc = "parsed" /\ args[1] \in Switchlike =>
    \E n \in 0 .. Len(args) :
      /\ Consumed(n)
      /\ \/ n < Len(args) /\ args[n + 1] = "--" /\ RemainingArgs = Rest(n + 1)
         \/ (n < Len(args) => args[n + 1] \notin Switchlike) /\ RemainingArgs = Rest(n)

\* A command runs with the provider of the last -l the host accepted, and with
\* none that the line does not name.
RunsNamedProvider ==
  pc = "run" =>
    /\ scriptProv = LangId
    /\ \E i \in 2 .. Len(args) : args[i - 1] = "-l" /\ args[i] = scriptProv

\* The examples of docs/Reference.rst for !runscript: a line of host switches, an
\* optional terminator and a script runs that script, with "either the default or"
\* the provider chosen "via the -l switch".
RunsScriptGiven ==
  \A n \in 0 .. Len(args) - 1 : \A values \in SUBSET AfterLanguageSwitch(n) :
    (/\ pc \in {"run", "failed"}
     /\ HostSwitches(n, values)
     /\ args[n + 1] \in Plain
     /\ \A i \in values : args[i] \in ProviderIds)
      => /\ pc = "run"
         /\ RemainingArgs = Rest(n)
         /\ scriptProv = IF values = {} THEN Registered[1] ELSE LangId
=============================================================================
