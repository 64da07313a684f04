-------------------------- MODULE CommandLineProofs --------------------------
(***************************************************************************)
(* Proofs about CommandLine, for every set of words and of lines.  The     *)
(* invariant follows strtok_s through the loop of ParseArgs: the words     *)
(* handed out before the current one are complete host switches, and       *)
(* TimeRun and LangId are what they asked for.                             *)
(***************************************************************************)
EXTENDS CommandLine, TLAPS

\* A token after the first is fetched only when it begins with '-'.
Fetched == pc = "token" => pos = 1 \/ tok \in Switchlike

Before == pc = "token" => Consumed(pos - 1)

Cleared == pc = "prompt" => ~TimeRun /\ LangId = ""

Named == LangId # "" => \E i \in 2 .. Len(args) : args[i - 1] = "-l" /\ args[i] = LangId

Found == pc = "run" => scriptProv = LangId /\ LangId # ""

IInv ==
  /\ TypeOK
  /\ Fetched
  /\ Before
  /\ Cleared
  /\ Named
  /\ Found
  /\ SplitsLine

LEMMA LanguageIds == "" \in LanguageId /\ Word \subseteq LanguageId
BY DEF LanguageId

\* The rest of a line, and every line there is, are sequences of words.
LEMMA RestIsLine ==
  ASSUME NEW s \in Seq(Word), NEW n \in 0 .. Len(s)
  PROVE  SubSeq(s, n + 1, Len(s)) \in Seq(Word)
  OBVIOUS

LEMMA LinesAreSequences == Line \subseteq Seq(Word)
BY CommandLineAssumption, Zenon DEF CommandLineAssumption

\* What the steps below use of the type invariant.
LEMMA Typed ==
  ASSUME TypeOK
  PROVE  /\ args \in Seq(Word)
         /\ Len(args) \in Nat
         /\ pos \in Nat
         /\ pos <= Len(args)
         /\ pc = "token" => pos \in 1 .. Len(args)
<1>1. /\ args \in Seq(Word)
      /\ pos \in 0 .. Len(args)
      /\ pc = "token" => pos > 0
  BY DEF TypeOK
<1> QED
  BY <1>1

\* A -t after complete host switches makes complete host switches.
LEMMA TimeConsumed ==
  ASSUME TypeOK, pc = "token", tok = "-t", Consumed(pos - 1),
         TimeRun' = TRUE, UNCHANGED <<args, LangId>>,
         NEW n \in Nat, n = pos
  PROVE  Consumed(n)'
<1>1. /\ n \in 1 .. Len(args)
      /\ args[n] = "-t"
      /\ args \in Seq(Word)
  <2>1. pos \in 0 .. Len(args) /\ pos > 0 /\ args \in Seq(Word)
    BY DEF TypeOK
  <2> QED
    BY <2>1 DEF tok
<1>2. PICK values \in SUBSET AfterLanguageSwitch(n - 1) :
        HostSwitches(n - 1, values) /\ Asked(n - 1, values)
  BY DEF Consumed
<1>3. values \in SUBSET AfterLanguageSwitch(n)'
  BY <1>1, <1>2 DEF AfterLanguageSwitch
<1>4. \A i \in values : i \in 2 .. n - 1 /\ args[i - 1] = "-l"
  BY <1>2 DEF AfterLanguageSwitch
<1>5. HostSwitches(n, values)'
  <2>1. \A i \in (1 .. n) \ values : i = n \/ i \in (1 .. n - 1) \ values
    BY <1>1
  <2> QED
    BY <1>1, <1>2, <1>4, <2>1 DEF HostSwitches
<1>6. Asked(n, values)'
  <2>1. n \in (1 .. n) \ values
    BY <1>1, <1>4
  <2> QED
    BY <1>1, <1>2, <2>1 DEF Asked
<1> QED
  BY <1>3, <1>5, <1>6 DEF Consumed

\* So does a -l with its language id, which then is the language asked for.
LEMMA LanguageConsumed ==
  ASSUME TypeOK, pc = "token", tok = "-l", pos < Len(args), Consumed(pos - 1),
         LangId' = args[pos + 1], UNCHANGED <<args, TimeRun>>,
         NEW n \in Nat, n = pos + 1
  PROVE  Consumed(n)'
<1>1. /\ n \in 2 .. Len(args)
      /\ args[n - 1] = "-l"
      /\ args \in Seq(Word)
      /\ pos = n - 1
  <2>1. pos \in 0 .. Len(args) /\ pos > 0 /\ args \in Seq(Word)
    BY DEF TypeOK
  <2> QED
    BY <2>1 DEF tok
<1>2. PICK values \in SUBSET AfterLanguageSwitch(n - 2) :
        HostSwitches(n - 2, values) /\ Asked(n - 2, values)
  <2>1. pos - 1 = n - 2
    BY <1>1
  <2> QED
    BY <2>1 DEF Consumed
<1> DEFINE more == values \union {n}
<1>3. \A i \in values : i \in 2 .. n - 2 /\ args[i - 1] = "-l"
  BY <1>2 DEF AfterLanguageSwitch
<1>4. more \in SUBSET AfterLanguageSwitch(n)'
  BY <1>1, <1>3 DEF AfterLanguageSwitch
<1>5. \A i \in (1 .. n) \ more : i = n - 1 \/ i \in (1 .. n - 2) \ values
  BY <1>1
<1>6. HostSwitches(n, more)'
  <2>1. \A i \in more : i - 1 \notin more
    BY <1>1, <1>2, <1>3 DEF HostSwitches
  <2>2. ASSUME NEW i \in (1 .. n) \ more
        PROVE  args[i] = "-t" \/ (args[i] = "-l" /\ i + 1 \in more)
    BY <1>1, <1>2, <1>5 DEF HostSwitches
  <2> QED
    BY <2>1, <2>2 DEF HostSwitches
<1>7. Asked(n, more)'
  <2>1. TimeRun <=> \E i \in (1 .. n) \ more : args[i] = "-t"
    <3>1. \A i \in (1 .. n - 2) \ values : i \in (1 .. n) \ more
      BY <1>1
    <3> QED
      BY <1>1, <1>2, <1>5, <3>1 DEF Asked
  <2>2. \E i \in more : args[n] = args[i] /\ \A j \in more : j <= i
    <3>1. \A j \in more : j <= n
      BY <1>1, <1>3
    <3> QED
      BY <3>1
  <2> QED
    BY <1>1, <2>1, <2>2 DEF Asked
<1> QED
  BY <1>4, <1>6, <1>7 DEF Consumed

\* After complete host switches that end at word n, the loop goes on at the next
\* word or leaves everything after n for the provider.
LEMMA AdvanceKeeps ==
  ASSUME TypeOK, NEW n \in 1 .. Len(args), Advance(n), Consumed(n)',
         TimeRun' \in BOOLEAN, LangId' \in LanguageId
  PROVE  /\ TypeOK'
         /\ Fetched'
         /\ Before'
         /\ pc' \in {"token", "parsed"}
         /\ SplitsLine'
<1>0. args \in Seq(Word) /\ Len(args) \in Nat /\ n \in Nat /\ n <= Len(args)
  BY Typed
<1>1. CASE n < Len(args) /\ args[n + 1] \in Switchlike
  <2>1. /\ pc' = "token"
        /\ pos' = n + 1
        /\ UNCHANGED <<args, RemainingArgs, scriptProv>>
    BY <1>1 DEF Advance, peekNextTokenChar
  <2>2. TypeOK'
    <3>1. n + 1 \in 0 .. Len(args)
      BY <1>0, <1>1
    <3>2. n + 1 > 0
      BY <1>0
    <3> QED
      BY <2>1, <3>1, <3>2 DEF TypeOK
  <2>3. Fetched'
    BY <1>1, <2>1 DEF Fetched, tok
  <2>4. (pos - 1)' = n
    <3>1. n + 1 - 1 = n
      BY <1>0
    <3> QED
      BY <2>1, <3>1
  <2>5. Before'
    BY <2>4 DEF Before
  <2>6. SplitsLine'
    BY <2>1 DEF SplitsLine
  <2> QED
    BY <2>1, <2>2, <2>3, <2>5, <2>6
<1>2. CASE ~(n < Len(args) /\ args[n + 1] \in Switchlike)
  <2>1. /\ pc' = "parsed"
        /\ pos' = n
        /\ RemainingArgs' = Rest(n)
        /\ UNCHANGED <<args, scriptProv>>
    BY <1>2 DEF Advance, peekNextTokenChar
  <2>2. n \in 0 .. Len(args)
    BY <1>0
  <2>3. Rest(n) \in Seq(Word)
    BY <1>0, <2>2, RestIsLine DEF Rest
  <2>3a. TypeOK'
    BY <2>1, <2>2, <2>3 DEF TypeOK
  <2>4. Fetched' /\ Before'
    BY <2>1 DEF Fetched, Before
  <2>5. n \in 0 .. Len(args)'
    BY <2>1, <2>2
  <2>5a. RemainingArgs' = Rest(n)'
    BY <2>1 DEF Rest
  <2>6. SplitsLine'
    BY <1>2, <2>1, <2>5, <2>5a DEF SplitsLine
  <2> QED
    BY <2>1, <2>3a, <2>4, <2>6
<1> QED
  BY <1>1, <1>2

LEMMA Initially == Init => IInv
<1> SUFFICES ASSUME Init PROVE IInv
  OBVIOUS
<1>1. TypeOK
  <2>1. <<>> \in Seq(Word)
    OBVIOUS
  <2>2. 0 \in 0 .. Len(<<>>)
    OBVIOUS
  <2> QED
    BY <2>1, <2>2, LanguageIds DEF Init, TypeOK
<1> QED
  BY <1>1 DEF Init, IInv, Fetched, Before, Cleared, Named, Found, SplitsLine

LEMMA InvokeKeeps == IInv /\ Invoke => IInv'
<1> SUFFICES ASSUME IInv, Invoke PROVE IInv'
  OBVIOUS
<1> USE DEF IInv
<1>1. PICK line \in Line :
        /\ args' = line
        /\ IF line = <<>>
           THEN pc' = "failed" /\ pos' = 0
           ELSE pc' = "token" /\ pos' = 1
  BY DEF Invoke
<1>2. /\ pc = "prompt"
      /\ UNCHANGED <<TimeRun, LangId, RemainingArgs, scriptProv>>
      /\ TimeRun = FALSE
      /\ LangId = ""
  BY DEF Invoke, Cleared, TypeOK
<1>3. line \in Seq(Word)
  BY LinesAreSequences
<1>4. TypeOK'
  <2>1. Len(line) \in Nat
    BY <1>3
  <2>2. line # <<>> => Len(line) > 0
    BY <1>3
  <2>3. 0 \in 0 .. Len(line)
    BY <2>1
  <2>4. line # <<>> => 1 \in 0 .. Len(line)
    BY <2>1, <2>2
  <2>5. /\ args' \in Seq(Word)
        /\ pos' \in 0 .. Len(args')
        /\ pc' \in {"token", "failed"}
        /\ pc' = "token" => pos' > 0
    <3>1. CASE line = <<>>
      BY <1>1, <1>3, <2>3, <3>1
    <3>2. CASE line # <<>>
      BY <1>1, <1>3, <2>4, <3>2
    <3> QED
      BY <3>1, <3>2
  <2>6. TypeOK /\ UNCHANGED <<TimeRun, LangId, RemainingArgs, scriptProv>>
    BY <1>2
  <2> QED
    BY <2>5, <2>6 DEF TypeOK
<1>5. Fetched' /\ Cleared' /\ Named' /\ Found' /\ SplitsLine'
  BY <1>1, <1>2 DEF Fetched, Cleared, Named, Found, SplitsLine
<1>6. Before'
  <2> SUFFICES ASSUME pc' = "token" PROVE Consumed(0)'
    <3>1. pc' = "token" => (pos - 1)' = 0
      BY <1>1
    <3> QED
      BY <3>1 DEF Before
  <2>1. HostSwitches(0, {})'
    BY DEF HostSwitches
  <2>2. Asked(0, {})'
    <3>1. TimeRun' = FALSE /\ LangId' = ""
      BY <1>2
    <3>2. (1 .. 0) \ {} = {}
      OBVIOUS
    <3> QED
      BY <3>1, <3>2 DEF Asked
  <2>3. {} \in SUBSET AfterLanguageSwitch(0)'
    OBVIOUS
  <2> QED
    BY <2>1, <2>2, <2>3 DEF Consumed
<1> QED
  BY <1>4, <1>5, <1>6

LEMMA ParseArgsKeeps == IInv /\ ParseArgs => IInv'
<1>0. SUFFICES ASSUME IInv, ParseArgs PROVE IInv'
  OBVIOUS
<1>1. /\ pc = "token"
      /\ args \in Seq(Word)
      /\ pos \in 1 .. Len(args)
      /\ Len(args) \in Nat
      /\ TimeRun \in BOOLEAN
      /\ LangId \in LanguageId
      /\ Consumed(pos - 1)
  <2>0. TypeOK
    BY <1>0 DEF IInv
  <2>1. pc = "token"
    BY <1>0 DEF ParseArgs, EndOfSwitches, TimeSwitch, LanguageSwitch, LanguageMissing,
           UnknownSwitch, PlainWord
  <2>2. TimeRun \in BOOLEAN /\ LangId \in LanguageId
    BY <2>0 DEF TypeOK
  <2>3. Consumed(pos - 1)
    BY <1>0, <2>1 DEF IInv, Before
  <2> QED
    BY <2>0, <2>1, <2>2, <2>3, Typed
<1>2. CASE Break /\ (tok = "--" \/ tok \notin Switchlike)
  <2>1. /\ pc' = "parsed"
        /\ RemainingArgs' = Rest(pos)
        /\ UNCHANGED <<args, pos, TimeRun, LangId, scriptProv>>
    BY <1>2 DEF Break, nextTok
  <2>2. Rest(pos) \in Seq(Word)
    <3>1. pos \in 0 .. Len(args)
      BY <1>1
    <3> QED
      BY <1>1, <3>1, RestIsLine DEF Rest
  <2>3. TypeOK'
    BY <1>0, <2>1, <2>2 DEF IInv, TypeOK
  <2>4. Fetched' /\ Before' /\ Cleared' /\ Found'
    BY <2>1 DEF Fetched, Before, Cleared, Found
  <2>5. Named'
    BY <1>0, <2>1 DEF IInv, Named
  <2>6. SplitsLine'
    <3> SUFFICES ASSUME args[1] \in Switchlike PROVE SplitsLine'
      BY <2>1 DEF SplitsLine
    <3>1. tok = "--"
      <4>1. tok \in Switchlike
        BY <1>0, <1>1 DEF IInv, Fetched, tok
      <4> QED
        BY <1>2, <4>1
    <3>2. /\ pos - 1 \in 0 .. Len(args)
          /\ pos - 1 < Len(args)
          /\ pos - 1 + 1 = pos
      <4>1. pos \in Nat /\ pos > 0 /\ pos <= Len(args) /\ Len(args) \in Nat
        BY <1>1
      <4> QED
        BY <4>1
    <3>3. args[pos] = "--"
      BY <3>1 DEF tok
    <3> DEFINE n == pos - 1
    <3>4. Consumed(n)'
      <4>1. Consumed(n)' <=> Consumed(n)
        BY <2>1 DEF Consumed, HostSwitches, Asked, AfterLanguageSwitch
      <4> QED
        BY <1>1, <4>1
    <3>5. /\ n' \in 0 .. Len(args')
          /\ n' < Len(args')
          /\ args'[n' + 1] = "--"
          /\ RemainingArgs' = Rest(n + 1)'
      BY <2>1, <3>2, <3>3 DEF Rest
    <3> HIDE DEF n
    <3> QED
      BY <3>4, <3>5 DEF SplitsLine
  <2> QED
    BY <2>3, <2>4, <2>5, <2>6 DEF IInv
<1>3. CASE Fail
  <2>1. pc' = "failed" /\ UNCHANGED <<args, pos, TimeRun, LangId, RemainingArgs, scriptProv>>
    BY <1>3 DEF Fail
  <2>2. TypeOK'
    BY <1>0, <2>1 DEF IInv, TypeOK
  <2>3. Fetched' /\ Before' /\ Cleared' /\ Found' /\ SplitsLine'
    BY <2>1 DEF Fetched, Before, Cleared, Found, SplitsLine
  <2>4. Named'
    BY <1>0, <2>1 DEF IInv, Named
  <2> QED
    BY <2>2, <2>3, <2>4 DEF IInv
<1>4. CASE TimeSwitch
  <2>1. PICK n \in 1 .. Len(args) : n = pos
    BY <1>1
  <2>2. /\ tok = "-t"
        /\ TimeRun' = TRUE
        /\ Advance(n)
        /\ UNCHANGED <<args, LangId, scriptProv>>
    BY <1>4, <2>1 DEF TimeSwitch, Advance
  <2>2a. n \in Nat
    OBVIOUS
  <2>3. Consumed(n)'
    BY <1>0, <1>1, <2>1, <2>2, <2>2a, TimeConsumed DEF IInv
  <2>4. /\ TypeOK' /\ Fetched' /\ Before' /\ SplitsLine'
        /\ pc' \in {"token", "parsed"}
    BY <1>0, <1>1, <2>2, <2>3, AdvanceKeeps DEF IInv
  <2>5. Cleared' /\ Found'
    BY <2>4 DEF Cleared, Found
  <2>6. Named'
    BY <1>0, <2>2 DEF IInv, Named
  <2> QED
    BY <2>4, <2>5, <2>6 DEF IInv
<1>5. CASE LanguageSwitch
  <2>1. pos < Len(args)
    BY <1>5 DEF LanguageSwitch
  <2>1a. pos + 1 \in 1 .. Len(args)
    <3>1. pos \in Nat /\ Len(args) \in Nat
      BY <1>1
    <3> QED
      BY <2>1, <3>1
  <2>2. PICK n \in 1 .. Len(args) : n = pos + 1
    BY <2>1a
  <2>3. /\ tok = "-l"
        /\ LangId' = args[pos + 1]
        /\ LangId' = args[n]
        /\ Advance(n)
        /\ UNCHANGED <<args, TimeRun, scriptProv>>
    BY <1>5, <2>2 DEF LanguageSwitch, Advance
  <2>3a. n \in Nat
    OBVIOUS
  <2>4. Consumed(n)'
    BY <1>0, <1>1, <2>1, <2>2, <2>3, <2>3a, LanguageConsumed DEF IInv
  <2>5. LangId' \in Word
    <3>1. args \in Seq(Word)
      BY <1>1
    <3> QED
      BY <2>3, <3>1
  <2>5a. LangId' \in LanguageId
    BY <2>5, LanguageIds
  <2>6. /\ TypeOK' /\ Fetched' /\ Before' /\ SplitsLine'
        /\ pc' \in {"token", "parsed"}
    BY <1>0, <1>1, <2>3, <2>4, <2>5a, AdvanceKeeps DEF IInv
  <2>7. Cleared' /\ Found'
    BY <2>6 DEF Cleared, Found
  <2>8. n \in 2 .. Len(args) /\ args[n - 1] = "-l"
    <3>1. pos \in Nat /\ pos >= 1
      BY <1>1
    <3>2. n - 1 = pos /\ n >= 2
      BY <2>2, <3>1
    <3> QED
      BY <2>3, <3>2 DEF tok
  <2>9. Named'
    BY <2>3, <2>8 DEF Named
  <2> QED
    BY <2>6, <2>7, <2>9 DEF IInv
<1> QED
  BY <1>0, <1>2, <1>3, <1>4, <1>5
     DEF ParseArgs, EndOfSwitches, LanguageMissing, UnknownSwitch, PlainWord

LEMMA OthersKeep == IInv /\ (findScriptProvider \/ Return) => IInv'
<1> SUFFICES ASSUME IInv, findScriptProvider \/ Return PROVE IInv'
  OBVIOUS
<1> USE DEF IInv
<1>1. CASE findScriptProvider
  <2>1. /\ UNCHANGED <<args, pos, TimeRun, LangId, RemainingArgs>>
        /\ pc' \in {"run", "failed"}
        /\ pc' = "run" => LangId \in ProviderIds /\ scriptProv' = LangId
        /\ scriptProv' = scriptProv \/ scriptProv' = LangId
    BY <1>1 DEF findScriptProvider
  <2>2. ProviderIds \subseteq Plain
    <3>1. Registered \in Seq(Plain)
      BY CommandLineAssumption, Zenon DEF CommandLineAssumption
    <3> QED
      BY <3>1 DEF ProviderIds
  <2>3. "" \notin Plain
    BY CommandLineAssumption, Zenon DEF CommandLineAssumption, Word
  <2>4. scriptProv' \in LanguageId
    BY <1>1, <2>1 DEF findScriptProvider, TypeOK
  <2>5. TypeOK'
    BY <2>1, <2>4 DEF TypeOK
  <2>6. Fetched' /\ Before' /\ Cleared' /\ SplitsLine'
    BY <2>1 DEF Fetched, Before, Cleared, SplitsLine
  <2>7. Named'
    BY <2>1 DEF Named
  <2>8. Found'
    BY <2>1, <2>2, <2>3 DEF Found
  <2> QED
    BY <2>5, <2>6, <2>7, <2>8
<1>2. CASE Return
  <2>1. TypeOK'
    <3>1. <<>> \in Seq(Word)
      OBVIOUS
    <3>2. 0 \in 0 .. Len(<<>>)
      OBVIOUS
    <3> QED
      BY <1>2, <3>1, <3>2, LanguageIds DEF Return, TypeOK
  <2> QED
    BY <1>2, <2>1 DEF Return, Fetched, Before, Cleared, Named, Found, SplitsLine
<1> QED
  BY <1>1, <1>2

LEMMA StepKeeps == IInv /\ [Next]_vars => IInv'
<1> SUFFICES ASSUME IInv, [Next]_vars PROVE IInv'
  OBVIOUS
<1>1. CASE Invoke
  BY <1>1, InvokeKeeps
<1>2. CASE ParseArgs
  BY <1>2, ParseArgsKeeps
<1>3. CASE findScriptProvider \/ Return
  BY <1>3, OthersKeep
<1>4. CASE UNCHANGED vars
  <2>1. Consumed(pos - 1)' <=> Consumed(pos - 1)
    BY <1>4 DEF vars, Consumed, HostSwitches, Asked, AfterLanguageSwitch
  <2>2. SplitsLine'
    BY <1>4 DEF vars, IInv, SplitsLine, Consumed, HostSwitches, Asked,
                AfterLanguageSwitch, Rest
  <2> QED
    BY <1>4, <2>1, <2>2 DEF vars, IInv, TypeOK, Fetched, tok, Before, Cleared, Named, Found
<1> QED
  BY <1>1, <1>2, <1>3, <1>4 DEF Next

LEMMA Inductive == Spec => []IInv
BY Initially, StepKeeps, PTL DEF Spec

-----------------------------------------------------------------------------

\* Type correctness of the parser, for lines of any length: in particular ParseArgs
\* never hands out a word beyond the line's end.
THEOREM TypeCorrect == Spec => []TypeOK
BY Inductive, PTL DEF IInv

\* However long a line that begins with a switch, ParseArgs takes from it the
\* host's switches and nothing else, and leaves the provider the rest whole.
THEOREM LineSplit == Spec => []SplitsLine
BY Inductive, PTL DEF IInv

\* runscript and evalstring call only the provider the line's -l names.
THEOREM NamedProviderRuns == Spec => []RunsNamedProvider
<1>1. IInv => RunsNamedProvider
  BY DEF IInv, Found, Named, RunsNamedProvider
<1> QED
  BY <1>1, Inductive, PTL
=============================================================================
