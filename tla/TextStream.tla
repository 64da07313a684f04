----------------------------- MODULE TextStream -----------------------------
(***************************************************************************)
(* What dbgscript promises about output: a stream of text, which the user  *)
(* sees at once or, between start_buffering and stop_buffering, "in 8K     *)
(* chunks" (docs/shared/start_buffering.txt), and of which nothing is left *)
(* when a script has ended, "for any reason"                               *)
(* (docs/shared/stop_buffering.txt).                                       *)
(***************************************************************************)
EXTENDS Integers, Sequences

CONSTANTS
  Char,    \* the characters texts are made of
  Capacity \* the length of a chunk

VARIABLES
  written, \* the text that scripts and the commands they execute have written
  seen,    \* the text the user has seen
  holding, \* text is held back
  prompt,  \* no script is in progress
  reports  \* the number of failed scripts reported

vars == <<written, seen, holding, prompt, reports>>

Continues(text, longer) ==
  /\ Len(text) <= Len(longer)
  /\ \A i \in 1 .. Len(text) : longer[i] = text[i]

Init ==
  /\ written = <<>>
  /\ seen = <<>>
  /\ holding = FALSE
  /\ prompt = TRUE
  /\ reports = 0

Begin ==
  /\ prompt
  /\ prompt' = FALSE
  /\ UNCHANGED <<written, seen, holding, reports>>

\* Text is seen at once, or it is held back together with what is held already
\* if one chunk takes both; else what was held is seen first.
Write ==
  /\ ~prompt
  /\ written' \in Seq(Char)
  /\ Continues(written, written')
  /\ \/ /\ ~holding
        /\ seen' = written'
     \/ /\ holding
        /\ Len(written') - Len(seen) <= Capacity
        /\ seen' = seen
     \/ /\ holding
        /\ Len(written') - Len(seen) > Capacity
        /\ Len(written') - Len(written) <= Capacity
        /\ seen' = written
  /\ UNCHANGED <<holding, prompt, reports>>

Hold ==
  /\ ~prompt
  /\ ~holding
  /\ holding' = TRUE
  /\ UNCHANGED <<written, seen, prompt, reports>>

Release ==
  /\ holding
  /\ holding' = FALSE
  /\ seen' = written
  /\ UNCHANGED <<written, prompt, reports>>

\* A failure is reported behind all that was written before it.
Report ==
  /\ ~prompt
  /\ seen' = written
  /\ reports' = reports + 1
  /\ UNCHANGED <<written, holding, prompt>>

\* A script ends, the outermost or one executed by another, well or badly.
End ==
  /\ ~prompt
  /\ holding' = FALSE
  /\ seen' = written
  /\ prompt' \in BOOLEAN
  /\ reports' \in {reports, reports + 1}
  /\ UNCHANGED written

Next == Begin \/ Write \/ Hold \/ Release \/ Report \/ End

Spec == Init /\ [][Next]_vars

-----------------------------------------------------------------------------

\* What a reader of the debugger window relies on: it has a beginning of what was
\* written, short of it by no more than a chunk, by nothing unless text is held
\* back, and by nothing at the prompt.
ReadsOn ==
  /\ written \in Seq(Char)
  /\ seen \in Seq(Char)
  /\ Continues(seen, written)
  /\ Len(written) - Len(seen) <= Capacity
  /\ holding \/ seen = written
  /\ prompt => ~holding
=============================================================================
