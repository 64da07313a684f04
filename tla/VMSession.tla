----------------------------- MODULE VMSession -----------------------------
(***************************************************************************)
(* What dbgscript promises about the virtual machines scripts run in: "By  *)
(* default, every script execution or string evaluation will recycle the   *)
(* script provider's virtual machine", and !startvm instructs it "to       *)
(* preserve the VM state for all providers until !stopvm is called"        *)
(* (docs/Reference.rst).                                                   *)
(***************************************************************************)
EXTENDS Naturals, Sequences

CONSTANT Provider

VARIABLES
  session, \* a VM session is in progress
  vm,      \* each provider's machine, 0 when it has none
  ever,    \* the number of machines started so far; they are numbered from 1
  running  \* the scripts in progress, innermost last, each with its machine

vars == <<session, vm, ever, running>>

Init ==
  /\ session = FALSE
  /\ vm = [p \in Provider |-> 0]
  /\ ever = 0
  /\ running = <<>>

\* A script starts in a new machine when its provider has none.
BeginFresh(p) ==
  /\ vm[p] = 0
  /\ ever' = ever + 1
  /\ vm' = [vm EXCEPT ![p] = ever']
  /\ running' = Append(running, <<p, ever'>>)
  /\ UNCHANGED session

\* It finds one only inside a session, or from a script still in progress.
BeginKept(p) ==
  /\ vm[p] # 0
  /\ session \/ \E i \in 1 .. Len(running) : running[i] = <<p, vm[p]>>
  /\ running' = Append(running, <<p, vm[p]>>)
  /\ UNCHANGED <<session, vm, ever>>

\* The innermost script ends.  In a session it still has the machine it started
\* in, which is kept; outside one the machine is thrown away, if it is not gone
\* already, and no other is.
End ==
  /\ running # <<>>
  /\ LET script == running[Len(running)] IN
       /\ vm[script[1]] \in (IF session THEN {script[2]} ELSE {0, script[2]})
       /\ vm' = IF session THEN vm ELSE [vm EXCEPT ![script[1]] = 0]
  /\ running' = SubSeq(running, 1, Len(running) - 1)
  /\ UNCHANGED <<session, ever>>

StartSession ==
  /\ running = <<>>
  /\ ~session
  /\ session' = TRUE
  /\ UNCHANGED <<vm, ever, running>>

\* Ending the session throws every machine away, those of scripts in progress,
\* too; so does unloading dbgscript.
StopSession ==
  /\ session \/ running = <<>>
  /\ session' = FALSE
  /\ vm' = [p \in Provider |-> 0]
  /\ UNCHANGED <<ever, running>>

Next ==
  \/ \E p \in Provider : BeginFresh(p) \/ BeginKept(p)
  \/ End
  \/ StartSession
  \/ StopSession

Spec == Init /\ [][Next]_vars
=============================================================================
