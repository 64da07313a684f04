---------------------------- MODULE MCCommandLine ----------------------------
(***************************************************************************)
(* CommandLine with every line of up to two words over the host's          *)
(* switches, a switch of a provider's, two language ids of which one is    *)
(* registered first, and a script's name.                                  *)
(***************************************************************************)
EXTENDS CommandLine

MCSwitchlike == {"--", "-t", "-l", "-m"}
MCPlain == {"rb", "py", "script"}
MCRegistered == <<"rb", "py">>
MCLine == UNION {[1 .. n -> MCSwitchlike \cup MCPlain] : n \in 0 .. 2}
=============================================================================
