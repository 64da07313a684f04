---------------------------- MODULE MCHostCommand ----------------------------
(***************************************************************************)
(* HostCommand with the host's switches, Lua's and Python's, and the ids   *)
(* of the three providers, which also serve as names of scripts and as     *)
(* arguments.  Two clients, which may refuse the third interface; lists of *)
(* one and of three directories.                                           *)
(*                                                                         *)
(* The lines are all of up to three words of the host's, those in which a  *)
(* provider gets up to three words after the terminator, one of them a     *)
(* quoted switch, and those that name two languages before up to two other *)
(* words.                                                                  *)
(***************************************************************************)
EXTENDS HostCommand

MCSwitchlike == {"--", "-t", "-l", "-m", "-d"}
MCLanguage == {"lua", "py", "rb"}
MCQuoted == "\"-m\""
MCPlain == MCLanguage \cup {MCQuoted}
MCUnquoted == [word \in MCSwitchlike \cup MCPlain \cup {"windbg"} |->
                 IF word = MCQuoted THEN "-m" ELSE word]
MCRegistered == <<"lua", "py", "rb">>

Lines(words, n) == UNION {[1 .. k -> words] : k \in 0 .. n}

MCLine ==
  Lines({"--", "-t", "-l", "-m", "lua", "py"}, 3)
    \cup {<<"-l", id, "--">> \o rest :
            id \in MCLanguage, rest \in Lines({"-m", "py", MCQuoted}, 3) \cup Lines({"-d", "py"}, 3)}
    \cup {<<"-l", id, "-l", other>> \o rest :
            id \in MCLanguage, other \in MCLanguage, rest \in Lines({"-t", "--", "rb"}, 2)}

MCPathArgument == {<<"a">>, <<"b", "a", "c">>}
=============================================================================
