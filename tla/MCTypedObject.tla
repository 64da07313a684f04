--------------------------- MODULE MCTypedObject ---------------------------
(***************************************************************************)
(* ScriptData with two modules, A at base 1 and B at either of two bases,  *)
(* so that each can take the place of the other; two type ids, the first   *)
(* of which scripts ask for by name in both modules.  A Lua object's       *)
(* memory is clear, or that of a class object of the module at base 1.     *)
(* Read buffers have four characters, bytes two values.                    *)
(***************************************************************************)
EXTENDS ScriptData

CONSTANTS A, B

MCSymbol == {<<A, 1>>, <<B, 1>>}

Old == [Zeroed EXCEPT !.TypedDataValid = TRUE,
                      !.TypedData = [tag |-> "class", TypeId |-> 1, ModBase |-> 1],
                      !.clean = FALSE, !.stray = TRUE]

MCCount == -1 .. 5

MCLoadable == {<<1, A>>, <<1, B>>, <<2, B>>}

MCLuaMemory == {Zeroed, Old}
=============================================================================
