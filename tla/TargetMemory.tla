---------------------------- MODULE TargetMemory ----------------------------
(***************************************************************************)
(* What reading the target's memory gives a script: strings                *)
(* (support/util.cpp and util.cpp of the providers) and values of          *)
(* primitive types (luaValueFromCValue, pyValueFromCValue and              *)
(* rbValueFromCValue).  A read changes no state, so it is an operator: the *)
(* set of the answers a script may get.  An answer is a number, or Error   *)
(* for whatever the language raises.                                       *)
(*                                                                         *)
(* A string of the target is the number of its characters before the NUL,  *)
(* and how many bytes the widest of them takes in UTF-8.  Of the text that *)
(* reaches the script its length is kept: the engine copies in order.  A   *)
(* value is the number its bytes make; a byte has Byte values.             *)
(***************************************************************************)
EXTENDS Integers

CONSTANTS
  MAX_READ_STRING_LEN,  \* characters of a read buffer, 2048 in util.h
  Byte                  \* values of a byte, 256

ASSUME TargetMemoryAssumption ==
  /\ MAX_READ_STRING_LEN \in Nat \ {0}
  /\ Byte \in Nat \ {0, 1}

Error == -1

Language == {"lua", "py", "rb"}
String == [len : 0 .. MAX_READ_STRING_LEN, width : 1 .. 3]

Least(a, b) == IF a < b THEN a ELSE b

-----------------------------------------------------------------------------
(* Strings                                                                 *)

\* ReadMultiByteStringVirtual and ReadUnicodeStringVirtualWide look for the NUL in
\* as many characters as the buffer has, and fail without one.  Of a string longer
\* than asked for they write what was asked for, with or without a NUL at its end,
\* or more: "may actually give back more characters" (support/util.cpp).
Written(string, asked) ==
  IF string.len >= MAX_READ_STRING_LEN THEN {}
  ELSE IF string.len < asked THEN {string.len}
  ELSE {asked - 1, asked, string.len}

\* Fault: what the engine gave is taken as it is.
UntruncatedRead(string, count) ==
  Written(string, IF count < 0 THEN MAX_READ_STRING_LEN ELSE count)

\* The length of the text in the buffer, cut at the count when there is more.
UtilReadAnsiString(string, count) ==
  LET asked == IF count < 0 THEN MAX_READ_STRING_LEN ELSE count IN
  {IF asked < string.len + 1 THEN Least(n, asked) ELSE n : n \in Written(string, asked)}

UtilReadWideString(string, count) ==
  LET asked == IF count < 0 THEN MAX_READ_STRING_LEN ELSE count IN
  {IF asked < string.len + 1 THEN Least(n, asked) ELSE n : n \in Written(string, asked)}

CountSupported(count) == count # 0 /\ count <= MAX_READ_STRING_LEN - 1

OrError(answers) == IF answers = {} THEN {Error} ELSE answers

LuaReadString(string, count) ==
  IF CountSupported(count) THEN OrError(UtilReadAnsiString(string, count)) ELSE {Error}

\* Python takes the characters for UTF-8, which only ASCII is.
PyReadString(string, count) ==
  IF CountSupported(count)
  THEN OrError({n \in UtilReadAnsiString(string, count) : n = 0 \/ string.width = 1})
  ELSE {Error}

RbReadString(string, count) ==
  IF CountSupported(count) THEN OrError(UtilReadAnsiString(string, count)) ELSE {Error}

\* Fault: the buffer for the UTF-8 text has as many bytes as there are characters.
NarrowBuffer(string, n) == n * string.width + 1 <= MAX_READ_STRING_LEN

\* utf8buf has two bytes for each character, and WideCharToMultiByte writes a NUL.
FitsUtf8(string, n) == n * string.width + 1 <= 2 * MAX_READ_STRING_LEN

LuaReadWideString(string, count) ==
  IF CountSupported(count)
  THEN OrError({n \in UtilReadWideString(string, count) : FitsUtf8(string, n)})
  ELSE {Error}

PyReadWideString(string, count) ==
  IF CountSupported(count) THEN OrError(UtilReadWideString(string, count)) ELSE {Error}

RbReadWideString(string, count) ==
  IF CountSupported(count)
  THEN OrError({n \in UtilReadWideString(string, count) : FitsUtf8(string, n)})
  ELSE {Error}

ReadString(p, string, count) ==
  CASE p = "lua" -> LuaReadString(string, count)
    [] p = "py" -> PyReadString(string, count)
    [] p = "rb" -> RbReadString(string, count)

ReadWideString(p, string, count) ==
  CASE p = "lua" -> LuaReadWideString(string, count)
    [] p = "py" -> PyReadWideString(string, count)
    [] p = "rb" -> RbReadWideString(string, count)

-----------------------------------------------------------------------------
(* Values                                                                  *)

\* A primitive type in C, and the member of TypedObjectValue a provider reads it
\* by: how many bytes, and whether the first of them is a sign.
Signed(n) == [bytes |-> n, signed |-> TRUE]
Unsigned(n) == [bytes |-> n, signed |-> FALSE]

\* How many values so many bytes have: types have one, two, four or eight.
Values(bytes) ==
  CASE bytes = 1 -> Byte
    [] bytes = 2 -> Byte * Byte
    [] bytes = 4 -> (Byte * Byte) * (Byte * Byte)
    [] bytes = 8 -> ((Byte * Byte) * (Byte * Byte)) * ((Byte * Byte) * (Byte * Byte))

Kind == {"pointer32", "pointer64", "enum8", "enum32", "enum64", "CHAR", "INT8", "UINT8",
         "INT16", "UINT16", "WCHAR", "INT32", "UINT32", "INT64", "UINT64", "BOOL"}

CType(kind) ==
  CASE kind \in {"UINT8", "BOOL", "CHAR", "enum8"} -> Unsigned(1)
    [] kind \in {"UINT16", "WCHAR"} -> Unsigned(2)
    [] kind \in {"UINT32", "pointer32"} -> Unsigned(4)
    [] kind \in {"UINT64", "pointer64"} -> Unsigned(8)
    [] kind = "INT8" -> Signed(1)
    [] kind = "INT16" -> Signed(2)
    [] kind \in {"INT32", "enum32"} -> Signed(4)
    [] kind \in {"INT64", "enum64"} -> Signed(8)

\* A Lua integer is signed and has 64 bits, whatever it is made from.
luaValueFromCValue(kind) ==
  CASE kind \in {"pointer32", "pointer64", "INT64", "UINT64"} -> Signed(8)
    [] kind \in {"enum8", "enum32", "enum64", "INT32", "UINT32"} -> Unsigned(4)
    [] kind \in {"INT16", "UINT16", "WCHAR"} -> Unsigned(2)
    [] kind \in {"CHAR", "INT8", "UINT8", "BOOL"} -> Unsigned(1)

\* Fault: INT64 shares the case of UINT64.
pyValueUnsigned(kind) ==
  CASE kind \in {"pointer32", "pointer64", "UINT64", "INT64"} -> Unsigned(8)
    [] kind \in {"enum8", "enum32", "enum64", "UINT32"} -> Unsigned(4)
    [] kind = "INT32" -> Signed(4)
    [] kind \in {"INT16", "UINT16", "WCHAR"} -> Unsigned(2)
    [] kind \in {"CHAR", "INT8", "UINT8", "BOOL"} -> Unsigned(1)

pyValueFromCValue(kind) ==
  CASE kind \in {"pointer32", "pointer64", "UINT64"} -> Unsigned(8)
    [] kind = "INT64" -> Signed(8)
    [] kind \in {"enum8", "enum32", "enum64", "UINT32"} -> Unsigned(4)
    [] kind = "INT32" -> Signed(4)
    [] kind \in {"INT16", "UINT16", "WCHAR"} -> Unsigned(2)
    [] kind \in {"CHAR", "INT8", "UINT8", "BOOL"} -> Unsigned(1)

\* INT2FIX of a DwVal makes the number that the unsigned DwVal is, where a Ruby
\* fixnum has more than 32 bits, in the 64 bit builds.
rbValueFromCValue(kind) ==
  CASE kind \in {"pointer32", "pointer64", "UINT64"} -> Unsigned(8)
    [] kind = "INT64" -> Signed(8)
    [] kind \in {"enum8", "enum32", "enum64", "INT32", "UINT32"} -> Unsigned(4)
    [] kind \in {"INT16", "UINT16", "WCHAR"} -> Unsigned(2)
    [] kind \in {"CHAR", "INT8", "UINT8", "BOOL"} -> Unsigned(1)

Member(p, kind) ==
  CASE p = "lua" -> luaValueFromCValue(kind)
    [] p = "py" -> pyValueFromCValue(kind)
    [] p = "rb" -> rbValueFromCValue(kind)

\* The number the first bytes of some memory make.
Decode(member, memory) ==
  LET values == Values(member.bytes)
      bits == memory % values
  IN IF member.signed /\ 2 * bits >= values THEN bits - values ELSE bits

\* The value of a type whose bytes are "bits", read into a union whose other bytes
\* were "rest" before (ReadTypedDataVirtual writes as many bytes as the type has).
ValueFromCValue(p, kind, bits, rest) ==
  Decode(Member(p, kind), bits + rest * Values(CType(kind).bytes))

CValue(kind, bits) == Decode(CType(kind), bits)
=============================================================================
