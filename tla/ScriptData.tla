----------------------------- MODULE ScriptData -----------------------------
(***************************************************************************)
(* What scripts read through their typed objects: TypedObject composed     *)
(* with TargetMemory.  A read leaves the object as it is but for the union *)
(* it reads a value into, and which bytes of that a script sees depends on *)
(* the memory the object was made from.                                    *)
(***************************************************************************)
EXTENDS TypedObject, TargetMemory

CONSTANTS
  Count,       \* the counts scripts ask strings by, negative for no limit
  Rest         \* what the rest of a union of unclear memory may be

ASSUME ScriptDataAssumption ==
  /\ Count \subseteq Int
  /\ Rest \subseteq Nat

Raised == {Error}

-----------------------------------------------------------------------------
(* The methods of a typed object that read                                 *)

InLanguage(lua, py, rb) ==
  CASE prov = "lua" -> lua [] prov = "py" -> py [] prov = "rb" -> rb

\* Each checks that the object has data, reads at its offset, and raises what fails.
Checked(o, answers) == IF checkTypedData(o) THEN answers ELSE Raised

TypedObject_readString_lua(o, string, count) == Checked(o, LuaReadString(string, count))
TypedObject_read_string_py(o, string, count) == Checked(o, PyReadString(string, count))
TypedObject_read_string_rb(o, string, count) == Checked(o, RbReadString(string, count))

\* Fault: readString does not check that there is data.
readString_unchecked(o, string, count) == ReadString(prov, string, count)

TypedObject_readString(o, string, count) ==
  InLanguage(TypedObject_readString_lua(o, string, count),
             TypedObject_read_string_py(o, string, count),
             TypedObject_read_string_rb(o, string, count))

TypedObject_readWideString_lua(o, string, count) == Checked(o, LuaReadWideString(string, count))
TypedObject_read_wide_string_py(o, string, count) == Checked(o, PyReadWideString(string, count))
TypedObject_read_wide_string_rb(o, string, count) == Checked(o, RbReadWideString(string, count))

TypedObject_readWideString(o, string, count) ==
  InLanguage(TypedObject_readWideString_lua(o, string, count),
             TypedObject_read_wide_string_py(o, string, count),
             TypedObject_read_wide_string_rb(o, string, count))

DsTypedObjectIsPrimitive(o) == o.TypedData.tag \in {"base", "pointer", "enum"}

\* The value of an object of the kind, which the target says is "bits": it is read
\* into a union that holds what the object's memory held.
ReadValue(p, o, kind, bits) ==
  Checked(o, IF DsTypedObjectIsPrimitive(o)
             THEN {ValueFromCValue(p, kind, bits, rest) : rest \in IF o.clean THEN {0} ELSE Rest}
                    \cup Raised
             ELSE Raised)

TypedObject_getvalue(o, kind, bits) == ReadValue("lua", o, kind, bits)
TypedObject_get_value(o, kind, bits) == ReadValue("py", o, kind, bits)
TypedObject_value_rb(o, kind, bits) == ReadValue("rb", o, kind, bits)

TypedObject_value(o, kind, bits) ==
  InLanguage(TypedObject_getvalue(o, kind, bits),
             TypedObject_get_value(o, kind, bits),
             TypedObject_value_rb(o, kind, bits))

\* The length of an array of n elements of a size: the sizes are divided.
Length(o, n, size) ==
  Checked(o, IF o.TypedData.tag = "array" /\ DsTypedObjectGetArrayElement(o) # {}
             THEN {(n * size) \div size} \cup Raised
             ELSE Raised)

TypedObject_len(o, n, size) == Length(o, n, size)
TypedObject_sequence_length(o, n, size) == Length(o, n, size)
TypedObject_length(o, n, size) == Length(o, n, size)

-----------------------------------------------------------------------------
(* Properties                                                              *)

\* "Returns the value of the object, if it's a primitive type" (docs, TypedObject):
\* what arrives of the C value c, a number of a type of so many bytes.
\*   Not below zero: c itself.  But Lua, whose integers are signed, gives those of 64
\*     bits with the upper bit set less 2^64.
\*   Below zero: c itself of an INT64, and of an INT32 in Python.  Of an INT8 and an
\*     INT16, and of an INT32 in Lua and Ruby, c and as many values as the type has:
\*     -1 of an INT32 arrives as 4294967295, not as the value the docs promise.
\*   Of an enum, the upper bit or not, the unsigned number of its first four bytes.
Enum == {"enum8", "enum32", "enum64"}
KeepsSign(p, kind) == kind = "INT64" \/ (kind = "INT32" /\ p = "py")

Arrives(p, kind, c) ==
  CASE kind \in Enum -> c % Values(4)
    [] kind \notin Enum /\ c >= 0 ->
         IF p = "lua" /\ 2 * c >= Values(8) THEN c - Values(8) ELSE c
    [] kind \notin Enum /\ c < 0 ->
         IF KeepsSign(p, kind) THEN c ELSE c + Values(CType(kind).bytes)

\* Whatever the rest of the union holds that the value is read into.
Faithful(p, rest) ==
  \A kind \in Kind : \A bits \in 0 .. Values(CType(kind).bytes) - 1 :
    ValueFromCValue(p, kind, bits, rest) = Arrives(p, kind, CValue(kind, bits))

FaithfulClear == {p \in Language : Faithful(p, 0)}

\* Faithful values for every object of zeroed memory, in every language.
ValuesFaithful == \A o \in held : o.clean => prov \in FaithfulClear

\* "count specifies the maximum number of characters to read" (docs): a string comes
\* with no more of them than asked for and than it has, and whole when no count is
\* given or it is long enough, from the narrow read and from the wide one.
TextRight(string, count, n) ==
  n # Error =>
    /\ n <= string.len
    /\ count >= 0 => n <= count
    /\ count < 0 \/ count > string.len => n = string.len
    /\ n < MAX_READ_STRING_LEN

RightReaders ==
  {p \in Language : \A string \in String, count \in Count :
     \A n \in ReadString(p, string, count) \cup ReadWideString(p, string, count) :
       TextRight(string, count, n)}

StringsAsAsked == \A o \in held : checkTypedData(o) => prov \in RightReaders

\* A script reads the same strings in whichever language it is written: the limit
\* on the count and the buffer for UTF-8 are the same to them, while ANSI strings
\* are ASCII and no character of a wide one takes three bytes.
AgreeingReaders ==
  {p \in Language : \A string \in String, count \in Count :
     /\ string.width = 1 => ReadString(p, string, count) = LuaReadString(string, count)
     /\ string.width <= 2 => ReadWideString(p, string, count) = PyReadWideString(string, count)}

LanguagesAgree == \A o \in held : checkTypedData(o) => AgreeingReaders = Language

\* What a checked method tells of an object is about data the engine gave: an object
\* whose address is null has neither value nor text nor length, in Python and Ruby.
AnswersFromData ==
  \A o \in held :
    prov # "lua" /\ ~o.real =>
      /\ TypedObject_value(o, "UINT8", 1) = Raised
      /\ TypedObject_readString(o, [len |-> 1, width |-> 1], -1) = Raised
      /\ TypedObject_readWideString(o, [len |-> 1, width |-> 1], -1) = Raised
      /\ InLanguage(TypedObject_len(o, 1, 1), TypedObject_sequence_length(o, 1, 1),
                    TypedObject_length(o, 1, 1)) = Raised
=============================================================================
