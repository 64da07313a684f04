---------------------------- MODULE TypedObject ----------------------------
(***************************************************************************)
(* Typed objects: a script's view of a piece of the target's data          *)
(* (support/dstypedobject.cpp and the TypedObject classes of the three     *)
(* providers), over the symbol cache of SymCache.                          *)
(*                                                                         *)
(* An object is the C record DbgScriptTypedObject inside an object of the  *)
(* script's language.  It is made by name (createTypedObject, getGlobal,   *)
(* the class of a vtable), from the symbol of a local variable, or from    *)
(* another object (a field, an element, a dereference).  Making it looks   *)
(* up its names in the cache and asks the engine for its typed data; any   *)
(* of these may fail, and then the script gets an error and no object,     *)
(* with the cache changed by the lookups that succeeded.                   *)
(*                                                                         *)
(* Python and Ruby hand out zeroed records.  Lua hands out memory as it    *)
(* comes, which may be that of an object collected earlier.                *)
(*                                                                         *)
(* A script that gets an error goes on with what it holds.  The state of   *)
(* the target may change between any two of its calls.                     *)
(***************************************************************************)
EXTENDS SymCache

CONSTANTS
  Provider,    \* the languages scripts are written in: "lua", "py", "rb"
  Tag,         \* kinds of typed data (SymTag...) that occur
  LuaMemory,   \* what memory from lua_newuserdata may hold
  MaxHeld      \* bound: objects a script holds

VARIABLES
  prov,        \* the language of the script
  held,        \* the typed objects it holds
  traversed    \* history: has an object been made from one that had no data?

script == <<prov, held, traversed>>
vars == <<target, caches, script>>

\* DEBUG_TYPED_DATA: its tag, and the type id and module base it refers to.
Data == [tag : Tag \cup {"none"}, TypeId : Type \cup {0}, ModBase : Base \cup {0}]
NoData == [tag |-> "none", TypeId |-> 0, ModBase |-> 0]

\* DbgScriptTypedObject.  History: "real", the engine has provided its data (its
\* offset is not null); "asked", the symbol it was made by, and "at", the base its
\* names were looked up by; "points", it was made as a pointer to the type named;
\* "clean", its memory was zeroed; "stray", its offset is what the memory held.
Object ==
  [TypedDataValid : BOOLEAN, TypedData : Data, TypeName : TypeName \cup {NoName},
   ModuleName : Image \cup {NoImage},
   real : BOOLEAN, asked : TypeName \cup {NoName}, at : Base \cup {0}, points : BOOLEAN,
   clean : BOOLEAN, stray : BOOLEAN]

Zeroed ==
  [TypedDataValid |-> FALSE, TypedData |-> NoData, TypeName |-> NoName,
   ModuleName |-> NoImage, real |-> FALSE, asked |-> NoName, at |-> 0, points |-> FALSE,
   clean |-> TRUE, stray |-> FALSE]

ASSUME TypedObjectAssumption ==
  /\ Provider \subseteq {"lua", "py", "rb"}
  /\ Tag \subseteq {"base", "enum", "pointer", "array", "class"}
  /\ LuaMemory \subseteq {o \in Object : ~o.real /\ o.at = 0 /\ o.asked = NoName /\ ~o.points}
  /\ MaxHeld \in Nat

TypeOK ==
  /\ SymCacheTypeOK
  /\ prov \in Provider
  /\ held \subseteq Object
  /\ traversed \in BOOLEAN

Init ==
  /\ SymCacheInit
  /\ prov \in Provider
  /\ held = {}
  /\ traversed = FALSE

-----------------------------------------------------------------------------
(* Memory for a new object                                                 *)

allocTypedObject == LuaMemory
tp_new == {Zeroed}

\* Fault: the record is not cleared.
TypedObject_alloc_unclear == LuaMemory

TypedObject_alloc == {Zeroed}

-----------------------------------------------------------------------------
(* Making an object                                                        *)

\* Fault: the names are taken from the cache by the module's base alone, the type
\* by whatever name the module's types were last asked for.
fillSwapped(key, typeName, moduleName) ==
  /\ GetCachedModuleName(key.ModuleBase, moduleName)
  /\ IF moduleName = NoImage
     THEN typeName = NoName /\ UNCHANGED s_TypeNameCache
     ELSE \E other \in {k \in ModuleAndTypeId : k.ModuleBase = key.ModuleBase} :
            GetCachedTypeName(other, typeName)

\* The names of a type, or NoImage for the module's if either lookup failed.
fillTypeAndModuleName(key, typeName, moduleName) ==
  /\ GetCachedTypeName(key, typeName)
  /\ IF typeName = NoName
     THEN moduleName = NoImage /\ UNCHANGED s_ModCache
     ELSE GetCachedModuleName(key.ModuleBase, moduleName)

\* EXT_TDOP_SET_FROM_TYPE_ID_AND_U64, or EXT_TDOP_SET_PTR_..., whose answer is of
\* the type "pointer to" the one given: another type, with another id.
SetFromTypeId(key, wantPointer) ==
  IF loaded[key.ModuleBase] = NoImage THEN {}
  ELSE {d \in Data : /\ d.ModBase = key.ModuleBase
                     /\ d.TypeId # 0
                     /\ d.tag # "none"
                     /\ IF wantPointer THEN d.tag = "pointer" /\ d.TypeId # key.TypeId
                                       ELSE d.TypeId = key.TypeId}

WithData(o, d) == [o EXCEPT !.TypedData = d, !.TypedDataValid = TRUE, !.real = TRUE,
                            !.stray = FALSE]

\* The rest of DsInitializeTypedObject, once the names are known: the objects it
\* may make.  For a null address it leaves TypedDataValid and the data as they are.
Initialized(mem, key, typeName, moduleName, isNull, wantPointer, asked) ==
  LET named == [mem EXCEPT !.TypeName = typeName, !.ModuleName = moduleName,
                           !.asked = asked, !.at = key.ModuleBase, !.points = wantPointer,
                           !.stray = FALSE] IN
  IF isNull THEN {named}
  ELSE {WithData(named, d) : d \in SetFromTypeId(key, wantPointer)}

\* What the script holds after a call that made the object, or that failed.
Hold(o) == \E keep \in SUBSET held : /\ Cardinality(keep \cup {o}) <= MaxHeld
                                     /\ held' = keep \cup {o}

DsInitializeTypedObject(memory, key, isNull, wantPointer, asked) ==
  \E typeName \in TypeName \cup {NoName}, moduleName \in Image \cup {NoImage} :
    /\ fillTypeAndModuleName(key, typeName, moduleName)
    /\ \/ UNCHANGED held   \* some call failed, or the script drops the object
       \/ /\ moduleName # NoImage
          /\ \E mem \in memory :
             \E o \in Initialized(mem, key, typeName, moduleName, isNull, wantPointer, asked) :
               Hold(o)

\* The symbol of an optimized-away local is zeroed: no module, no address.
InitializeInvalid(memory) ==
  /\ \E mem \in memory :
       Hold([mem EXCEPT !.TypeName = NoName, !.ModuleName = NoImage, !.stray = FALSE])
  /\ UNCHANGED caches

DsWrapTypedData(memory, d) ==
  \E typeName \in TypeName \cup {NoName}, moduleName \in Image \cup {NoImage} :
    /\ fillTypeAndModuleName([TypeId |-> d.TypeId, ModuleBase |-> d.ModBase], typeName, moduleName)
    /\ IF moduleName = NoImage
       THEN UNCHANGED held
       ELSE \E mem \in memory :
              Hold(WithData([mem EXCEPT !.TypeName = typeName, !.ModuleName = moduleName,
                                        !.at = d.ModBase], d))

\* A new object, in the language of the script.
AllocNewTypedObject(key, isNull, wantPointer, asked) ==
  prov = "lua" /\ DsInitializeTypedObject(allocTypedObject, key, isNull, wantPointer, asked)
AllocTypedObject_py(key, isNull, wantPointer, asked) ==
  prov = "py" /\ DsInitializeTypedObject(tp_new, key, isNull, wantPointer, asked)
AllocTypedObject_rb(key, isNull, wantPointer, asked) ==
  prov = "rb" /\ DsInitializeTypedObject(TypedObject_alloc, key, isNull, wantPointer, asked)

NewObject(key, isNull, wantPointer, asked) ==
  \/ AllocNewTypedObject(key, isNull, wantPointer, asked)
  \/ AllocTypedObject_py(key, isNull, wantPointer, asked)
  \/ AllocTypedObject_rb(key, isNull, wantPointer, asked)

\* A new object of typed data.
allocSubTypedObject_lua(d) == prov = "lua" /\ DsWrapTypedData(allocTypedObject, d)
allocSubTypedObject_py(d) == prov = "py" /\ DsWrapTypedData(tp_new, d)
allocTypedObjFromTypedData(d) == prov = "rb" /\ DsWrapTypedData(TypedObject_alloc, d)

SubObject(d) ==
  allocSubTypedObject_lua(d) \/ allocSubTypedObject_py(d) \/ allocTypedObjFromTypedData(d)

-----------------------------------------------------------------------------
(* Objects by name                                                         *)

\* A type id and base from the cache, then an object of that type.
ByName(sym, isNull, wantPointer) ==
  \E info \in ModuleAndTypeId \cup {Nothing} :
    /\ GetCachedSymbolType(sym, info)
    /\ IF info = Nothing
       THEN UNCHANGED <<s_ModCache, s_TypeNameCache, held>>
       ELSE NewObject(info, isNull, wantPointer, sym)

createTypedObjectHelper(p, sym, isNull, wantPointer) ==
  /\ prov = p
  /\ ByName(sym, isNull, wantPointer)
  /\ UNCHANGED <<target, prov, traversed>>

createTypedObject == \E sym \in Symbol, isNull, wantPointer \in BOOLEAN :
                       createTypedObjectHelper("lua", sym, isNull, wantPointer)
create_typed_object_py == \E sym \in Symbol, isNull, wantPointer \in BOOLEAN :
                            createTypedObjectHelper("py", sym, isNull, wantPointer)
create_typed_object_rb == \E sym \in Symbol, isNull, wantPointer \in BOOLEAN :
                            createTypedObjectHelper("rb", sym, isNull, wantPointer)

\* The address comes from GetOffsetByName: a global variable has one.
getGlobal == \E sym \in Symbol : createTypedObjectHelper("lua", sym, FALSE, FALSE)
get_global_py == \E sym \in Symbol : createTypedObjectHelper("py", sym, FALSE, FALSE)
get_global_rb == \E sym \in Symbol : createTypedObjectHelper("rb", sym, FALSE, FALSE)

\* A local variable, from its DEBUG_SYMBOL_ENTRY.
Local(p, memory) ==
  /\ prov = p
  /\ \/ InitializeInvalid(memory)
     \/ /\ UNCHANGED s_SymCache
        /\ \E key \in ModuleAndTypeId :
             /\ loaded[key.ModuleBase] # NoImage
             /\ NewObject(key, FALSE, FALSE, NoName)
  /\ UNCHANGED <<target, prov, traversed>>

local_lua == Local("lua", allocTypedObject)
local_py == Local("py", tp_new)
local_rb == Local("rb", TypedObject_alloc)

\* Calls that resolve a type by its name and keep nothing but the cache entry:
\* fieldOffset, getTypeSize and resolveEnum.
Resolve(sym) ==
  /\ \E info \in ModuleAndTypeId \cup {Nothing} : GetCachedSymbolType(sym, info)
  /\ UNCHANGED <<target, s_ModCache, s_TypeNameCache, script>>

UtilGetFieldOffset(sym) == Resolve(sym)
UtilGetTypeSize(sym) == Resolve(sym)
resolve_enum(sym) == Resolve(sym)

-----------------------------------------------------------------------------
(* Objects from objects                                                    *)

\* The engine's typed data for a part of some data.  That it refuses data of no
\* module, all zeroes, is taken of the engine: a provider that does not check its
\* object's TypedDataValid relies on it.
Part(d) ==
  IF d.ModBase = 0 \/ loaded[d.ModBase] = NoImage THEN {}
  ELSE {part \in Data : part.ModBase = d.ModBase /\ part.TypeId # 0 /\ part.tag # "none"}

DsTypedObjectGetField(o) == Part(o.TypedData)

DsTypedObjectGetArrayElement(o) ==
  IF o.TypedData.tag \in {"pointer", "array"} THEN Part(o.TypedData) ELSE {}

\* A provider's method that makes an object of a part of o.  That the call may
\* fail before it changes anything is left out.
Derive(p, o, parts) ==
  /\ prov = p
  /\ \E d \in parts : SubObject(d)
  /\ traversed' = (traversed \/ ~o.real)
  /\ UNCHANGED <<target, prov, s_SymCache>>

checkTypedData(o) == o.TypedDataValid

\* Lua: obj.field and obj:field "name", obj[index], and obj.deref, which is the
\* one that does not check.
getFieldHelper(o) == checkTypedData(o) /\ Derive("lua", o, DsTypedObjectGetField(o))
TypedObject_index(o) ==
  checkTypedData(o) /\ (getFieldHelper(o) \/ Derive("lua", o, DsTypedObjectGetArrayElement(o)))
TypedObject_deref_lua(o) == Derive("lua", o, DsTypedObjectGetArrayElement(o))

\* Python: obj.field does not check; obj["field"], obj[index] and obj.deref do.
TypedObject_getattro(o) == Derive("py", o, DsTypedObjectGetField(o))
sequence_get_item(o) == checkTypedData(o) /\ Derive("py", o, DsTypedObjectGetArrayElement(o))
mapping_subscript(o) ==
  sequence_get_item(o) \/ (checkTypedData(o) /\ Derive("py", o, DsTypedObjectGetField(o)))
TypedObject_deref_py(o) == checkTypedData(o) /\ Derive("py", o, DsTypedObjectGetArrayElement(o))

\* Ruby: obj.field, which is no method and so goes to method_missing; obj["field"]
\* and obj[index]; obj.deref.
method_missing(o) == checkTypedData(o) /\ Derive("rb", o, DsTypedObjectGetField(o))
TypedObject_get_item(o) ==
  /\ checkTypedData(o)
  /\ Derive("rb", o, DsTypedObjectGetField(o)) \/ Derive("rb", o, DsTypedObjectGetArrayElement(o))
TypedObject_deref_rb(o) == checkTypedData(o) /\ Derive("rb", o, DsTypedObjectGetArrayElement(o))

-----------------------------------------------------------------------------
(* The runtime object                                                      *)

\* The vptr is read at the object's offset, unchecked: null is not readable, but
\* a Lua object nobody filled in has some offset or other.
VptrReadable(o) == o.real \/ o.stray

\* The address has no vtable's symbol, or the symbol's class is not known: the
\* call succeeds all the same, and the caller's record is returned unfilled.
Unfilled(memory) == \E mem \in memory : Hold(mem)

DsTypedObjectGetRuntimeType(o, memory) ==
  /\ VptrReadable(o)
  /\ \/ Unfilled(memory) /\ UNCHANGED caches
     \/ \E sym \in Symbol, info \in ModuleAndTypeId \cup {Nothing} :
          /\ GetCachedSymbolType(sym, info)
          /\ IF info = Nothing
             THEN Unfilled(memory) /\ UNCHANGED <<s_ModCache, s_TypeNameCache>>
             ELSE DsInitializeTypedObject(memory, info, FALSE, FALSE, sym)
  /\ UNCHANGED <<target, prov, traversed>>

getRuntimeObject(o) == prov = "lua" /\ DsTypedObjectGetRuntimeType(o, allocTypedObject)
get_runtime_obj_py(o) == prov = "py" /\ DsTypedObjectGetRuntimeType(o, tp_new)
get_runtime_obj_rb(o) == prov = "rb" /\ DsTypedObjectGetRuntimeType(o, TypedObject_alloc)

-----------------------------------------------------------------------------

TargetRuns == Target /\ UNCHANGED script

Named ==
  \/ createTypedObject \/ create_typed_object_py \/ create_typed_object_rb
  \/ getGlobal \/ get_global_py \/ get_global_rb
  \/ local_lua \/ local_py \/ local_rb
  \/ \E sym \in Symbol : UtilGetFieldOffset(sym) \/ UtilGetTypeSize(sym) \/ resolve_enum(sym)

Derived ==
  \E o \in held :
    \/ getFieldHelper(o) \/ TypedObject_index(o) \/ TypedObject_deref_lua(o)
    \/ TypedObject_getattro(o) \/ sequence_get_item(o) \/ mapping_subscript(o)
    \/ TypedObject_deref_py(o)
    \/ method_missing(o) \/ TypedObject_get_item(o) \/ TypedObject_deref_rb(o)

Runtime == \E o \in held : getRuntimeObject(o) \/ get_runtime_obj_py(o) \/ get_runtime_obj_rb(o)

Next == TargetRuns \/ Named \/ Derived \/ Runtime

Spec == Init /\ [][Next]_vars

-----------------------------------------------------------------------------
(* Properties                                                              *)

\* The names an object gives are those of the data it has, by name, by symbol or as
\* a part of another, whichever of them came from the cache: its module is the one
\* its data is of, and its type the one its data is of.  Not for a typed pointer:
\* it has the data of a pointer and gives the name of what it points to, whatever
\* "Get the type name of the object" promises (docs, TypedObject).  Objects at a
\* base some module was unloaded from are left out: their names may be stale.
NamesOfData ==
  \A o \in held :
    o.at # 0 /\ o.at \notin unloaded =>
      /\ o.ModuleName = loaded[o.at]
      /\ o.real =>
           /\ o.TypedData.ModBase = o.at
           /\ IF o.points THEN o.TypedData.tag = "pointer"
              ELSE o.TypeName = <<loaded[o.at], o.TypedData.TypeId>>

\* An object made by the name of a symbol is of the type that symbol names.
NamedAsAsked ==
  \A o \in held :
    o.asked # NoName /\ o.at \notin unloaded =>
      /\ o.TypeName = o.asked
      /\ o.real => loaded[o.TypedData.ModBase] = o.asked[1]

\* "Can't generate typed data for null pointers. Then again, doesn't matter much
\* since can't traverse a null pointer anyway" (support/dstypedobject.cpp): no
\* object comes of one the engine gave no data for, in Python and Ruby.
NullNotTraversed == traversed => prov = "lua"
=============================================================================
