------------------------------ MODULE SymCache ------------------------------
(***************************************************************************)
(* The symbol cache (support/symcache.cpp): three maps from what scripts   *)
(* ask by to what the debugger engine once answered.  The type id and      *)
(* module base of a symbol name; the name of the module at a base; the     *)
(* name of a type of the module at a base.                                 *)
(*                                                                         *)
(* The maps are process wide.  Nothing empties them: not the end of a      *)
(* script, not the unloading of a provider, not a change of the target.    *)
(* Meanwhile the target runs, and loads and unloads its modules.           *)
(*                                                                         *)
(* A module is known by its image, a type by its module and its type id, a *)
(* symbol by the type it names.  A lookup is a relation between the maps,  *)
(* its answer, and the maps after it: Nothing, NoName and NoImage stand    *)
(* for the null pointer of a lookup that failed, and for an absent entry.  *)
(***************************************************************************)
EXTENDS Integers, FiniteSets

CONSTANTS
  Base,        \* module bases, 0 being the null base
  Image,       \* modules
  NoImage,
  Type,        \* type ids of a module, 0 being none
  Symbol,      \* the symbols scripts ask for, each <<image, type id>>
  Loadable,    \* bound: the <<base, image>> that may come about
  MaxUnloads   \* bound: bases from which a module has been unloaded

ASSUME SymCacheAssumption ==
  /\ Base \subseteq Nat \ {0}
  /\ Type \subseteq Nat \ {0}
  /\ NoImage \notin Image
  /\ Symbol \subseteq Image \X Type
  /\ Loadable \subseteq Base \X Image
  /\ MaxUnloads \in Nat

VARIABLES
  loaded,           \* the target: the image loaded at each base
  unloaded,         \* history: the bases from which an image has been unloaded
  s_SymCache,
  s_ModCache,
  s_TypeNameCache

target == <<loaded, unloaded>>
caches == <<s_SymCache, s_ModCache, s_TypeNameCache>>

ModuleAndTypeId == [TypeId : Type, ModuleBase : Base]
Nothing == [TypeId |-> 0, ModuleBase |-> 0]
TypeName == Image \X Type
NoName == <<NoImage, 0>>

SymCacheTypeOK ==
  /\ loaded \in [Base -> Image \cup {NoImage}]
  /\ unloaded \subseteq Base
  /\ s_SymCache \in [Symbol -> ModuleAndTypeId \cup {Nothing}]
  /\ s_ModCache \in [Base -> Image \cup {NoImage}]
  /\ s_TypeNameCache \in [ModuleAndTypeId -> TypeName \cup {NoName}]

SymCacheInit ==
  /\ loaded = [b \in Base |-> NoImage]
  /\ unloaded = {}
  /\ s_SymCache = [sym \in Symbol |-> Nothing]
  /\ s_ModCache = [b \in Base |-> NoImage]
  /\ s_TypeNameCache = [key \in ModuleAndTypeId |-> NoName]

-----------------------------------------------------------------------------
(* The target between two calls of a script                                *)

Load(b, i) ==
  /\ loaded[b] = NoImage
  /\ \A other \in Base : loaded[other] # i
  /\ loaded' = [loaded EXCEPT ![b] = i]
  /\ UNCHANGED <<unloaded, caches>>

Unload(b) ==
  /\ loaded[b] # NoImage
  /\ Cardinality(unloaded \cup {b}) <= MaxUnloads
  /\ loaded' = [loaded EXCEPT ![b] = NoImage]
  /\ unloaded' = unloaded \cup {b}
  /\ UNCHANGED caches

Target == (\E b \in Base : Unload(b)) \/ (\E at \in Loadable : Load(at[1], at[2]))

-----------------------------------------------------------------------------
(* What the engine may answer: the truth, or that it failed.               *)

GetSymbolTypeId(sym) ==
  {Nothing} \cup {info \in ModuleAndTypeId :
                    loaded[info.ModuleBase] = sym[1] /\ info.TypeId = sym[2]}

GetModuleNames(b) == {NoImage, loaded[b]}

GetTypeName(key) ==
  LET i == loaded[key.ModuleBase] IN
  {NoName} \cup IF i = NoImage THEN {} ELSE {<<i, key.TypeId>>}

-----------------------------------------------------------------------------
(* The lookups                                                             *)

\* Fault: the entry is made before the answer is looked at.
GetCachedSymbolTypeAnyway(sym, info) ==
  IF s_SymCache[sym] # Nothing
  THEN info = s_SymCache[sym] /\ UNCHANGED s_SymCache
  ELSE /\ info \in GetSymbolTypeId(sym)
       /\ \E b \in Base :
            s_SymCache' = [s_SymCache EXCEPT ![sym] = [TypeId |-> sym[2], ModuleBase |-> b]]

\* Fault: the entry is made of what was found of the module, before the type is.
GetCachedSymbolTypePartly(sym, info) ==
  IF s_SymCache[sym] # Nothing
  THEN info = s_SymCache[sym] /\ UNCHANGED s_SymCache
  ELSE /\ info \in GetSymbolTypeId(sym)
       /\ \E b \in Base : /\ loaded[b] = sym[1]
                         /\ s_SymCache' = [s_SymCache EXCEPT ![sym] = [info EXCEPT !.ModuleBase = b]]

GetCachedSymbolType(sym, info) ==
  IF s_SymCache[sym] # Nothing
  THEN info = s_SymCache[sym] /\ UNCHANGED s_SymCache
  ELSE /\ info \in GetSymbolTypeId(sym)
       /\ s_SymCache' = [s_SymCache EXCEPT ![sym] = info]

GetCachedModuleName(b, image) ==
  IF s_ModCache[b] # NoImage
  THEN image = s_ModCache[b] /\ UNCHANGED s_ModCache
  ELSE /\ image \in GetModuleNames(b)
       /\ s_ModCache' = [s_ModCache EXCEPT ![b] = image]

\* Fault: the order of the keys looks at the type id only, so that the types of
\* two modules share an entry.
GetCachedTypeNameById(key, name) ==
  LET same == {k \in ModuleAndTypeId : k.TypeId = key.TypeId} IN
  IF \E k \in same : s_TypeNameCache[k] # NoName
  THEN /\ \E k \in same : s_TypeNameCache[k] # NoName /\ name = s_TypeNameCache[k]
       /\ UNCHANGED s_TypeNameCache
  ELSE /\ name \in GetTypeName(key)
       /\ s_TypeNameCache' = [s_TypeNameCache EXCEPT ![key] = name]

GetCachedTypeName(key, name) ==
  IF s_TypeNameCache[key] # NoName
  THEN name = s_TypeNameCache[key] /\ UNCHANGED s_TypeNameCache
  ELSE /\ name \in GetTypeName(key)
       /\ s_TypeNameCache' = [s_TypeNameCache EXCEPT ![key] = name]

-----------------------------------------------------------------------------
(* Properties                                                              *)

SymbolsTrue ==
  \A sym \in Symbol :
    LET info == s_SymCache[sym] IN
    info # Nothing /\ info.ModuleBase \notin unloaded
      => info.TypeId = sym[2] /\ loaded[info.ModuleBase] = sym[1]

ModulesTrue == \A b \in Base \ unloaded : s_ModCache[b] \in {NoImage, loaded[b]}

TypeNamesTrue ==
  \A key \in ModuleAndTypeId :
    key.ModuleBase \notin unloaded
      => s_TypeNameCache[key] \in {NoName, <<loaded[key.ModuleBase], key.TypeId>>}

\* What is cached is what the engine would answer now, as long as no module has
\* been unloaded from the base the entry is about (support/symcache.cpp: a failed
\* lookup is not remembered, a remembered one is never looked up again).
EntriesTrue == SymbolsTrue /\ ModulesTrue /\ TypeNamesTrue
=============================================================================
