------------------------- MODULE TypedObjectProofs -------------------------
(***************************************************************************)
(* Proofs about TypedObject and ScriptData: whatever scripts ask of the cache and of the  *)
(* objects they hold, and whichever engine calls fail, cache entries are   *)
(* true and objects are what they say, until a module is unloaded; and in  *)
(* Python and Ruby nothing comes of a null object.                         *)
(***************************************************************************)
EXTENDS ScriptData, TLAPS

SymbolsInv == s_SymCache \in [Symbol -> ModuleAndTypeId \cup {Nothing}] /\ SymbolsTrue
ModulesInv == s_ModCache \in [Base -> Image \cup {NoImage}] /\ ModulesTrue
TypeNamesInv ==
  s_TypeNameCache \in [ModuleAndTypeId -> TypeName \cup {NoName}] /\ TypeNamesTrue

\* What is true of an object whose names are known; one without was asked for by
\* none.
ObjectTrue(o) ==
  /\ o.at = 0 => o.asked = NoName
  /\ o.at # 0 =>
       /\ o.ModuleName \in Image
       /\ o.real => o.TypedData.ModBase = o.at
       /\ o.at \notin unloaded =>
            /\ o.ModuleName = loaded[o.at]
            /\ o.asked # NoName => o.TypeName = o.asked /\ loaded[o.at] = o.asked[1]
            /\ o.real /\ ~o.points => o.TypeName = <<loaded[o.at], o.TypedData.TypeId>>
       /\ o.real /\ o.points => o.TypedData.tag = "pointer"

\* What the engine gave no data for has none, and says so, where memory is cleared.
NullEmpty(o) == prov # "lua" /\ ~o.real => o.TypedData = NoData /\ ~o.TypedDataValid

TargetInv == loaded \in [Base -> Image \cup {NoImage}] /\ unloaded \subseteq Base
HeldInv == \A o \in held : o \in Object /\ ObjectTrue(o) /\ NullEmpty(o)

\* The inductive invariant.
Inv ==
  /\ TargetInv /\ SymbolsInv /\ ModulesInv /\ TypeNamesInv
  /\ prov \in Provider
  /\ HeldInv
  /\ traversed \in BOOLEAN /\ NullNotTraversed

-----------------------------------------------------------------------------
(* The cache                                                               *)

\* A lookup that answers, answers with the truth, and keeps it.
LEMMA SymbolLookup ==
  ASSUME TargetInv, SymbolsInv, UNCHANGED target,
         NEW sym \in Symbol, NEW info, GetCachedSymbolType(sym, info)
  PROVE  /\ SymbolsInv'
         /\ info \in ModuleAndTypeId \cup {Nothing}
         /\ info # Nothing /\ info.ModuleBase \notin unloaded
              => info.TypeId = sym[2] /\ loaded[info.ModuleBase] = sym[1]
<1>1. CASE s_SymCache[sym] # Nothing
  BY <1>1 DEF SymbolsInv, SymbolsTrue, GetCachedSymbolType, target
<1>2. CASE s_SymCache[sym] = Nothing
  <2>1. /\ info \in GetSymbolTypeId(sym)
        /\ s_SymCache' = [s_SymCache EXCEPT ![sym] = info]
    BY <1>2 DEF GetCachedSymbolType
  <2>2. /\ info \in ModuleAndTypeId \cup {Nothing}
        /\ info # Nothing => info.TypeId = sym[2] /\ loaded[info.ModuleBase] = sym[1]
    BY <2>1 DEF GetSymbolTypeId
  <2>3. loaded' = loaded /\ unloaded' = unloaded
    BY DEF target
  <2>4. s_SymCache' \in [Symbol -> ModuleAndTypeId \cup {Nothing}]
    BY <2>1, <2>2 DEF SymbolsInv
  <2>5. \A s \in Symbol : s_SymCache'[s] = IF s = sym THEN info ELSE s_SymCache[s]
    BY <2>1 DEF SymbolsInv
  <2>6. SymbolsTrue'
    BY <2>2, <2>3, <2>5 DEF SymbolsInv, SymbolsTrue
  <2> QED
    BY <2>2, <2>4, <2>6 DEF SymbolsInv
<1> QED
  BY <1>1, <1>2

LEMMA ModuleLookup ==
  ASSUME TargetInv, ModulesInv, UNCHANGED target,
         NEW b \in Base, NEW image, GetCachedModuleName(b, image)
  PROVE  /\ ModulesInv'
         /\ image \in Image \cup {NoImage}
         /\ image # NoImage /\ b \notin unloaded => image = loaded[b]
<1>1. CASE s_ModCache[b] # NoImage
  BY <1>1 DEF ModulesInv, ModulesTrue, GetCachedModuleName, target
<1>2. CASE s_ModCache[b] = NoImage
  <2>1. /\ image \in {NoImage, loaded[b]}
        /\ s_ModCache' = [s_ModCache EXCEPT ![b] = image]
    BY <1>2 DEF GetCachedModuleName, GetModuleNames
  <2>2. loaded' = loaded /\ unloaded' = unloaded
    BY DEF target
  <2> QED
    BY <2>1, <2>2 DEF ModulesInv, ModulesTrue, TargetInv
<1> QED
  BY <1>1, <1>2

LEMMA TypeNameLookup ==
  ASSUME TargetInv, TypeNamesInv, UNCHANGED target,
         NEW key \in ModuleAndTypeId, NEW name, GetCachedTypeName(key, name)
  PROVE  /\ TypeNamesInv'
         /\ name \in TypeName \cup {NoName}
         /\ name # NoName /\ key.ModuleBase \notin unloaded
              => name = <<loaded[key.ModuleBase], key.TypeId>>
<1>1. CASE s_TypeNameCache[key] # NoName
  BY <1>1 DEF TypeNamesInv, TypeNamesTrue, GetCachedTypeName, target
<1>2. CASE s_TypeNameCache[key] = NoName
  <2>1. /\ name \in GetTypeName(key)
        /\ s_TypeNameCache' = [s_TypeNameCache EXCEPT ![key] = name]
    BY <1>2 DEF GetCachedTypeName
  <2>2. key.ModuleBase \in Base /\ key.TypeId \in Type
    BY DEF ModuleAndTypeId
  <2>3. /\ name \in TypeName \cup {NoName}
        /\ name # NoName => name = <<loaded[key.ModuleBase], key.TypeId>>
    BY <2>1, <2>2 DEF GetTypeName, TypeName, TargetInv
  <2>4. loaded' = loaded /\ unloaded' = unloaded
    BY DEF target
  <2>5. s_TypeNameCache' \in [ModuleAndTypeId -> TypeName \cup {NoName}]
    BY <2>1, <2>3 DEF TypeNamesInv
  <2>6. \A k \in ModuleAndTypeId : s_TypeNameCache'[k] = IF k = key THEN name ELSE s_TypeNameCache[k]
    BY <2>1 DEF TypeNamesInv
  <2>7. TypeNamesTrue'
    BY <2>3, <2>4, <2>6 DEF TypeNamesInv, TypeNamesTrue
  <2> QED
    BY <2>3, <2>5, <2>7 DEF TypeNamesInv
<1> QED
  BY <1>1, <1>2

\* Both names of a type, or none.
LEMMA NamesLookup ==
  ASSUME TargetInv, ModulesInv, TypeNamesInv, UNCHANGED target,
         NEW key \in ModuleAndTypeId, NEW typeName, NEW moduleName,
         fillTypeAndModuleName(key, typeName, moduleName)
  PROVE  /\ ModulesInv' /\ TypeNamesInv'
         /\ typeName \in TypeName \cup {NoName}
         /\ moduleName \in Image \cup {NoImage}
         /\ moduleName # NoImage /\ key.ModuleBase \notin unloaded =>
              /\ moduleName = loaded[key.ModuleBase]
              /\ typeName = <<loaded[key.ModuleBase], key.TypeId>>
<1>0. key.ModuleBase \in Base
  BY DEF ModuleAndTypeId
<1>1. GetCachedTypeName(key, typeName)
  BY DEF fillTypeAndModuleName
<1>2. /\ TypeNamesInv'
      /\ typeName \in TypeName \cup {NoName}
      /\ typeName # NoName /\ key.ModuleBase \notin unloaded
           => typeName = <<loaded[key.ModuleBase], key.TypeId>>
  BY <1>1, TypeNameLookup
<1>3. CASE typeName = NoName
  <2>1. moduleName = NoImage /\ UNCHANGED s_ModCache
    BY <1>3 DEF fillTypeAndModuleName
  <2>2. ModulesInv'
    BY <2>1 DEF ModulesInv, ModulesTrue, target
  <2> QED
    BY <1>2, <2>1, <2>2
<1>4. CASE typeName # NoName
  <2>1. GetCachedModuleName(key.ModuleBase, moduleName)
    BY <1>4 DEF fillTypeAndModuleName
  <2>2. /\ ModulesInv'
        /\ moduleName \in Image \cup {NoImage}
        /\ moduleName # NoImage /\ key.ModuleBase \notin unloaded
             => moduleName = loaded[key.ModuleBase]
    BY <1>0, <2>1, ModuleLookup
  <2> QED
    BY <1>2, <1>4, <2>2
<1> QED
  BY <1>3, <1>4

-----------------------------------------------------------------------------
(* Objects                                                                 *)

\* The memory a provider makes its objects from.
Fresh ==
  CASE prov = "lua" -> allocTypedObject
    [] prov = "py" -> tp_new
    [] prov = "rb" -> TypedObject_alloc

LEMMA ObjectFields ==
  ASSUME NEW o \in Object
  PROVE  /\ o.TypedData \in Data /\ o.TypeName \in TypeName \cup {NoName}
         /\ o.ModuleName \in Image \cup {NoImage} /\ o.asked \in TypeName \cup {NoName}
         /\ o.at \in Base \cup {0} /\ o.real \in BOOLEAN
         /\ o.TypedDataValid \in BOOLEAN /\ o.clean \in BOOLEAN /\ o.points \in BOOLEAN
  BY DEF Object

LEMMA ZeroedIsObject == Zeroed \in Object
<1>1. NoData \in Data
  BY DEF NoData, Data
<1> QED
  BY <1>1 DEF Zeroed, Object

\* New memory is that of an object without names, empty where it is cleared.
LEMMA FreshMemory ==
  ASSUME prov \in Provider, NEW mem \in Fresh
  PROVE  /\ mem \in Object /\ ~mem.real /\ mem.at = 0 /\ mem.asked = NoName /\ ~mem.points
         /\ NullEmpty(mem)
<1>1. Provider \subseteq {"lua", "py", "rb"}
  BY TypedObjectAssumption, Zenon DEF TypedObjectAssumption
<1>2. CASE prov = "lua"
  <2>1. mem \in LuaMemory
    BY <1>2 DEF Fresh, allocTypedObject
  <2>2. LuaMemory \subseteq {o \in Object : ~o.real /\ o.at = 0 /\ o.asked = NoName /\ ~o.points}
    BY TypedObjectAssumption, Zenon DEF TypedObjectAssumption
  <2> QED
    BY <1>2, <2>1, <2>2 DEF NullEmpty
<1>3. CASE prov # "lua"
  <2>1. mem = Zeroed
    BY <1>1, <1>3 DEF Fresh, tp_new, TypedObject_alloc
  <2>2. /\ ~Zeroed.real /\ Zeroed.at = 0 /\ Zeroed.asked = NoName /\ ~Zeroed.points
        /\ Zeroed.TypedData = NoData /\ ~Zeroed.TypedDataValid
    BY DEF Zeroed
  <2> QED
    BY <2>1, <2>2, ZeroedIsObject DEF NullEmpty
<1> QED
  BY <1>2, <1>3

\* Data of a module the engine knows of.
LEMMA PartData ==
  ASSUME TargetInv, NEW d \in Data, NEW part \in Part(d)
  PROVE  part \in Data /\ part.ModBase \in Base /\ part.TypeId \in Type
<1>1. d.ModBase # 0 /\ part \in Data /\ part.ModBase = d.ModBase /\ part.TypeId # 0
  BY DEF Part
<1>2. d.ModBase \in Base /\ part.TypeId \in Type
  BY <1>1 DEF Data
<1> QED
  BY <1>1, <1>2

\* An object made of a type's names is what they say.
LEMMA ObjectMade ==
  ASSUME TargetInv, prov \in Provider,
         NEW key \in ModuleAndTypeId, NEW mem \in Fresh,
         NEW typeName \in TypeName \cup {NoName}, NEW moduleName \in Image,
         NEW isNull \in BOOLEAN, NEW wantPointer \in BOOLEAN,
         NEW asked \in Symbol \cup {NoName},
         key.ModuleBase \notin unloaded =>
           /\ moduleName = loaded[key.ModuleBase]
           /\ typeName = <<loaded[key.ModuleBase], key.TypeId>>
           /\ asked # NoName => asked = typeName,
         NEW o \in Initialized(mem, key, typeName, moduleName, isNull, wantPointer, asked)
  PROVE  o \in Object /\ ObjectTrue(o) /\ NullEmpty(o)
<1> DEFINE named == [mem EXCEPT !.TypeName = typeName, !.ModuleName = moduleName,
                               !.asked = asked, !.at = key.ModuleBase, !.points = wantPointer,
                               !.stray = FALSE]
<1>0. /\ Base \subseteq Nat \ {0} /\ Symbol \subseteq Image \X Type
      /\ key.ModuleBase \in Base /\ key.TypeId \in Type
  BY SymCacheAssumption DEF SymCacheAssumption, ModuleAndTypeId
<1>1. /\ mem \in Object /\ ~mem.real /\ NullEmpty(mem)
  BY FreshMemory
<1>2. asked \in TypeName \cup {NoName}
  BY <1>0 DEF TypeName
<1>3. /\ named \in Object
      /\ named.TypeName = typeName /\ named.ModuleName = moduleName /\ named.asked = asked
      /\ named.at = key.ModuleBase /\ named.real = mem.real /\ named.TypedData = mem.TypedData
      /\ named.TypedDataValid = mem.TypedDataValid /\ named.points = wantPointer
  BY <1>0, <1>1, <1>2 DEF Object
<1>4. asked # NoName /\ key.ModuleBase \notin unloaded =>
        typeName = asked /\ loaded[key.ModuleBase] = asked[1]
  BY <1>0
<1>5. CASE isNull
  <2>1. o = named
    BY <1>5 DEF Initialized
  <2>2. NullEmpty(o)
    BY <1>1, <1>3, <2>1 DEF NullEmpty
  <2>3. ObjectTrue(o)
    BY <1>0, <1>1, <1>3, <1>4, <2>1 DEF ObjectTrue
  <2> QED
    BY <1>3, <2>1, <2>2, <2>3
<1>6. CASE ~isNull
  <2>1. PICK d \in SetFromTypeId(key, wantPointer) : o = WithData(named, d)
    BY <1>6 DEF Initialized
  <2>2. /\ d \in Data /\ d.ModBase = key.ModuleBase
        /\ IF wantPointer THEN d.tag = "pointer" ELSE d.TypeId = key.TypeId
    BY <2>1 DEF SetFromTypeId
  <2> HIDE DEF named
  <2>3. /\ o \in Object
        /\ o.TypeName = typeName /\ o.ModuleName = moduleName /\ o.asked = asked
        /\ o.at = key.ModuleBase /\ o.real /\ o.TypedData = d /\ o.points = wantPointer
    BY <1>3, <2>1, <2>2 DEF WithData, Object
  <2>4. NullEmpty(o)
    BY <2>3 DEF NullEmpty
  <2>5. /\ ~o.points /\ o.at \notin unloaded => o.TypeName = <<loaded[o.at], o.TypedData.TypeId>>
        /\ o.points => o.TypedData.tag = "pointer"
    BY <2>2, <2>3
  <2>6. ObjectTrue(o)
    BY <1>0, <1>4, <2>2, <2>3, <2>5 DEF ObjectTrue
  <2> QED
    BY <2>3, <2>4, <2>6
<1> QED
  BY <1>5, <1>6

\* An object that wraps a part of another's data.
LEMMA ObjectWrapped ==
  ASSUME TargetInv, prov \in Provider,
         NEW d \in Data, d.ModBase \in Base, NEW mem \in Fresh,
         NEW typeName \in TypeName \cup {NoName}, NEW moduleName \in Image,
         d.ModBase \notin unloaded =>
           moduleName = loaded[d.ModBase] /\ typeName = <<loaded[d.ModBase], d.TypeId>>,
         NEW o,
         o = WithData([mem EXCEPT !.TypeName = typeName, !.ModuleName = moduleName,
                                  !.at = d.ModBase], d)
  PROVE  o \in Object /\ ObjectTrue(o) /\ NullEmpty(o)
<1>0. Base \subseteq Nat \ {0}
  BY SymCacheAssumption DEF SymCacheAssumption
<1>1. /\ mem \in Object /\ mem.asked = NoName /\ ~mem.points
  BY FreshMemory
<1>2. /\ o \in Object
      /\ o.TypeName = typeName /\ o.ModuleName = moduleName /\ o.asked = NoName /\ ~o.points
      /\ o.at = d.ModBase /\ o.real /\ o.TypedData = d
  BY <1>1 DEF WithData, Object
<1>3. NullEmpty(o)
  BY <1>2 DEF NullEmpty
<1>4. ObjectTrue(o)
  BY <1>0, <1>2 DEF ObjectTrue
<1> QED
  BY <1>2, <1>3, <1>4

-----------------------------------------------------------------------------
(* Calls of a script                                                       *)

\* What a call starts from: the invariant, and a target that stands still.
Calling == Inv /\ UNCHANGED <<loaded, unloaded, prov>>

CachesInv == SymbolsInv /\ ModulesInv /\ TypeNamesInv

LEMMA CallFacts ==
  ASSUME Calling
  PROVE  /\ TargetInv /\ SymbolsInv /\ ModulesInv /\ TypeNamesInv /\ HeldInv
         /\ prov \in Provider /\ UNCHANGED target
         /\ TargetInv' /\ (prov \in Provider)'
  BY DEF Calling, Inv, TargetInv, target

LEMMA SymbolsKept == ASSUME Calling, UNCHANGED s_SymCache PROVE SymbolsInv'
  BY DEF Calling, Inv, SymbolsInv, SymbolsTrue

LEMMA ModulesKept == ASSUME Calling, UNCHANGED s_ModCache PROVE ModulesInv'
  BY DEF Calling, Inv, ModulesInv, ModulesTrue

LEMMA TypeNamesKept == ASSUME Calling, UNCHANGED s_TypeNameCache PROVE TypeNamesInv'
  BY DEF Calling, Inv, TypeNamesInv, TypeNamesTrue

LEMMA HeldKept == ASSUME Calling, UNCHANGED held PROVE HeldInv'
  BY DEF Calling, Inv, HeldInv, ObjectTrue, NullEmpty

\* One more object, and fewer of the others.
LEMMA HoldKeeps ==
  ASSUME Calling, NEW o, o \in Object, ObjectTrue(o), NullEmpty(o), Hold(o)
  PROVE  HeldInv'
<1>1. \A x \in held' : x = o \/ x \in held
  BY DEF Hold
<1>2. \A x \in held' : x \in Object /\ ObjectTrue(x) /\ NullEmpty(x)
  BY <1>1, CallFacts DEF HeldInv
<1>3. loaded' = loaded /\ unloaded' = unloaded /\ prov' = prov
  BY DEF Calling
<1> QED
  BY <1>2, <1>3 DEF HeldInv, ObjectTrue, NullEmpty

LEMMA UnfilledKeeps == ASSUME Calling, Unfilled(Fresh) PROVE HeldInv'
<1>1. PICK mem \in Fresh : Hold(mem)
  BY DEF Unfilled
<1>2. mem \in Object /\ mem.at = 0 /\ mem.asked = NoName /\ NullEmpty(mem)
  BY FreshMemory, CallFacts
<1>3. ObjectTrue(mem)
  BY <1>2 DEF ObjectTrue
<1> QED
  BY <1>1, <1>2, <1>3, HoldKeeps

LEMMA InvalidKeeps == ASSUME Calling, InitializeInvalid(Fresh) PROVE HeldInv' /\ CachesInv'
<1>1. PICK mem \in Fresh : Hold([mem EXCEPT !.TypeName = NoName, !.ModuleName = NoImage, !.stray = FALSE])
  BY DEF InitializeInvalid
<1> DEFINE o == [mem EXCEPT !.TypeName = NoName, !.ModuleName = NoImage, !.stray = FALSE]
<1>2. mem \in Object /\ ~mem.real /\ mem.at = 0 /\ mem.asked = NoName /\ NullEmpty(mem)
  BY FreshMemory, CallFacts
<1>3. /\ o \in Object /\ o.at = 0 /\ o.asked = NoName /\ o.real = mem.real
      /\ o.TypedData = mem.TypedData /\ o.TypedDataValid = mem.TypedDataValid
  BY <1>2 DEF Object
<1>4. ObjectTrue(o) /\ NullEmpty(o)
  BY <1>2, <1>3 DEF ObjectTrue, NullEmpty
<1>5. HeldInv'
  <2> HIDE DEF o
  <2>1. Hold(o)
    BY <1>1 DEF o
  <2> QED
    BY <2>1, <1>3, <1>4, HoldKeeps
<1>6. UNCHANGED s_SymCache /\ UNCHANGED s_ModCache /\ UNCHANGED s_TypeNameCache
  BY DEF InitializeInvalid, caches
<1> QED
  BY <1>5, <1>6, SymbolsKept, ModulesKept, TypeNamesKept DEF CachesInv

\* An object of a type that is known, by its name or by its id.
LEMMA InitializeKeeps ==
  ASSUME Calling, NEW key \in ModuleAndTypeId,
         NEW isNull \in BOOLEAN, NEW wantPointer \in BOOLEAN, NEW asked \in Symbol \cup {NoName},
         asked # NoName /\ key.ModuleBase \notin unloaded =>
           asked = <<loaded[key.ModuleBase], key.TypeId>>,
         DsInitializeTypedObject(Fresh, key, isNull, wantPointer, asked)
  PROVE  ModulesInv' /\ TypeNamesInv' /\ HeldInv'
<1>1. PICK typeName \in TypeName \cup {NoName}, moduleName \in Image \cup {NoImage} :
        /\ fillTypeAndModuleName(key, typeName, moduleName)
        /\ \/ UNCHANGED held
           \/ /\ moduleName # NoImage
              /\ \E mem \in Fresh :
                 \E o \in Initialized(mem, key, typeName, moduleName, isNull, wantPointer, asked) :
                   Hold(o)
  BY DEF DsInitializeTypedObject
<1>2. /\ ModulesInv' /\ TypeNamesInv'
      /\ moduleName # NoImage /\ key.ModuleBase \notin unloaded =>
           /\ moduleName = loaded[key.ModuleBase]
           /\ typeName = <<loaded[key.ModuleBase], key.TypeId>>
  BY <1>1, CallFacts, NamesLookup
<1>3. CASE UNCHANGED held
  BY <1>2, <1>3, HeldKept
<1>4. CASE moduleName # NoImage
           /\ \E mem \in Fresh :
              \E o \in Initialized(mem, key, typeName, moduleName, isNull, wantPointer, asked) :
                Hold(o)
  <2>1. PICK mem \in Fresh :
          \E o \in Initialized(mem, key, typeName, moduleName, isNull, wantPointer, asked) : Hold(o)
    BY <1>4
  <2>2. PICK o \in Initialized(mem, key, typeName, moduleName, isNull, wantPointer, asked) : Hold(o)
    BY <2>1
  <2>3. moduleName \in Image
    BY <1>1, <1>4
  <2>4. key.ModuleBase \notin unloaded =>
           /\ moduleName = loaded[key.ModuleBase]
           /\ typeName = <<loaded[key.ModuleBase], key.TypeId>>
           /\ asked # NoName => asked = typeName
    BY <1>2, <1>4
  <2>5. o \in Object /\ ObjectTrue(o) /\ NullEmpty(o)
    BY <2>2, <2>3, <2>4, CallFacts, ObjectMade
  <2> QED
    BY <1>2, <2>2, <2>5, HoldKeeps
<1> QED
  BY <1>1, <1>3, <1>4

LEMMA WrapKeeps ==
  ASSUME Calling, NEW d \in Data, d.ModBase \in Base, d.TypeId \in Type, DsWrapTypedData(Fresh, d)
  PROVE  ModulesInv' /\ TypeNamesInv' /\ HeldInv'
<1> DEFINE key == [TypeId |-> d.TypeId, ModuleBase |-> d.ModBase]
<1>1. PICK typeName \in TypeName \cup {NoName}, moduleName \in Image \cup {NoImage} :
        /\ fillTypeAndModuleName(key, typeName, moduleName)
        /\ IF moduleName = NoImage
           THEN UNCHANGED held
           ELSE \E mem \in Fresh :
                  Hold(WithData([mem EXCEPT !.TypeName = typeName, !.ModuleName = moduleName,
                                            !.at = d.ModBase], d))
  BY DEF DsWrapTypedData
<1>2. key \in ModuleAndTypeId /\ key.ModuleBase = d.ModBase /\ key.TypeId = d.TypeId
  BY DEF ModuleAndTypeId
<1> HIDE DEF key
<1>3. /\ ModulesInv' /\ TypeNamesInv'
      /\ moduleName # NoImage /\ d.ModBase \notin unloaded =>
           moduleName = loaded[d.ModBase] /\ typeName = <<loaded[d.ModBase], d.TypeId>>
  <2>1. fillTypeAndModuleName(key, typeName, moduleName)
    BY <1>1
  <2>2. /\ ModulesInv' /\ TypeNamesInv'
        /\ moduleName # NoImage /\ key.ModuleBase \notin unloaded =>
             /\ moduleName = loaded[key.ModuleBase]
             /\ typeName = <<loaded[key.ModuleBase], key.TypeId>>
    BY <1>2, <2>1, CallFacts, NamesLookup
  <2> QED
    BY <1>2, <2>2
<1>4. CASE moduleName = NoImage
  BY <1>1, <1>3, <1>4, HeldKept
<1>5. CASE moduleName # NoImage
  <2>1. PICK mem \in Fresh :
          Hold(WithData([mem EXCEPT !.TypeName = typeName, !.ModuleName = moduleName,
                                    !.at = d.ModBase], d))
    BY <1>1, <1>5
  <2> DEFINE o == WithData([mem EXCEPT !.TypeName = typeName, !.ModuleName = moduleName,
                                       !.at = d.ModBase], d)
  <2>2. moduleName \in Image
    BY <1>1, <1>5
  <2>3. d.ModBase \notin unloaded =>
          moduleName = loaded[d.ModBase] /\ typeName = <<loaded[d.ModBase], d.TypeId>>
    BY <1>3, <1>5
  <2>4. o \in Object /\ ObjectTrue(o) /\ NullEmpty(o)
    BY <2>2, <2>3, CallFacts, ObjectWrapped
  <2> QED
    BY <1>3, <2>1, <2>4, HoldKeeps
<1> QED
  BY <1>4, <1>5

LEMMA NewObjectKeeps ==
  ASSUME Calling, NEW key \in ModuleAndTypeId,
         NEW isNull \in BOOLEAN, NEW wantPointer \in BOOLEAN, NEW asked \in Symbol \cup {NoName},
         asked # NoName /\ key.ModuleBase \notin unloaded =>
           asked = <<loaded[key.ModuleBase], key.TypeId>>,
         NewObject(key, isNull, wantPointer, asked)
  PROVE  ModulesInv' /\ TypeNamesInv' /\ HeldInv'
<1>1. DsInitializeTypedObject(Fresh, key, isNull, wantPointer, asked)
  BY DEF NewObject, AllocNewTypedObject, AllocTypedObject_py, AllocTypedObject_rb, Fresh
<1> QED
  BY <1>1, InitializeKeeps

LEMMA SubObjectKeeps ==
  ASSUME Calling, NEW d \in Data, d.ModBase \in Base, d.TypeId \in Type, SubObject(d)
  PROVE  ModulesInv' /\ TypeNamesInv' /\ HeldInv'
<1>1. DsWrapTypedData(Fresh, d)
  BY DEF SubObject, allocSubTypedObject_lua, allocSubTypedObject_py, allocTypedObjFromTypedData, Fresh
<1> QED
  BY <1>1, WrapKeeps

LEMMA NameFacts ==
  ASSUME NEW sym \in Symbol
  PROVE  sym # NoName /\ sym = <<sym[1], sym[2]>>
<1>1. sym \in Image \X Type /\ NoImage \notin Image
  BY SymCacheAssumption DEF SymCacheAssumption
<1> QED
  BY <1>1 DEF NoName

\* A type id of a name, and what is made of it.
LEMMA SymbolInfo ==
  ASSUME Calling, NEW sym \in Symbol, NEW info, GetCachedSymbolType(sym, info)
  PROVE  /\ SymbolsInv'
         /\ info # Nothing => info \in ModuleAndTypeId
         /\ info # Nothing /\ info.ModuleBase \notin unloaded =>
              sym = <<loaded[info.ModuleBase], info.TypeId>>
  BY CallFacts, SymbolLookup, NameFacts

LEMMA ByNameKeeps ==
  ASSUME Calling, NEW sym \in Symbol, NEW isNull \in BOOLEAN, NEW wantPointer \in BOOLEAN,
         ByName(sym, isNull, wantPointer)
  PROVE  CachesInv' /\ HeldInv'
<1>1. PICK info \in ModuleAndTypeId \cup {Nothing} :
        /\ GetCachedSymbolType(sym, info)
        /\ IF info = Nothing
           THEN UNCHANGED <<s_ModCache, s_TypeNameCache, held>>
           ELSE NewObject(info, isNull, wantPointer, sym)
  BY DEF ByName
<1>2. CASE info = Nothing
  BY <1>1, <1>2, SymbolInfo, ModulesKept, TypeNamesKept, HeldKept DEF CachesInv
<1>3. CASE info # Nothing
  BY <1>1, <1>3, SymbolInfo, NameFacts, NewObjectKeeps DEF CachesInv
<1> QED
  BY <1>2, <1>3

LEMMA CallDone ==
  ASSUME Calling, CachesInv', HeldInv', UNCHANGED traversed
  PROVE  Inv'
<1>1. prov' = prov /\ traversed' = traversed
  BY DEF Calling
<1>2. NullNotTraversed' /\ traversed' \in BOOLEAN
  BY <1>1 DEF Calling, Inv, NullNotTraversed
<1> QED
  BY <1>2, CallFacts DEF Inv, CachesInv

-----------------------------------------------------------------------------
(* Steps                                                                   *)

LEMMA Initially == Init => Inv
<1> SUFFICES ASSUME Init PROVE Inv
  OBVIOUS
<1>1. 0 \notin Base /\ 0 \notin Type
  BY SymCacheAssumption DEF SymCacheAssumption
<1>2. TargetInv /\ SymbolsInv /\ ModulesInv /\ TypeNamesInv
  BY DEF Init, SymCacheInit, TargetInv, SymbolsInv, SymbolsTrue, ModulesInv, ModulesTrue,
         TypeNamesInv, TypeNamesTrue
<1> QED
  BY <1>2 DEF Init, Inv, HeldInv, NullNotTraversed

\* What was true of a base from which nothing has been unloaded was not about a
\* base where nothing was loaded.
LEMMA LoadKeeps == ASSUME Inv, UNCHANGED script, NEW b \in Base, NEW i \in Image, Load(b, i) PROVE Inv'
<1>1. /\ loaded[b] = NoImage /\ loaded' = [loaded EXCEPT ![b] = i]
      /\ unloaded' = unloaded /\ s_SymCache' = s_SymCache /\ s_ModCache' = s_ModCache
      /\ s_TypeNameCache' = s_TypeNameCache
  BY DEF Load, caches
<1>2. prov' = prov /\ held' = held /\ traversed' = traversed
  BY DEF script
<1>3. /\ NoImage \notin Image /\ 0 \notin Base /\ 0 \notin Type
      /\ Symbol \subseteq Image \X Type
  BY SymCacheAssumption DEF SymCacheAssumption
<1>4. TargetInv' /\ \A x \in Base : loaded'[x] = IF x = b THEN i ELSE loaded[x]
  BY <1>1 DEF Inv, TargetInv
<1>5. SymbolsInv'
  <2>1. \A sym \in Symbol : sym[1] # NoImage
    BY <1>3
  <2>2. \A sym \in Symbol : s_SymCache[sym] \in ModuleAndTypeId \cup {Nothing}
    BY DEF Inv, SymbolsInv
  <2>3. \A info \in ModuleAndTypeId : info.ModuleBase \in Base
    BY DEF ModuleAndTypeId
  <2>4. SymbolsTrue'
    BY <1>1, <1>4, <2>1, <2>2, <2>3 DEF Inv, SymbolsInv, SymbolsTrue
  <2> QED
    BY <1>1, <2>4 DEF Inv, SymbolsInv
<1>6. ModulesInv'
  BY <1>1, <1>4 DEF Inv, ModulesInv, ModulesTrue
<1>7. TypeNamesInv'
  <2>1. \A key \in ModuleAndTypeId : key.ModuleBase \in Base /\ key.TypeId \in Type
    BY DEF ModuleAndTypeId
  <2>2. \A key \in ModuleAndTypeId : s_TypeNameCache[key] \in TypeName \cup {NoName}
    BY DEF Inv, TypeNamesInv
  <2>3. \A t \in Type : <<NoImage, t>> \notin TypeName \cup {NoName}
    BY <1>3 DEF TypeName, NoName
  <2>4. TypeNamesTrue'
    BY <1>1, <1>4, <2>1, <2>2, <2>3 DEF Inv, TypeNamesInv, TypeNamesTrue
  <2> QED
    BY <1>1, <2>4 DEF Inv, TypeNamesInv
<1>8. HeldInv'
  <2> SUFFICES ASSUME NEW o \in held PROVE o \in Object /\ ObjectTrue(o)' /\ NullEmpty(o)'
    BY <1>2 DEF HeldInv
  <2>1. o \in Object /\ ObjectTrue(o) /\ NullEmpty(o)
    BY DEF Inv, HeldInv
  <2>2. o.at \in Base \cup {0}
    BY <2>1, ObjectFields
  <2>3. o.at # 0 /\ o.at \notin unloaded => o.at # b
    BY <1>1, <1>3, <2>1 DEF ObjectTrue
  <2>4. ObjectTrue(o)'
    BY <1>1, <1>4, <2>1, <2>2, <2>3 DEF ObjectTrue
  <2> QED
    BY <1>2, <2>1, <2>4 DEF NullEmpty
<1> QED
  BY <1>2, <1>4, <1>5, <1>6, <1>7, <1>8 DEF Inv, NullNotTraversed

LEMMA UnloadKeeps == ASSUME Inv, UNCHANGED script, NEW b \in Base, Unload(b) PROVE Inv'
<1>1. /\ loaded' = [loaded EXCEPT ![b] = NoImage] /\ unloaded' = unloaded \cup {b}
      /\ s_SymCache' = s_SymCache /\ s_ModCache' = s_ModCache
      /\ s_TypeNameCache' = s_TypeNameCache
  BY DEF Unload, caches
<1>2. prov' = prov /\ held' = held /\ traversed' = traversed
  BY DEF script
<1>3. TargetInv' /\ \A x \in Base : x \notin unloaded' => loaded'[x] = loaded[x] /\ x \notin unloaded
  BY <1>1 DEF Inv, TargetInv
<1>4. \A key \in ModuleAndTypeId : key.ModuleBase \in Base
  BY DEF ModuleAndTypeId
<1>5. SymbolsInv'
  <2>1. SymbolsTrue'
    BY <1>1, <1>3, <1>4 DEF Inv, SymbolsInv, SymbolsTrue
  <2> QED
    BY <1>1, <2>1 DEF Inv, SymbolsInv
<1>6. ModulesInv'
  BY <1>1, <1>3 DEF Inv, ModulesInv, ModulesTrue
<1>7. TypeNamesInv'
  BY <1>1, <1>3, <1>4 DEF Inv, TypeNamesInv, TypeNamesTrue
<1>8. HeldInv'
  <2> SUFFICES ASSUME NEW o \in held PROVE o \in Object /\ ObjectTrue(o)' /\ NullEmpty(o)'
    BY <1>2 DEF HeldInv
  <2>1. o \in Object /\ ObjectTrue(o) /\ NullEmpty(o)
    BY DEF Inv, HeldInv
  <2>2. o.at \in Base \cup {0}
    BY <2>1, ObjectFields
  <2>3. ObjectTrue(o)'
    BY <1>3, <2>1, <2>2 DEF ObjectTrue
  <2> QED
    BY <1>2, <2>1, <2>3 DEF NullEmpty
<1> QED
  BY <1>2, <1>3, <1>5, <1>6, <1>7, <1>8 DEF Inv, NullNotTraversed

LEMMA TargetKeeps == ASSUME Inv, TargetRuns PROVE Inv'
<1>1. CASE \E b \in Base : Unload(b)
  BY <1>1, UnloadKeeps DEF TargetRuns
<1>2. CASE \E at \in Loadable : Load(at[1], at[2])
  <2>1. PICK at \in Loadable : Load(at[1], at[2])
    BY <1>2
  <2>2. at[1] \in Base /\ at[2] \in Image
    BY SymCacheAssumption DEF SymCacheAssumption
  <2> QED
    BY <2>1, <2>2, LoadKeeps DEF TargetRuns
<1> QED
  BY <1>1, <1>2 DEF TargetRuns, Target

LEMMA CreateKeeps ==
  ASSUME Inv, NEW p, NEW sym \in Symbol, NEW isNull \in BOOLEAN, NEW wantPointer \in BOOLEAN,
         createTypedObjectHelper(p, sym, isNull, wantPointer)
  PROVE  Inv'
<1>1. ByName(sym, isNull, wantPointer) /\ Calling /\ UNCHANGED traversed
  BY DEF createTypedObjectHelper, Calling, target
<1> QED
  BY <1>1, ByNameKeeps, CallDone

LEMMA LocalKeeps == ASSUME Inv, NEW p, Local(p, Fresh) PROVE Inv'
<1>1. Calling /\ UNCHANGED traversed
  BY DEF Local, Calling, target
<1>2. CASE InitializeInvalid(Fresh)
  BY <1>1, <1>2, InvalidKeeps, CallDone
<1>3. CASE UNCHANGED s_SymCache /\ \E key \in ModuleAndTypeId :
             /\ loaded[key.ModuleBase] # NoImage
             /\ NewObject(key, FALSE, FALSE, NoName)
  BY <1>1, <1>3, NewObjectKeeps, SymbolsKept, CallDone DEF CachesInv
<1> QED
  BY <1>2, <1>3 DEF Local

LEMMA ResolveKeeps == ASSUME Inv, NEW sym \in Symbol, Resolve(sym) PROVE Inv'
<1>1. Calling /\ UNCHANGED <<s_ModCache, s_TypeNameCache, held, traversed>>
  BY DEF Resolve, Calling, target, script
<1>2. \E info : GetCachedSymbolType(sym, info)
  BY DEF Resolve
<1> QED
  BY <1>1, <1>2, SymbolInfo, ModulesKept, TypeNamesKept, HeldKept, CallDone DEF CachesInv

\* Nothing comes of an object that has no data where memory is cleared.
LEMMA DeriveKeeps ==
  ASSUME Inv, NEW p, NEW o \in held, NEW parts,
         parts \subseteq Part(o.TypedData), Derive(p, o, parts)
  PROVE  Inv'
<1>1. Calling /\ UNCHANGED s_SymCache /\ traversed' = (traversed \/ ~o.real)
  BY DEF Derive, Calling, target
<1>2. PICK d \in parts : SubObject(d)
  BY DEF Derive
<1>3. o \in Object /\ NullEmpty(o) /\ TargetInv
  BY DEF Inv, HeldInv
<1>4. o.TypedData \in Data /\ o.real \in BOOLEAN
  BY <1>3, ObjectFields
<1>5. d \in Data /\ d.ModBase \in Base /\ d.TypeId \in Type
  BY <1>2, <1>3, <1>4, PartData
<1>6. ModulesInv' /\ TypeNamesInv' /\ HeldInv'
  BY <1>1, <1>2, <1>5, SubObjectKeeps
<1>7. SymbolsInv'
  BY <1>1, SymbolsKept
<1>8. ~o.real => prov = "lua"
  <2>1. Part(NoData) = {}
    BY DEF Part, NoData
  <2> QED
    BY <1>2, <1>3, <2>1 DEF NullEmpty
<1>9. NullNotTraversed' /\ traversed' \in BOOLEAN
  BY <1>1, <1>4, <1>8 DEF Inv, Calling, NullNotTraversed
<1> QED
  BY <1>1, <1>6, <1>7, <1>9, CallFacts DEF Inv

LEMMA DerivedKeeps == ASSUME Inv, Derived PROVE Inv'
<1>1. PICK o \in held :
        \/ getFieldHelper(o) \/ TypedObject_index(o) \/ TypedObject_deref_lua(o)
        \/ TypedObject_getattro(o) \/ sequence_get_item(o) \/ mapping_subscript(o)
        \/ TypedObject_deref_py(o)
        \/ method_missing(o) \/ TypedObject_get_item(o) \/ TypedObject_deref_rb(o)
  BY DEF Derived
<1>2. \E p : Derive(p, o, DsTypedObjectGetField(o)) \/ Derive(p, o, DsTypedObjectGetArrayElement(o))
  BY <1>1 DEF getFieldHelper, TypedObject_index, TypedObject_deref_lua, TypedObject_getattro,
              sequence_get_item, mapping_subscript, TypedObject_deref_py, method_missing,
              TypedObject_get_item, TypedObject_deref_rb
<1>3. /\ DsTypedObjectGetField(o) \subseteq Part(o.TypedData)
      /\ DsTypedObjectGetArrayElement(o) \subseteq Part(o.TypedData)
  BY DEF DsTypedObjectGetField, DsTypedObjectGetArrayElement
<1> QED
  BY <1>2, <1>3, DeriveKeeps

LEMMA RuntimeTypeKeeps == ASSUME Inv, NEW o \in held, DsTypedObjectGetRuntimeType(o, Fresh) PROVE Inv'
<1>1. Calling /\ UNCHANGED traversed
  BY DEF DsTypedObjectGetRuntimeType, Calling, target
<1>2. CASE Unfilled(Fresh) /\ UNCHANGED caches
  BY <1>1, <1>2, UnfilledKeeps, SymbolsKept, ModulesKept, TypeNamesKept, CallDone
     DEF CachesInv, caches
<1>3. CASE \E sym \in Symbol, info \in ModuleAndTypeId \cup {Nothing} :
          /\ GetCachedSymbolType(sym, info)
          /\ IF info = Nothing
             THEN Unfilled(Fresh) /\ UNCHANGED <<s_ModCache, s_TypeNameCache>>
             ELSE DsInitializeTypedObject(Fresh, info, FALSE, FALSE, sym)
  <2>1. PICK sym \in Symbol, info \in ModuleAndTypeId \cup {Nothing} :
          /\ GetCachedSymbolType(sym, info)
          /\ IF info = Nothing
             THEN Unfilled(Fresh) /\ UNCHANGED <<s_ModCache, s_TypeNameCache>>
             ELSE DsInitializeTypedObject(Fresh, info, FALSE, FALSE, sym)
    BY <1>3
  <2>2. CASE info = Nothing
    BY <1>1, <2>1, <2>2, SymbolInfo, UnfilledKeeps, ModulesKept, TypeNamesKept, CallDone
       DEF CachesInv
  <2>3. CASE info # Nothing
    BY <1>1, <2>1, <2>3, SymbolInfo, NameFacts, InitializeKeeps, CallDone DEF CachesInv
  <2> QED
    BY <2>2, <2>3
<1> QED
  BY <1>2, <1>3 DEF DsTypedObjectGetRuntimeType

LEMMA NamedKeeps == ASSUME Inv, Named PROVE Inv'
<1>1. CASE \E sym \in Symbol : UtilGetFieldOffset(sym) \/ UtilGetTypeSize(sym) \/ resolve_enum(sym)
  BY <1>1, ResolveKeeps DEF UtilGetFieldOffset, UtilGetTypeSize, resolve_enum
<1>2. CASE local_lua \/ local_py \/ local_rb
  <2>1. \E p : Local(p, Fresh)
    BY <1>2 DEF local_lua, local_py, local_rb, Local, Fresh
  <2> QED
    BY <2>1, LocalKeeps
<1>3. CASE \/ createTypedObject \/ create_typed_object_py \/ create_typed_object_rb
            \/ getGlobal \/ get_global_py \/ get_global_rb
  <2>1. createTypedObject \/ create_typed_object_py \/ create_typed_object_rb => Inv'
    BY CreateKeeps DEF createTypedObject, create_typed_object_py, create_typed_object_rb
  <2>2. getGlobal \/ get_global_py \/ get_global_rb => Inv'
    BY CreateKeeps DEF getGlobal, get_global_py, get_global_rb
  <2> QED
    BY <1>3, <2>1, <2>2
<1> QED
  BY <1>1, <1>2, <1>3 DEF Named

LEMMA NextKeeps == Inv /\ [Next]_vars => Inv'
<1> SUFFICES ASSUME Inv, [Next]_vars PROVE Inv'
  OBVIOUS
<1>1. CASE TargetRuns
  BY <1>1, TargetKeeps
<1>2. CASE Named
  BY <1>2, NamedKeeps
<1>3. CASE Derived
  BY <1>3, DerivedKeeps
<1>4. CASE Runtime
  <2>1. PICK o \in held : getRuntimeObject(o) \/ get_runtime_obj_py(o) \/ get_runtime_obj_rb(o)
    BY <1>4 DEF Runtime
  <2>2. DsTypedObjectGetRuntimeType(o, Fresh)
    BY <2>1 DEF getRuntimeObject, get_runtime_obj_py, get_runtime_obj_rb, Fresh
  <2> QED
    BY <2>2, RuntimeTypeKeeps
<1>5. CASE UNCHANGED vars
  <2>1. Calling /\ UNCHANGED <<s_SymCache, s_ModCache, s_TypeNameCache, held, traversed>>
    BY <1>5 DEF Calling, vars, target, caches, script
  <2> QED
    BY <2>1, SymbolsKept, ModulesKept, TypeNamesKept, HeldKept, CallDone DEF CachesInv
<1> QED
  BY <1>1, <1>2, <1>3, <1>4, <1>5 DEF Next

LEMMA Invariant == Spec => []Inv
  BY Initially, NextKeeps, PTL DEF Spec

-----------------------------------------------------------------------------
(* Values that scripts read                                                *)

Sizes == {1, 2, 4, 8}

\* The numbers of values of the sizes divide each other.
LEMMA ValuesDivide ==
  ASSUME NEW a \in Sizes, NEW b \in Sizes, a <= b
  PROVE  /\ Values(a) \in Nat \ {0} /\ Values(b) \in Nat \ {0}
         /\ \E k \in Nat \ {0} : Values(b) = Values(a) * k
<1> DEFINE W == Byte * Byte
           D == W * W
           Q == D * D
<1>1. Byte \in Nat \ {0}
  BY TargetMemoryAssumption DEF TargetMemoryAssumption
<1>2. W \in Nat \ {0}
  BY <1>1
<1>3. D \in Nat \ {0} /\ D = W * W /\ D = Byte * (Byte * W)
  <2>1. D = Byte * (Byte * W)
    BY <1>1, SMT
  <2> HIDE DEF W
  <2> QED BY <1>2, <2>1
<1>4. Q \in Nat \ {0} /\ Q = D * D /\ Q = W * (W * D) /\ Q = Byte * (Byte * (W * D))
  <2>1. Q = W * (W * D)
    <3> HIDE DEF W
    <3> QED BY <1>2, SMT
  <2>2. Q = Byte * (Byte * (W * D))
    <3>1. \A x \in Nat : W * x = Byte * (Byte * x)
      BY <1>1, SMT
    <3> HIDE DEF W, D, Q
    <3> QED BY <1>2, <1>3, <2>1, <3>1
  <2> HIDE DEF D
  <2> QED BY <1>3, <2>1, <2>2
<1>5. Values(1) = Byte /\ Values(2) = W /\ Values(4) = D /\ Values(8) = Q
  BY DEF Values
<1>6. W = Byte * Byte
  OBVIOUS
<1> HIDE DEF W, D, Q
<1>7. \A n \in Sizes : Values(n) \in Nat \ {0}
  BY <1>1, <1>2, <1>3, <1>4, <1>5 DEF Sizes
<1>8. CASE a = b
  <2>1. Values(b) = Values(a) * 1
    BY <1>7, <1>8
  <2> QED BY <1>7, <2>1
<1>9. CASE a = 1 /\ b # 1
  <2>1. Byte * W \in Nat \ {0}
    BY <1>1, <1>2
  <2>2. Byte * (W * D) \in Nat \ {0}
    <3>1. W * D \in Nat \ {0}
      BY <1>2, <1>3
    <3> QED BY <1>1, <3>1
  <2> QED BY <1>1, <1>3, <1>4, <1>5, <1>6, <1>7, <1>9, <2>1, <2>2 DEF Sizes
<1>10. CASE a = 2 /\ b # 2
  <2>1. W * D \in Nat \ {0}
    BY <1>2, <1>3
  <2> QED BY <1>2, <1>3, <1>4, <1>5, <1>7, <1>10, <2>1 DEF Sizes
<1>11. CASE a = 4 /\ b = 8
  BY <1>3, <1>4, <1>5, <1>7, <1>11
<1> QED
  BY <1>8, <1>9, <1>10, <1>11 DEF Sizes

\* What a size can hold is at most half of what eight bytes can.
LEMMA Halved == \A n \in {1, 2, 4} : 2 * Values(n) <= Values(8)
<1>1. Byte \in Nat /\ Byte >= 2
  BY TargetMemoryAssumption DEF TargetMemoryAssumption
<1>2. /\ Values(1) \in Nat \ {0} /\ Values(2) \in Nat \ {0} /\ Values(4) \in Nat \ {0}
      /\ Values(1) <= Values(2) /\ Values(2) <= Values(4)
  <2>1. 1 \in Sizes /\ 2 \in Sizes /\ 4 \in Sizes /\ 1 <= 2 /\ 2 <= 4
    BY DEF Sizes
  <2>2. PICK k \in Nat \ {0} : Values(2) = Values(1) * k
    BY <2>1, ValuesDivide
  <2>3. PICK l \in Nat \ {0} : Values(4) = Values(2) * l
    BY <2>1, ValuesDivide
  <2>4. Values(1) \in Nat \ {0} /\ Values(2) \in Nat \ {0} /\ Values(4) \in Nat \ {0}
    BY <2>1, ValuesDivide
  <2>5. \A x, y \in Nat \ {0} : x <= x * y
    OBVIOUS
  <2> QED BY <2>2, <2>3, <2>4, <2>5
<1>3. Values(8) = Values(4) * Values(4)
  BY DEF Values
<1>4. 2 <= Values(4)
  <2>1. Values(1) = Byte
    BY DEF Values
  <2> QED BY <1>1, <1>2, <2>1
<1>5. \A x \in Nat : 2 <= x => 2 * x <= x * x
  OBVIOUS
<1> QED
  BY <1>2, <1>3, <1>4, <1>5

\* The number of bits that the member can hold.
LEMMA Decoded ==
  ASSUME NEW n \in Sizes, NEW s \in BOOLEAN, NEW bits \in Nat, bits < Values(n),
         NEW member, member = [bytes |-> n, signed |-> s]
  PROVE  Decode(member, bits) = IF s /\ 2 * bits >= Values(n) THEN bits - Values(n) ELSE bits
<1>1. Values(n) \in Nat \ {0}
  <2>1. n <= n
    BY DEF Sizes
  <2> QED BY <2>1, ValuesDivide
<1>2. bits % Values(n) = bits
  BY <1>1
<1> QED
  BY <1>2 DEF Decode

\* The types and the members of each kind of value.
Plain == {"UINT8", "BOOL", "CHAR", "UINT16", "WCHAR", "UINT32"}
Wide == {"pointer32", "pointer64", "UINT64"}
Dropped(p, kind) == kind \in {"INT8", "INT16"} \/ (kind = "INT32" /\ p # "py")

LEMMA MemberFacts ==
  ASSUME NEW p \in Language, NEW kind \in Kind
  PROVE  /\ kind \in Plain \/ kind \in Wide \/ kind \in Enum \/ Dropped(p, kind) \/ KeepsSign(p, kind)
         /\ kind \in Plain => \E n \in {1, 2, 4} : CType(kind) = Unsigned(n) /\ Member(p, kind) = Unsigned(n)
         /\ kind \in Wide =>
              /\ \E n \in {4, 8} : CType(kind) = Unsigned(n)
              /\ Member(p, kind) = IF p = "lua" THEN Signed(8) ELSE Unsigned(8)
         /\ Dropped(p, kind) => \E n \in {1, 2, 4} : CType(kind) = Signed(n) /\ Member(p, kind) = Unsigned(n)
         /\ KeepsSign(p, kind) => \E n \in {4, 8} : CType(kind) = Signed(n) /\ Member(p, kind) = Signed(n)
         /\ kind \in Enum =>
              /\ Member(p, kind) = Unsigned(4)
              /\ CType(kind) = Unsigned(1) \/ CType(kind) = Signed(4) \/ CType(kind) = Signed(8)
<1>1. p = "lua" \/ p = "py" \/ p = "rb"
  BY DEF Language
<1>2. /\ Member("lua", kind) = luaValueFromCValue(kind)
      /\ Member("py", kind) = pyValueFromCValue(kind)
      /\ Member("rb", kind) = rbValueFromCValue(kind)
  BY DEF Member
<1>3. kind \in Plain \/ kind \in Wide \/ kind \in Enum \/ Dropped(p, kind) \/ KeepsSign(p, kind)
  BY DEF Kind, Plain, Wide, Enum, Dropped, KeepsSign
<1>4. ASSUME kind \in Plain
      PROVE  \E n \in {1, 2, 4} : CType(kind) = Unsigned(n) /\ Member(p, kind) = Unsigned(n)
  <2>1. CASE kind \in {"UINT8", "BOOL", "CHAR"}
    <3>1. CType(kind) = Unsigned(1) /\ Member(p, kind) = Unsigned(1)
      BY <1>1, <1>2, <2>1 DEF CType, luaValueFromCValue, pyValueFromCValue, rbValueFromCValue
    <3> QED BY <3>1
  <2>2. CASE kind \in {"UINT16", "WCHAR"}
    <3>1. CType(kind) = Unsigned(2) /\ Member(p, kind) = Unsigned(2)
      BY <1>1, <1>2, <2>2 DEF CType, luaValueFromCValue, pyValueFromCValue, rbValueFromCValue
    <3> QED BY <3>1
  <2>3. CASE kind = "UINT32"
    <3>1. CType(kind) = Unsigned(4) /\ Member(p, kind) = Unsigned(4)
      BY <1>1, <1>2, <2>3 DEF CType, luaValueFromCValue, pyValueFromCValue, rbValueFromCValue
    <3> QED BY <3>1
  <2> QED BY <1>4, <2>1, <2>2, <2>3 DEF Plain
<1>5. ASSUME kind \in Wide
      PROVE  /\ \E n \in {4, 8} : CType(kind) = Unsigned(n)
             /\ Member(p, kind) = IF p = "lua" THEN Signed(8) ELSE Unsigned(8)
  <2>1. CType(kind) = Unsigned(4) \/ CType(kind) = Unsigned(8)
    BY <1>5 DEF Wide, CType
  <2>2. Member(p, kind) = IF p = "lua" THEN Signed(8) ELSE Unsigned(8)
    BY <1>1, <1>2, <1>5 DEF Wide, luaValueFromCValue, pyValueFromCValue, rbValueFromCValue
  <2> QED BY <2>1, <2>2
<1>6. ASSUME Dropped(p, kind)
      PROVE  \E n \in {1, 2, 4} : CType(kind) = Signed(n) /\ Member(p, kind) = Unsigned(n)
  <2>1. CASE kind = "INT8"
    <3>1. CType(kind) = Signed(1) /\ Member(p, kind) = Unsigned(1)
      BY <1>1, <1>2, <2>1 DEF CType, luaValueFromCValue, pyValueFromCValue, rbValueFromCValue
    <3> QED BY <3>1
  <2>2. CASE kind = "INT16"
    <3>1. CType(kind) = Signed(2) /\ Member(p, kind) = Unsigned(2)
      BY <1>1, <1>2, <2>2 DEF CType, luaValueFromCValue, pyValueFromCValue, rbValueFromCValue
    <3> QED BY <3>1
  <2>3. CASE kind = "INT32" /\ p # "py"
    <3>1. CType(kind) = Signed(4) /\ Member(p, kind) = Unsigned(4)
      BY <1>1, <1>2, <2>3 DEF CType, luaValueFromCValue, rbValueFromCValue
    <3> QED BY <3>1
  <2> QED BY <1>6, <2>1, <2>2, <2>3 DEF Dropped
<1>7. ASSUME KeepsSign(p, kind)
      PROVE  \E n \in {4, 8} : CType(kind) = Signed(n) /\ Member(p, kind) = Signed(n)
  <2>1. CASE kind = "INT64"
    <3>1. CType(kind) = Signed(8) /\ Member(p, kind) = Signed(8)
      BY <1>1, <1>2, <2>1 DEF CType, luaValueFromCValue, pyValueFromCValue, rbValueFromCValue
    <3> QED BY <3>1
  <2>2. CASE kind = "INT32" /\ p = "py"
    <3>1. CType(kind) = Signed(4) /\ Member(p, kind) = Signed(4)
      BY <1>2, <2>2 DEF CType, pyValueFromCValue
    <3> QED BY <3>1
  <2> QED BY <1>7, <2>1, <2>2 DEF KeepsSign
<1>8. ASSUME kind \in Enum
      PROVE  /\ Member(p, kind) = Unsigned(4)
             /\ CType(kind) = Unsigned(1) \/ CType(kind) = Signed(4) \/ CType(kind) = Signed(8)
  <2>1. Member(p, kind) = Unsigned(4)
    BY <1>1, <1>2, <1>8 DEF Enum, luaValueFromCValue, pyValueFromCValue, rbValueFromCValue
  <2>2. CType(kind) = Unsigned(1) \/ CType(kind) = Signed(4) \/ CType(kind) = Signed(8)
    BY <1>8 DEF Enum, CType
  <2> QED BY <2>1, <2>2
<1> QED
  BY <1>3, <1>4, <1>5, <1>6, <1>7, <1>8

\* Whole times a modulus do not matter.
LEMMA Wraps ==
  ASSUME NEW x \in Int, NEW q \in Int, NEW m \in Nat \ {0}
  PROVE  (x - m * q) % m = x % m
<1> DEFINE y == x - m * q
           r == x % m
           s == y % m
           d == (y \div m) - ((x \div m) - q)
<1>1. /\ x = m * (x \div m) + r /\ x \div m \in Int /\ r \in 0 .. m - 1
      /\ y = m * (y \div m) + s /\ y \div m \in Int /\ s \in 0 .. m - 1
  <2>1. y \in Int
    OBVIOUS
  <2> HIDE DEF y
  <2> QED BY <2>1
<1>2. d \in Int /\ m * d = r - s
  <2>1. \A i, j, k \in Int : m * (i - (j - k)) = m * i - m * j + m * k
    BY SMT
  <2>2. m * d = m * (y \div m) - m * (x \div m) + m * q
    BY <1>1, <2>1
  <2>3. m * (y \div m) = y - s /\ m * (x \div m) = x - r
    BY <1>1
  <2>4. y = x - m * q /\ m * q \in Int
    OBVIOUS
  <2> HIDE DEF y, r, s
  <2> QED BY <1>1, <2>2, <2>3, <2>4
<1> HIDE DEF y, r, s, d
<1>3. d = 0
  <2>1. CASE d >= 1
    <3>1. m * d >= m
      BY <1>2, <2>1
    <3> QED BY <1>1, <1>2, <3>1
  <2>2. CASE d <= -1
    <3>1. m * d <= -m
      BY <1>2, <2>2
    <3> QED BY <1>1, <1>2, <3>1
  <2> QED BY <1>2, <2>1, <2>2
<1> QED
  BY <1>1, <1>2, <1>3 DEF y, r, s

\* Every language gives the value that is documented here of every kind, whatever
\* the values of a byte.
LEMMA FaithfulToAll == FaithfulClear = Language
<1> SUFFICES ASSUME NEW p \in Language, NEW kind \in Kind,
                    NEW bits \in 0 .. Values(CType(kind).bytes) - 1
             PROVE  ValueFromCValue(p, kind, bits, 0) = Arrives(p, kind, CValue(kind, bits))
  BY DEF FaithfulClear, Faithful
<1> DEFINE type == CType(kind)
           member == Member(p, kind)
           c == CValue(kind, bits)
           v == ValueFromCValue(p, kind, bits, 0)
<1>1. \A n \in Sizes : Values(n) \in Nat \ {0}
  <2>1. \A n \in Sizes : n <= n
    BY DEF Sizes
  <2> QED BY <2>1, ValuesDivide
<1>2. /\ 1 \in Sizes /\ 2 \in Sizes /\ 4 \in Sizes /\ 8 \in Sizes
      /\ \A n \in {1, 2, 4} : n \in Sizes
  BY DEF Sizes
<1>3. \A n \in Sizes : Signed(n).bytes = n /\ Unsigned(n).bytes = n
  BY DEF Signed, Unsigned
<1>4. type.bytes \in Sizes
  BY <1>2, <1>3, MemberFacts DEF type
<1>5. bits \in Nat /\ bits < Values(type.bytes)
  BY <1>1, <1>4
<1>6. c = Decode(type, bits)
  BY DEF CValue
<1>7. v = Decode(member, bits)
  <2>1. bits + 0 * Values(type.bytes) = bits
    BY <1>1, <1>4, <1>5
  <2> QED BY <2>1 DEF ValueFromCValue
<1>8. \A n \in Sizes : bits < Values(n) =>
        /\ Decode(Signed(n), bits) = IF 2 * bits >= Values(n) THEN bits - Values(n) ELSE bits
        /\ Decode(Unsigned(n), bits) = bits
  <2> TAKE n \in Sizes
  <2> HAVE bits < Values(n)
  <2>1. Signed(n) = [bytes |-> n, signed |-> TRUE] /\ Unsigned(n) = [bytes |-> n, signed |-> FALSE]
    BY DEF Signed, Unsigned
  <2>2. Decode(Signed(n), bits) = IF TRUE /\ 2 * bits >= Values(n) THEN bits - Values(n) ELSE bits
    BY <1>5, <2>1, Decoded
  <2>3. Decode(Unsigned(n), bits) = IF FALSE /\ 2 * bits >= Values(n) THEN bits - Values(n) ELSE bits
    BY <1>5, <2>1, Decoded
  <2> QED BY <2>2, <2>3
<1>9. kind \notin Enum /\ c >= 0 =>
        Arrives(p, kind, c) = IF p = "lua" /\ 2 * c >= Values(8) THEN c - Values(8) ELSE c
  <2>1. c \in Int
    BY <1>1, <1>4, <1>5, <1>6 DEF Decode
  <2> HIDE DEF c
  <2> QED BY <2>1 DEF Arrives
<1>10. kind \notin Enum /\ c < 0 =>
        Arrives(p, kind, c) = IF KeepsSign(p, kind) THEN c ELSE c + Values(type.bytes)
  BY DEF Arrives
<1>11. kind \in Enum => Arrives(p, kind, c) = c % Values(4)
  BY DEF Arrives
<1> HIDE DEF type, member, c, v
<1>12. CASE kind \in Plain
  <2>1. PICK n \in {1, 2, 4} : type = Unsigned(n) /\ member = Unsigned(n)
    BY <1>12, MemberFacts DEF type, member
  <2>2. c = bits /\ v = bits /\ bits < Values(n)
    BY <1>2, <1>3, <1>5, <1>6, <1>7, <1>8, <2>1
  <2>3. 2 * bits < Values(8)
    BY <1>1, <1>2, <1>5, <2>2, Halved
  <2>4. kind \notin Enum
    BY <1>12 DEF Plain, Enum
  <2>5. c >= 0 /\ ~(2 * c >= Values(8))
    BY <1>1, <1>2, <1>5, <2>2, <2>3
  <2> QED BY <1>9, <2>2, <2>4, <2>5 DEF c, v
<1>13. CASE kind \in Wide
  <2>1. PICK n \in {4, 8} : type = Unsigned(n)
    BY <1>13, MemberFacts DEF type
  <2>2. member = IF p = "lua" THEN Signed(8) ELSE Unsigned(8)
    BY <1>13, MemberFacts DEF member
  <2>3. c = bits /\ bits < Values(n)
    BY <1>2, <1>3, <1>5, <1>6, <1>8, <2>1
  <2>4. bits < Values(8)
    BY <1>1, <1>2, <1>5, <2>3, Halved
  <2>5. v = IF p = "lua" /\ 2 * bits >= Values(8) THEN bits - Values(8) ELSE bits
    BY <1>2, <1>7, <1>8, <2>2, <2>4
  <2>6. kind \notin Enum
    BY <1>13 DEF Wide, Enum
  <2> QED BY <1>5, <1>9, <2>3, <2>5, <2>6 DEF c, v
<1>14. CASE Dropped(p, kind)
  <2>1. PICK n \in {1, 2, 4} : type = Signed(n) /\ member = Unsigned(n)
    BY <1>14, MemberFacts DEF type, member
  <2>2. /\ n \in Sizes /\ type.bytes = n /\ bits < Values(n) /\ v = bits
        /\ c = IF 2 * bits >= Values(n) THEN bits - Values(n) ELSE bits
    BY <1>2, <1>3, <1>5, <1>6, <1>7, <1>8, <2>1
  <2>3. 2 * bits < Values(8) /\ Values(n) \in Nat /\ Values(8) \in Nat
    BY <1>1, <1>2, <1>5, <2>2, Halved
  <2>4. kind \notin Enum /\ ~KeepsSign(p, kind)
    BY <1>14 DEF Dropped, Enum, KeepsSign
  <2>5. CASE 2 * bits >= Values(n)
    <3>1. c = bits - Values(n) /\ c < 0 /\ v = c + Values(n)
      BY <1>5, <2>2, <2>3, <2>5
    <3> QED BY <1>10, <2>2, <2>4, <3>1 DEF c, v
  <2>6. CASE ~(2 * bits >= Values(n))
    <3>1. c = bits /\ v = c /\ 0 <= c /\ ~(2 * c >= Values(8))
      BY <1>5, <2>2, <2>3, <2>6
    <3> QED BY <1>9, <2>4, <3>1 DEF c, v
  <2> QED BY <2>5, <2>6
<1>15. CASE KeepsSign(p, kind)
  <2>1. PICK n \in {4, 8} : type = Signed(n) /\ member = Signed(n)
    BY <1>15, MemberFacts DEF type, member
  <2>2. /\ n \in Sizes /\ bits < Values(n) /\ v = c
        /\ c = IF 2 * bits >= Values(n) THEN bits - Values(n) ELSE bits
    BY <1>2, <1>3, <1>5, <1>6, <1>7, <1>8, <2>1
  <2>3. Values(n) \in Nat /\ Values(8) \in Nat /\ Values(n) <= Values(8)
    BY <1>1, <1>2, <2>2, Halved
  <2>4. kind \notin Enum
    BY <1>15 DEF Enum, KeepsSign
  <2>5. CASE c < 0
    BY <1>10, <1>15, <2>2, <2>4, <2>5 DEF c, v
  <2>6. CASE ~(c < 0)
    <3>1. 0 <= c /\ ~(2 * c >= Values(8))
      BY <1>5, <2>2, <2>3, <2>6
    <3> QED BY <1>9, <2>2, <2>4, <3>1 DEF c, v
  <2> QED BY <2>5, <2>6
<1>16. CASE kind \in Enum
  <2>1. member = Unsigned(4)
    BY <1>16, MemberFacts DEF member
  <2>2. Values(4) \in Nat \ {0} /\ Values(8) = Values(4) * Values(4)
    BY <1>1, <1>2 DEF Values
  <2>3. v = bits % Values(4)
    BY <1>3, <1>2, <1>7, <2>1 DEF Decode, Unsigned
  <2>4. c \in {bits, bits - Values(4) * 1, bits - Values(4) * Values(4)}
    <3>1. CASE type = Unsigned(1)
      BY <1>2, <1>3, <1>5, <1>6, <1>8, <3>1
    <3>2. CASE type = Signed(4)
      <4>1. c = bits \/ c = bits - Values(4)
        BY <1>2, <1>3, <1>5, <1>6, <1>8, <3>2
      <4> QED BY <2>2, <4>1
    <3>3. CASE type = Signed(8)
      BY <1>2, <1>3, <1>5, <1>6, <1>8, <2>2, <3>3
    <3> QED BY <1>16, <3>1, <3>2, <3>3, MemberFacts DEF type
  <2>5. c % Values(4) = bits % Values(4)
    <3>1. bits \in Int /\ 1 \in Int /\ Values(4) \in Int
      BY <1>5, <2>2
    <3>2. (bits - Values(4) * 1) % Values(4) = bits % Values(4)
      BY <2>2, <3>1, Wraps
    <3>3. (bits - Values(4) * Values(4)) % Values(4) = bits % Values(4)
      BY <2>2, <3>1, Wraps
    <3> QED BY <2>4, <3>2, <3>3
  <2> QED BY <1>11, <1>16, <2>3, <2>5 DEF c, v
<1> QED
  BY <1>12, <1>13, <1>14, <1>15, <1>16, MemberFacts

-----------------------------------------------------------------------------
(* Strings that scripts read                                               *)

\* What the engine writes of a string that has its NUL in the buffer.
LEMMA WrittenFacts ==
  ASSUME NEW string \in String, NEW asked \in Int
  PROVE  /\ Written(string, asked) \subseteq Int
         /\ \A n \in Written(string, asked) :
              /\ string.len < MAX_READ_STRING_LEN
              /\ string.len < asked => n = string.len
              /\ n <= string.len
  BY TargetMemoryAssumption DEF TargetMemoryAssumption, String, Written

\* A count is kept to, and a string that is not longer comes whole.
LEMMA CountKept ==
  ASSUME NEW string \in String, NEW count \in Int, CountSupported(count),
         NEW n \in UtilReadAnsiString(string, count) \cup UtilReadWideString(string, count)
  PROVE  TextRight(string, count, n)
<1> DEFINE asked == IF count < 0 THEN MAX_READ_STRING_LEN ELSE count
<1>1. MAX_READ_STRING_LEN \in Nat /\ asked \in Int /\ string.len \in Nat
  BY TargetMemoryAssumption DEF TargetMemoryAssumption, String
<1>2. PICK m \in Written(string, asked) : n = IF asked < string.len + 1 THEN Least(m, asked) ELSE m
  BY DEF UtilReadAnsiString, UtilReadWideString
<1>3. /\ m \in Int /\ string.len < MAX_READ_STRING_LEN
      /\ string.len < asked => m = string.len
      /\ m <= string.len
      /\ asked <= string.len => m \in {asked - 1, asked, string.len}
  BY <1>1, <1>2, WrittenFacts DEF Written
<1>4. count < 0 => asked = MAX_READ_STRING_LEN
  OBVIOUS
<1>5. count >= 0 => asked = count
  OBVIOUS
<1> HIDE DEF asked
<1> QED
  BY <1>1, <1>2, <1>3, <1>4, <1>5 DEF TextRight, Least

\* Every language keeps to the counts, whatever the buffer.
LEMMA RightToAll == RightReaders = Language
<1>1. SUFFICES ASSUME NEW p \in Language, NEW string \in String, NEW count \in Count,
                      NEW n \in ReadString(p, string, count) \cup ReadWideString(p, string, count)
               PROVE  TextRight(string, count, n)
  BY DEF RightReaders
<1>2. count \in Int
  BY ScriptDataAssumption DEF ScriptDataAssumption
<1>3. CASE n = Error
  BY <1>3 DEF TextRight
<1>4. CASE n # Error
  <2>1. p = "lua" \/ p = "py" \/ p = "rb"
    BY DEF Language
  <2>2. CountSupported(count)
    BY <1>4, <2>1 DEF ReadString, ReadWideString, LuaReadString, PyReadString, RbReadString,
                   LuaReadWideString, PyReadWideString, RbReadWideString
  <2>3. \A answers : n \in OrError(answers) => n \in answers
    BY <1>4 DEF OrError
  <2>4. n \in UtilReadAnsiString(string, count) \cup UtilReadWideString(string, count)
    <3>1. CASE n \in ReadString(p, string, count)
      BY <2>1, <2>2, <2>3, <3>1 DEF ReadString, LuaReadString, PyReadString, RbReadString
    <3>2. CASE n \in ReadWideString(p, string, count)
      BY <2>1, <2>2, <2>3, <3>2
         DEF ReadWideString, LuaReadWideString, PyReadWideString, RbReadWideString
    <3> QED BY <1>1, <3>1, <3>2
  <2> QED BY <1>2, <2>2, <2>4, CountKept
<1> QED
  BY <1>3, <1>4

\* Two bytes for each character are enough where no character takes three.
LEMMA NarrowFits ==
  ASSUME NEW string \in String, string.width <= 2, NEW count \in Int, CountSupported(count),
         NEW n \in UtilReadWideString(string, count)
  PROVE  FitsUtf8(string, n)
<1> DEFINE asked == IF count < 0 THEN MAX_READ_STRING_LEN ELSE count
<1>1. string.len \in 0 .. MAX_READ_STRING_LEN /\ string.width \in 1 .. 3
  BY DEF String
<1>2. /\ MAX_READ_STRING_LEN \in Nat \ {0} /\ string.len \in Nat
      /\ string.width = 1 \/ string.width = 2
  BY <1>1, TargetMemoryAssumption DEF TargetMemoryAssumption
<1>3. asked \in Int /\ \E m \in Written(string, asked) :
                       n = IF asked < string.len + 1 THEN Least(m, asked) ELSE m
  BY <1>2 DEF UtilReadWideString
<1> HIDE DEF asked
<1>4. PICK m \in Written(string, asked) : n = IF asked < string.len + 1 THEN Least(m, asked) ELSE m
  BY <1>3
<1>5. m \in Int /\ m <= string.len /\ string.len < MAX_READ_STRING_LEN
  BY <1>3, WrittenFacts
<1>6. n \in Int /\ n < MAX_READ_STRING_LEN
  BY <1>2, <1>3, <1>5, <1>4 DEF Least
<1>7. CASE string.width = 1
  BY <1>2, <1>6, <1>7 DEF FitsUtf8
<1>8. CASE string.width = 2
  BY <1>2, <1>6, <1>8 DEF FitsUtf8
<1> QED
  BY <1>2, <1>7, <1>8

\* Every language reads what the others do.
LEMMA AgreeingAll == AgreeingReaders = Language
<1> SUFFICES ASSUME NEW p \in Language, NEW string \in String, NEW count \in Count
             PROVE  /\ string.width = 1 => ReadString(p, string, count) = LuaReadString(string, count)
                    /\ string.width <= 2 =>
                         ReadWideString(p, string, count) = PyReadWideString(string, count)
  BY DEF AgreeingReaders
<1>1. p = "lua" \/ p = "py" \/ p = "rb"
  BY DEF Language
<1>2. count \in Int
  BY ScriptDataAssumption DEF ScriptDataAssumption
<1>3. ASSUME string.width = 1 PROVE ReadString(p, string, count) = LuaReadString(string, count)
  <2>1. {n \in UtilReadAnsiString(string, count) : n = 0 \/ string.width = 1}
          = UtilReadAnsiString(string, count)
    BY <1>3
  <2>2. PyReadString(string, count) = LuaReadString(string, count)
    BY <2>1, Zenon DEF PyReadString, LuaReadString
  <2>3. RbReadString(string, count) = LuaReadString(string, count)
    BY Zenon DEF RbReadString, LuaReadString
  <2> QED BY <1>1, <2>2, <2>3 DEF ReadString
<1>4. ASSUME string.width <= 2
      PROVE  ReadWideString(p, string, count) = PyReadWideString(string, count)
  <2>1. CountSupported(count) =>
          {n \in UtilReadWideString(string, count) : FitsUtf8(string, n)}
            = UtilReadWideString(string, count)
    BY <1>2, <1>4, NarrowFits
  <2>2. LuaReadWideString(string, count) = PyReadWideString(string, count)
    BY <2>1, Zenon DEF LuaReadWideString, PyReadWideString
  <2>3. RbReadWideString(string, count) = PyReadWideString(string, count)
    BY <2>1, Zenon DEF RbReadWideString, PyReadWideString
  <2> QED BY <1>1, <2>2, <2>3 DEF ReadWideString
<1> QED
  BY <1>3, <1>4

-----------------------------------------------------------------------------
(* Theorems                                                                *)

\* What the cache and the objects hold keeps to its types, whatever memory Lua's
\* objects are made from (TypedObject, SymCache).
THEOREM TypeCorrect == Spec => []TypeOK
<1>1. Inv => TypeOK
  BY DEF Inv, TargetInv, SymbolsInv, ModulesInv, TypeNamesInv, HeldInv, TypeOK, SymCacheTypeOK
<1> QED
  BY <1>1, Invariant, PTL

\* A cached answer is what the engine would answer now, until a module is unloaded
\* from the base it is about (support/symcache.cpp).
THEOREM CacheIsTrue == Spec => []EntriesTrue
<1>1. Inv => EntriesTrue
  BY DEF Inv, SymbolsInv, ModulesInv, TypeNamesInv, EntriesTrue
<1> QED
  BY <1>1, Invariant, PTL

\* The names of an object are those of its data, but that a typed pointer has the
\* name of what it points to; and an object made by name is named as asked
\* (support/dstypedobject.cpp), while nothing was unloaded from its base.
THEOREM ObjectsAreWhatTheySay == Spec => []NamesOfData /\ []NamedAsAsked
<1>1. Inv => NamesOfData
  BY DEF Inv, HeldInv, ObjectTrue, NamesOfData
<1>2. Inv => NamedAsAsked
  <2> SUFFICES ASSUME Inv, NEW o \in held, o.asked # NoName, o.at \notin unloaded
               PROVE  /\ o.TypeName = o.asked
                      /\ o.real => loaded[o.TypedData.ModBase] = o.asked[1]
    BY DEF NamedAsAsked
  <2>1. ObjectTrue(o)
    BY DEF Inv, HeldInv
  <2> QED
    BY <2>1 DEF ObjectTrue
<1> QED
  BY <1>1, <1>2, Invariant, PTL

\* Where memory is cleared, in Python and Ruby, nothing comes of an object the
\* engine gave no data for (TypedObject_alloc, tp_new).
THEOREM NothingComesOfNull == Spec => []NullNotTraversed
<1>1. Inv => NullNotTraversed
  BY DEF Inv
<1> QED
  BY <1>1, Invariant, PTL

LEMMA ScriptsAreInALanguage == Inv => prov \in Language
  BY TypedObjectAssumption DEF TypedObjectAssumption, Inv, Language

\* The value a script reads of an object of cleared memory is the C value itself
\* where that is not below zero, an INT64's whichever it is, and otherwise exactly
\* what ScriptData!Arrives says, for bytes of any number of values (the value
\* methods of the providers).
THEOREM ValuesArrive == Spec => []ValuesFaithful
<1>1. Inv => ValuesFaithful
  BY ScriptsAreInALanguage, FaithfulToAll DEF ValuesFaithful
<1> QED
  BY <1>1, Invariant, PTL

\* A string comes with no more characters than asked for and than it has, whatever
\* the length of the read buffers (UtilReadAnsiString, UtilReadWideString).
THEOREM StringsKeepToCounts == Spec => []StringsAsAsked
<1>1. Inv => StringsAsAsked
  BY ScriptsAreInALanguage, RightToAll DEF StringsAsAsked
<1> QED
  BY <1>1, Invariant, PTL

\* The three providers read the same text of ASCII strings, and of wide strings
\* with no character of three bytes (util.cpp of the providers).
THEOREM StringsAreTheSame == Spec => []LanguagesAgree
<1>1. Inv => LanguagesAgree
  BY AgreeingAll DEF LanguagesAgree
<1> QED
  BY <1>1, Invariant, PTL

\* In Python and Ruby an object of a null address answers neither with a value nor
\* with a text nor with a length: the methods that check find that it has no data
\* (checkTypedData).
THEOREM NullHasNoAnswers == Spec => []AnswersFromData
<1>1. Inv => AnswersFromData
  <2> SUFFICES ASSUME Inv, NEW o \in held, prov # "lua", ~o.real
               PROVE  /\ TypedObject_value(o, "UINT8", 1) = Raised
                      /\ TypedObject_readString(o, [len |-> 1, width |-> 1], -1) = Raised
                      /\ TypedObject_readWideString(o, [len |-> 1, width |-> 1], -1) = Raised
                      /\ InLanguage(TypedObject_len(o, 1, 1), TypedObject_sequence_length(o, 1, 1),
                                    TypedObject_length(o, 1, 1)) = Raised
    BY DEF AnswersFromData
  <2>1. ~checkTypedData(o)
    BY DEF Inv, HeldInv, NullEmpty, checkTypedData
  <2>2. \A answers : Checked(o, answers) = Raised
    BY <2>1 DEF Checked
  <2>3. prov = "py" \/ prov = "rb"
    BY ScriptsAreInALanguage DEF Language
  <2>4. TypedObject_value(o, "UINT8", 1) = Raised
    BY <2>2, <2>3 DEF TypedObject_value, InLanguage, TypedObject_get_value, TypedObject_value_rb,
                      ReadValue
  <2>5. TypedObject_readString(o, [len |-> 1, width |-> 1], -1) = Raised
    BY <2>2, <2>3 DEF TypedObject_readString, InLanguage, TypedObject_read_string_py,
                      TypedObject_read_string_rb
  <2>6. TypedObject_readWideString(o, [len |-> 1, width |-> 1], -1) = Raised
    BY <2>2, <2>3 DEF TypedObject_readWideString, InLanguage, TypedObject_read_wide_string_py,
                      TypedObject_read_wide_string_rb
  <2>7. InLanguage(TypedObject_len(o, 1, 1), TypedObject_sequence_length(o, 1, 1),
                   TypedObject_length(o, 1, 1)) = Raised
    BY <2>2, <2>3 DEF InLanguage, TypedObject_sequence_length, TypedObject_length, Length
  <2> QED
    BY <2>4, <2>5, <2>6, <2>7
<1> QED
  BY <1>1, Invariant, PTL
=============================================================================
