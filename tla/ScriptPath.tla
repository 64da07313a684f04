----------------------------- MODULE ScriptPath -----------------------------
(***************************************************************************)
(* The list of directories that scripts are searched in: !scriptpath sets  *)
(* and prints it (scriptpath in dllmain.cpp), a provider's Run searches it *)
(* (UtilFindScriptFile in support/util.cpp).                               *)
(*                                                                         *)
(* The list is a linked one, freed and rebuilt in place, an element for    *)
(* each part of the argument between its commas.  While it is searched the *)
(* files may come and go: each look at the disk has an answer of its own.  *)
(***************************************************************************)
EXTENDS Integers, Sequences

CONSTANTS
  Directory,     \* what may stand between two commas
  PathArgument,  \* the arguments of !scriptpath, each the sequence of its parts
  MaxElems       \* bound: elements allocated

NoElem == 0
Elem == 1 .. MaxElems
AsNamed == "as named"   \* the place of a script that is found without the list

ASSUME ScriptPathAssumption ==
  /\ AsNamed \notin Directory
  /\ PathArgument \subseteq Seq(Directory) \ {<<>>}
  /\ MaxElems \in Nat
  /\ \A arg \in PathArgument : Len(arg) <= MaxElems

VARIABLES
  at,          \* where scriptpath or UtilFindScriptFile is
  str,         \* scriptpath: the parts of the argument still to be read
  elem, prev,  \* the cursors of both
  ScriptPath,  \* the head of the list
  heap,        \* the elements allocated
  fullPath,    \* UtilFindScriptFile: the place of the script it looks at
  given,       \* history: the last argument
  absent       \* history: the places the search found without the script

path == <<at, str, elem, prev, ScriptPath, heap, fullPath, given, absent>>

Place == Directory \cup {AsNamed}

PathTypeOK ==
  /\ at \in {"idle", "free", "split", "print", "search", "check", "found", "missing"}
  /\ str \in Seq(Directory)
  /\ elem \in Elem \cup {NoElem}
  /\ prev \in Elem \cup {NoElem}
  /\ ScriptPath \in Elem \cup {NoElem}
  /\ DOMAIN heap \subseteq Elem
  /\ \A e \in DOMAIN heap : heap[e] \in [Path : Directory, Next : Elem \cup {NoElem}]
  /\ fullPath \in Place
  /\ given \in Seq(Directory)
  /\ absent \subseteq Place

PathInit ==
  /\ at = "idle"
  /\ str = <<>>
  /\ elem = NoElem
  /\ prev = NoElem
  /\ ScriptPath = NoElem
  /\ heap = <<>>
  /\ fullPath = AsNamed
  /\ given = <<>>
  /\ absent = {}

Element(directory) == [Path |-> directory, Next |-> NoElem]

-----------------------------------------------------------------------------
(* scriptpath                                                              *)

\* Without an argument the list is only printed.
PrintPath ==
  /\ at' = "print"
  /\ elem' = ScriptPath
  /\ UNCHANGED <<str, prev, ScriptPath, heap, fullPath, given, absent>>

SetPath(arg) ==
  /\ at' = "free"
  /\ str' = arg
  /\ given' = arg
  /\ elem' = ScriptPath
  /\ prev' = NoElem
  /\ UNCHANGED <<ScriptPath, heap, fullPath, absent>>

FreeElem ==
  /\ at = "free"
  /\ elem # NoElem
  /\ elem' = heap[elem].Next
  /\ heap' = [e \in DOMAIN heap \ {elem} |-> heap[e]]
  /\ UNCHANGED <<at, str, prev, ScriptPath, fullPath, given, absent>>

Freed ==
  /\ at = "free"
  /\ elem = NoElem
  /\ ScriptPath' = NoElem
  /\ at' = "split"
  /\ UNCHANGED <<str, elem, prev, heap, fullPath, given, absent>>

\* The list with an element e at its end: the head, or the next of prev.
Appended(e, directory) ==
  [x \in DOMAIN heap \cup {e} |->
     IF x = e THEN Element(directory)
     ELSE IF ScriptPath # NoElem /\ x = prev THEN [heap[x] EXCEPT !.Next = e]
     ELSE heap[x]]

\* Fault: the tail is not remembered.
SplitAtCommaHead ==
  /\ at = "split"
  /\ Len(str) > 1
  /\ \E e \in Elem \ DOMAIN heap :
       /\ \A other \in Elem \ DOMAIN heap : e <= other
       /\ heap' = Appended(e, Head(str))
       /\ ScriptPath' = IF ScriptPath = NoElem THEN e ELSE ScriptPath
       /\ elem' = e
       /\ prev' = IF ScriptPath = NoElem THEN e ELSE prev
  /\ str' = Tail(str)
  /\ UNCHANGED <<at, fullPath, given, absent>>

\* A part that ends at a comma, and the trailer.
SplitAtComma ==
  /\ at = "split"
  /\ Len(str) > 1
  /\ \E e \in Elem \ DOMAIN heap :
       /\ \A other \in Elem \ DOMAIN heap : e <= other
       /\ heap' = Appended(e, Head(str))
       /\ ScriptPath' = IF ScriptPath = NoElem THEN e ELSE ScriptPath
       /\ elem' = e
       /\ prev' = e
  /\ str' = Tail(str)
  /\ UNCHANGED <<at, fullPath, given, absent>>

CopyTrailer ==
  /\ at = "split"
  /\ Len(str) = 1
  /\ \E e \in Elem \ DOMAIN heap :
       /\ \A other \in Elem \ DOMAIN heap : e <= other
       /\ heap' = Appended(e, Head(str))
       /\ ScriptPath' = IF ScriptPath = NoElem THEN e ELSE ScriptPath
       /\ elem' = IF ScriptPath = NoElem THEN e ELSE ScriptPath
  /\ at' = "print"
  /\ UNCHANGED <<str, prev, fullPath, given, absent>>

PrintElem ==
  /\ at = "print"
  /\ elem # NoElem
  /\ elem' = heap[elem].Next
  /\ UNCHANGED <<at, str, prev, ScriptPath, heap, fullPath, given, absent>>

\* The end of the list, or of an output that failed.
Printed(ok) ==
  /\ at = "print"
  /\ ok <=> elem = NoElem
  /\ at' = "idle"
  /\ str' = <<>>
  /\ elem' = NoElem
  /\ prev' = NoElem
  /\ UNCHANGED <<ScriptPath, heap, fullPath, given, absent>>

-----------------------------------------------------------------------------
(* UtilFindScriptFile                                                      *)

\* A file may be made or removed at any time, but none has an empty name; the
\* directory that is left when a name is empty is no file.
UtilFileExists(named) == IF named THEN BOOLEAN ELSE {FALSE}

LookAsNamed(exists) ==
  /\ fullPath' = AsNamed
  /\ IF exists
     THEN at' = "check" /\ absent' = {} /\ UNCHANGED elem
     ELSE at' = "search" /\ absent' = {AsNamed} /\ elem' = ScriptPath
  /\ UNCHANGED <<str, prev, ScriptPath, heap, given>>

\* Fault: the search goes on after a match.
LookInWholePath(exists) ==
  /\ at = "search"
  /\ elem # NoElem
  /\ fullPath' = heap[elem].Path
  /\ elem' = heap[elem].Next
  /\ absent' = IF exists THEN absent ELSE absent \cup {heap[elem].Path}
  /\ UNCHANGED <<at, str, prev, ScriptPath, heap, given>>

LookInPath(exists) ==
  /\ at = "search"
  /\ elem # NoElem
  /\ fullPath' = heap[elem].Path
  /\ IF exists
     THEN at' = "check" /\ UNCHANGED <<elem, absent>>
     ELSE elem' = heap[elem].Next /\ absent' = absent \cup {heap[elem].Path} /\ UNCHANGED at
  /\ UNCHANGED <<str, prev, ScriptPath, heap, given>>

PathSearched ==
  /\ at = "search"
  /\ elem = NoElem
  /\ at' = "check"
  /\ UNCHANGED <<str, elem, prev, ScriptPath, heap, fullPath, given, absent>>

\* The last look, at what fullPath holds: where the search stopped, the last
\* directory, or the script as named when the list is empty.
LookAgain(exists) ==
  /\ at = "check"
  /\ at' = IF exists THEN "found" ELSE "missing"
  /\ UNCHANGED <<str, elem, prev, ScriptPath, heap, fullPath, given, absent>>

UtilFindScriptFile(named) ==
  \/ \E exists \in UtilFileExists(named) : LookInPath(exists) \/ LookAgain(exists)
  \/ PathSearched

-----------------------------------------------------------------------------
(* Properties                                                              *)

\* The elements of the list in their order.
IsList(s) ==
  /\ \A j \in 1 .. Len(s) : s[j] \in DOMAIN heap
  /\ ScriptPath = IF s = <<>> THEN NoElem ELSE s[1]
  /\ \A j \in 1 .. Len(s) :
       heap[s[j]].Next = IF j = Len(s) THEN NoElem ELSE s[j + 1]

\* The list is the argument of the last !scriptpath, part by part, and nothing but
\* its elements is allocated ("Takes a comma-separated list of paths to search",
\* docs/Reference.rst), whatever list was there before.
PathIsArgument ==
  at \notin {"free", "split"} =>
    \E s \in [1 .. Len(given) -> DOMAIN heap] :
      /\ IsList(s)
      /\ \A j \in 1 .. Len(given) : heap[s[j]].Path = given[j]
      /\ DOMAIN heap = {s[j] : j \in 1 .. Len(given)}

\* The script a search finds is the first of its name: the one named, or the one in
\* a directory before which neither it nor any earlier directory had one when the
\* search passed ("searched for in the cwd and in the list of paths", dllmain.cpp),
\* even if files come and go.
FoundFirst ==
  at = "found" /\ fullPath # AsNamed =>
    /\ AsNamed \in absent
    /\ \E k \in 1 .. Len(given) : /\ fullPath = given[k]
                                 /\ \A j \in 1 .. k - 1 : given[j] \in absent
=============================================================================
