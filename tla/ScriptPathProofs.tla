-------------------------- MODULE ScriptPathProofs --------------------------
(***************************************************************************)
(* Lemmas about the steps of ScriptPath: the list that is freed and rebuilt *)
(* in place is at every step a chain of distinct elements that are all      *)
(* there is, and a search goes along it without passing over a directory.   *)
(***************************************************************************)
EXTENDS ScriptPath, TLAPS

\* s is a chain of n elements in h from first, with the directories dirs.
Linked(h, s, n, dirs, first) ==
  /\ n \in Nat
  /\ s \in [1 .. n -> Elem]
  /\ \A j, k \in 1 .. n : s[j] = s[k] => j = k
  /\ DOMAIN h = {s[j] : j \in 1 .. n}
  /\ \A j \in 1 .. n :
       h[s[j]] = [Path |-> dirs[j], Next |-> IF j = n THEN NoElem ELSE s[j + 1]]
  /\ first = IF n = 0 THEN NoElem ELSE s[1]

\* What is left of the list before is freed from the front.
FreeInv == at = "free" => /\ str = given /\ given # <<>>
                          /\ \E n, s, dirs : Linked(heap, s, n, dirs, elem)

\* The parts read so far are in the list, and prev is its last element.
SplitInv ==
  at = "split" =>
    /\ Len(str) \in 1 .. Len(given)
    /\ \A j \in 1 .. Len(str) : str[j] = given[Len(given) - Len(str) + j]
    /\ \E s : LET n == Len(given) - Len(str)
              IN  Linked(heap, s, n, given, ScriptPath) /\ (n > 0 => prev = s[n])

\* Otherwise the list is the argument.
ListInv ==
  at \notin {"free", "split"} => \E s : Linked(heap, s, Len(given), given, ScriptPath)

\* The search has looked as named and in the first k directories.
SearchInv ==
  at = "search" =>
    /\ AsNamed \in absent
    /\ \A s : Linked(heap, s, Len(given), given, ScriptPath) =>
         \E k \in 0 .. Len(given) :
           /\ elem = IF k = Len(given) THEN NoElem ELSE s[k + 1]
           /\ fullPath = IF k = 0 THEN AsNamed ELSE given[k]
           /\ \A j \in 1 .. k : given[j] \in absent

CheckInv ==
  at \in {"check", "found"} /\ fullPath # AsNamed =>
    /\ AsNamed \in absent
    /\ \E k \in 1 .. Len(given) : /\ fullPath = given[k]
                                 /\ \A j \in 1 .. k - 1 : given[j] \in absent

ArgInv == given \in Seq(Directory) /\ str \in Seq(Directory)

PathInv == ArgInv /\ FreeInv /\ SplitInv /\ ListInv /\ SearchInv /\ CheckInv

-----------------------------------------------------------------------------
(* The list                                                                *)

LEMMA Elements == NoElem \notin Elem
BY DEF NoElem, Elem

LEMMA EmptyLinked ==
  ASSUME NEW s \in [1 .. 0 -> Elem], NEW dirs, NEW h, DOMAIN h = {}
  PROVE  Linked(h, s, 0, dirs, NoElem)
BY DEF Linked

\* The head of a chain and what follows it.
LEMMA ChainHead ==
  ASSUME NEW h, NEW s, NEW n, NEW dirs, NEW first, Linked(h, s, n, dirs, first)
  PROVE  /\ (first = NoElem) <=> (n = 0)
         /\ n > 0 => /\ first = s[1]
                     /\ h[first].Next = IF n = 1 THEN NoElem ELSE s[2]
<1>1. n \in Nat /\ s \in [1 .. n -> Elem] /\ first = IF n = 0 THEN NoElem ELSE s[1]
  BY DEF Linked
<1>2. \A j \in 1 .. n :
        h[s[j]] = [Path |-> dirs[j], Next |-> IF j = n THEN NoElem ELSE s[j + 1]]
  BY DEF Linked
<1>3. n > 0 => 1 \in 1 .. n /\ s[1] \in Elem
  BY <1>1
<1>4. n > 0 => h[s[1]].Next = IF n = 1 THEN NoElem ELSE s[2]
  <2> SUFFICES ASSUME n > 0 PROVE h[s[1]].Next = IF n = 1 THEN NoElem ELSE s[2]
    OBVIOUS
  <2>1. h[s[1]] = [Path |-> dirs[1], Next |-> IF 1 = n THEN NoElem ELSE s[1 + 1]]
    BY <1>2, <1>3
  <2> QED
    BY <2>1
<1> QED
  BY <1>1, <1>3, <1>4, Elements

\* Without its head a chain is one.
LEMMA ChainTail ==
  ASSUME NEW h, NEW s, NEW n, NEW dirs, NEW first, Linked(h, s, n, dirs, first),
         first # NoElem
  PROVE  Linked([e \in DOMAIN h \ {first} |-> h[e]], [j \in 1 .. n - 1 |-> s[j + 1]], n - 1,
                [j \in 1 .. n - 1 |-> dirs[j + 1]], h[first].Next)
<1> DEFINE rest == [e \in DOMAIN h \ {first} |-> h[e]]
           t == [j \in 1 .. n - 1 |-> s[j + 1]]
           d == [j \in 1 .. n - 1 |-> dirs[j + 1]]
<1>1. /\ n \in Nat /\ n > 0 /\ s \in [1 .. n -> Elem] /\ first = s[1]
      /\ h[first].Next = IF n = 1 THEN NoElem ELSE s[2]
      /\ \A j, k \in 1 .. n : s[j] = s[k] => j = k
      /\ DOMAIN h = {s[j] : j \in 1 .. n}
      /\ \A j \in 1 .. n :
           h[s[j]] = [Path |-> dirs[j], Next |-> IF j = n THEN NoElem ELSE s[j + 1]]
  <2>1. n \in Nat /\ n > 0 /\ first = s[1] /\ h[first].Next = IF n = 1 THEN NoElem ELSE s[2]
    <3>1. n \in Nat /\ n # 0
      BY ChainHead DEF Linked
    <3> QED
      BY <3>1, ChainHead
  <2> QED
    BY <2>1 DEF Linked
<1>2. n - 1 \in Nat /\ \A j \in 1 .. n - 1 : j + 1 \in 1 .. n
  BY <1>1
<1>3. t \in [1 .. n - 1 -> Elem] /\ \A j \in 1 .. n - 1 : t[j] = s[j + 1]
  BY <1>1, <1>2
<1>4. \A j, k \in 1 .. n - 1 : t[j] = t[k] => j = k
  BY <1>1, <1>2, <1>3
<1>5. DOMAIN rest = {t[j] : j \in 1 .. n - 1}
  <2>1. \A e : e \in DOMAIN h \ {s[1]} <=> \E j \in 1 .. n - 1 : e = s[j + 1]
    <3> SUFFICES ASSUME NEW e
                 PROVE  e \in DOMAIN h \ {s[1]} <=> \E j \in 1 .. n - 1 : e = s[j + 1]
      OBVIOUS
    <3>1. ASSUME e \in DOMAIN h \ {s[1]} PROVE \E j \in 1 .. n - 1 : e = s[j + 1]
      <4>1. PICK j \in 1 .. n : e = s[j]
        BY <1>1, <3>1
      <4>2. j # 1
        BY <4>1, <3>1
      <4>3. j - 1 \in 1 .. n - 1 /\ e = s[(j - 1) + 1]
        BY <4>1, <4>2, <1>1
      <4> QED
        BY <4>3
    <3>2. ASSUME NEW j \in 1 .. n - 1, e = s[j + 1] PROVE e \in DOMAIN h \ {s[1]}
      BY <3>2, <1>1, <1>2
    <3> QED
      BY <3>1, <3>2
  <2>2. DOMAIN rest = DOMAIN h \ {s[1]}
    BY <1>1
  <2>3. \A e : e \in DOMAIN rest <=> \E j \in 1 .. n - 1 : e = t[j]
    BY <2>1, <2>2, <1>3
  <2> HIDE DEF rest, t
  <2> QED
    BY <2>3
<1>6. \A j \in 1 .. n - 1 :
        rest[t[j]] = [Path |-> d[j], Next |-> IF j = n - 1 THEN NoElem ELSE t[j + 1]]
  <2> SUFFICES ASSUME NEW j \in 1 .. n - 1
               PROVE  rest[t[j]] = [Path |-> d[j], Next |-> IF j = n - 1 THEN NoElem ELSE t[j + 1]]
    OBVIOUS
  <2>1. t[j] \in DOMAIN rest /\ rest[t[j]] = h[s[j + 1]]
    BY <1>3, <1>5
  <2>2. h[s[j + 1]] = [Path |-> dirs[j + 1], Next |-> IF j + 1 = n THEN NoElem ELSE s[(j + 1) + 1]]
    BY <1>1, <1>2
  <2>3. d[j] = dirs[j + 1] /\ (j + 1 = n <=> j = n - 1)
    BY <1>1
  <2>4. j # n - 1 => t[j + 1] = s[(j + 1) + 1]
    BY <1>1, <1>3
  <2> QED
    BY <2>1, <2>2, <2>3, <2>4
<1>7. h[first].Next = IF n - 1 = 0 THEN NoElem ELSE t[1]
  BY <1>1, <1>3
<1> HIDE DEF rest, t, d
<1>8. Linked(rest, t, n - 1, d, h[first].Next)
  BY <1>2, <1>3, <1>4, <1>5, <1>6, <1>7 DEF Linked
<1> QED
  BY <1>8 DEF rest, t, d

\* A chain with an element more at its end.
LEMMA ChainAppended ==
  ASSUME NEW s, NEW n, Linked(heap, s, n, given, ScriptPath), n > 0 => prev = s[n],
         NEW e \in Elem \ DOMAIN heap
  PROVE  LET t == [j \in 1 .. n + 1 |-> IF j = n + 1 THEN e ELSE s[j]]
         IN  /\ Linked(Appended(e, given[n + 1]), t, n + 1, given,
                       IF ScriptPath = NoElem THEN e ELSE ScriptPath)
             /\ t[n + 1] = e
<1> DEFINE t == [j \in 1 .. n + 1 |-> IF j = n + 1 THEN e ELSE s[j]]
           h == Appended(e, given[n + 1])
<1>1. /\ n \in Nat /\ s \in [1 .. n -> Elem]
      /\ \A j, k \in 1 .. n : s[j] = s[k] => j = k
      /\ DOMAIN heap = {s[j] : j \in 1 .. n}
      /\ \A j \in 1 .. n :
           heap[s[j]] = [Path |-> given[j], Next |-> IF j = n THEN NoElem ELSE s[j + 1]]
      /\ ScriptPath = IF n = 0 THEN NoElem ELSE s[1]
  BY DEF Linked
<1>2. ScriptPath = NoElem <=> n = 0
  BY ChainHead
<1>3. t \in [1 .. n + 1 -> Elem] /\ t[n + 1] = e /\ \A j \in 1 .. n : t[j] = s[j]
  BY <1>1
<1>4. \A j \in 1 .. n : s[j] # e /\ s[j] \in DOMAIN heap
  BY <1>1
<1>5. \A j, k \in 1 .. n + 1 : t[j] = t[k] => j = k
  <2> SUFFICES ASSUME NEW j \in 1 .. n + 1, NEW k \in 1 .. n + 1, t[j] = t[k] PROVE j = k
    OBVIOUS
  <2>1. (j = n + 1 \/ j \in 1 .. n) /\ (k = n + 1 \/ k \in 1 .. n)
    BY <1>1
  <2> QED
    BY <2>1, <1>1, <1>3, <1>4
<1>6. DOMAIN h = DOMAIN heap \cup {e}
  BY DEF Appended
<1>7. DOMAIN h = {t[j] : j \in 1 .. n + 1}
  <2>1. \A x : x \in DOMAIN heap \cup {e} <=> \E j \in 1 .. n + 1 : x = t[j]
    <3> SUFFICES ASSUME NEW x
                 PROVE  x \in DOMAIN heap \cup {e} <=> \E j \in 1 .. n + 1 : x = t[j]
      OBVIOUS
    <3>1. ASSUME x \in DOMAIN heap PROVE \E j \in 1 .. n + 1 : x = t[j]
      <4>1. PICK j \in 1 .. n : x = s[j]
        BY <1>1, <3>1
      <4>2. j \in 1 .. n + 1
        BY <1>1
      <4> QED
        BY <4>1, <4>2, <1>3
    <3>2. n + 1 \in 1 .. n + 1
      BY <1>1
    <3>3. ASSUME NEW j \in 1 .. n + 1, x = t[j] PROVE x \in DOMAIN heap \cup {e}
      <4>1. j = n + 1 \/ j \in 1 .. n
        BY <1>1
      <4> QED
        BY <4>1, <3>3, <1>3, <1>4
    <3> QED
      BY <3>1, <3>2, <3>3, <1>3
  <2> QED
    BY <2>1, <1>6
<1>8. \A j \in 1 .. n + 1 :
        h[t[j]] = [Path |-> given[j], Next |-> IF j = n + 1 THEN NoElem ELSE t[j + 1]]
  <2> SUFFICES ASSUME NEW j \in 1 .. n + 1
               PROVE  h[t[j]] = [Path |-> given[j], Next |-> IF j = n + 1 THEN NoElem ELSE t[j + 1]]
    OBVIOUS
  <2>1. CASE j = n + 1
    BY <2>1, <1>3 DEF Appended, Element
  <2>2. CASE j \in 1 .. n /\ j = n
    <3>1. t[j] = prev /\ prev \in DOMAIN heap /\ prev # e /\ ScriptPath # NoElem
      BY <2>2, <1>1, <1>2, <1>3, <1>4
    <3>2. h[t[j]] = [heap[prev] EXCEPT !.Next = e]
      BY <3>1 DEF Appended
    <3>3. heap[prev] = [Path |-> given[j], Next |-> NoElem]
      BY <2>2, <1>1
    <3>4. t[j + 1] = e /\ j # n + 1
      BY <2>2, <1>1, <1>3
    <3> QED
      BY <3>2, <3>3, <3>4
  <2>3. CASE j \in 1 .. n /\ j # n
    <3>1. n > 0 /\ n \in 1 .. n /\ j + 1 \in 1 .. n /\ j # n + 1
      BY <2>3, <1>1
    <3>2. t[j] = s[j] /\ s[j] \in DOMAIN heap /\ s[j] # e /\ t[j + 1] = s[j + 1]
      BY <2>3, <3>1, <1>3, <1>4
    <3>3. s[j] # prev
      BY <2>3, <3>1, <1>1
    <3>4. h[t[j]] = heap[s[j]]
      BY <3>2, <3>3 DEF Appended
    <3> QED
      BY <3>1, <3>2, <3>4, <2>3, <1>1
  <2> QED
    BY <2>1, <2>2, <2>3, <1>1
<1>9. (IF ScriptPath = NoElem THEN e ELSE ScriptPath) = IF n + 1 = 0 THEN NoElem ELSE t[1]
  <2>1. CASE n = 0
    BY <2>1, <1>2, <1>3
  <2>2. CASE n # 0
    <3>1. 1 \in 1 .. n /\ n + 1 # 0
      BY <2>2, <1>1
    <3> QED
      BY <3>1, <2>2, <1>1, <1>2, <1>3
  <2> QED
    BY <2>1, <2>2
<1>10. n + 1 \in Nat
  BY <1>1
<1> HIDE DEF h, t
<1>11. Linked(h, t, n + 1, given, IF ScriptPath = NoElem THEN e ELSE ScriptPath)
  BY <1>3, <1>5, <1>7, <1>8, <1>9, <1>10 DEF Linked
<1> QED
  BY <1>3, <1>11 DEF h, t

-----------------------------------------------------------------------------
(* scriptpath                                                              *)

\* The list of nothing, at first and when the extension is loaded again.
NothingListed ==
  at = "idle" /\ heap = <<>> /\ given = <<>> /\ ScriptPath = NoElem /\ str \in Seq(Directory)

LEMMA NoList == NothingListed => PathInv
<1> SUFFICES ASSUME NothingListed PROVE PathInv
  OBVIOUS
<1> DEFINE s == [j \in 1 .. 0 |-> 1]
<1>1. DOMAIN heap = {}
  BY DEF NothingListed
<1>2. /\ Len(given) = 0 /\ given \in Seq(Directory) /\ ScriptPath = NoElem
      /\ at = "idle" /\ str \in Seq(Directory)
  BY DEF NothingListed
<1>3. s \in [1 .. 0 -> Elem]
  OBVIOUS
<1> HIDE DEF s
<1>4. Linked(heap, s, Len(given), given, ScriptPath)
  <2>1. Linked(heap, s, 0, given, NoElem)
    BY <1>1, <1>3, EmptyLinked
  <2> QED
    BY <2>1, <1>2
<1>5. ListInv
  BY <1>4 DEF ListInv
<1>6. ArgInv /\ FreeInv /\ SplitInv /\ SearchInv /\ CheckInv
  BY <1>2 DEF ArgInv, FreeInv, SplitInv, SearchInv, CheckInv
<1> QED
  BY <1>5, <1>6 DEF PathInv

\* A step that leaves the list alone while it is not being rebuilt.
LEMMA ListUntouched ==
  ASSUME PathInv, at \notin {"free", "split"}, UNCHANGED <<heap, ScriptPath, given, str>>,
         at' \notin {"free", "split"}, SearchInv', CheckInv'
  PROVE  PathInv'
<1>1. ArgInv' /\ FreeInv' /\ SplitInv'
  BY DEF PathInv, ArgInv, FreeInv, SplitInv
<1>2. ListInv'
  BY DEF PathInv, ListInv
<1> QED
  BY <1>1, <1>2 DEF PathInv

LEMMA PrintPathKeeps == ASSUME PathInv, at = "idle", PrintPath PROVE PathInv'
<1>1. at' = "print" /\ UNCHANGED <<heap, ScriptPath, given, str>>
  BY DEF PrintPath
<1>2. SearchInv' /\ CheckInv'
  BY <1>1 DEF SearchInv, CheckInv
<1> QED
  BY <1>1, <1>2, ListUntouched

LEMMA SetPathKeeps ==
  ASSUME PathInv, at = "idle", NEW arg \in PathArgument, SetPath(arg)
  PROVE  PathInv'
<1>1. /\ at' = "free" /\ str' = arg /\ given' = arg /\ elem' = ScriptPath
      /\ UNCHANGED heap
  BY DEF SetPath
<1>2. PICK s : Linked(heap, s, Len(given), given, ScriptPath)
  BY DEF PathInv, ListInv
<1>3. arg \in Seq(Directory) /\ arg # <<>>
  <2>1. PathArgument \subseteq Seq(Directory) \ {<<>>}
    BY ScriptPathAssumption, Zenon DEF ScriptPathAssumption
  <2> QED
    BY <2>1
<1>4. ArgInv' /\ FreeInv'
  BY <1>1, <1>2, <1>3 DEF ArgInv, FreeInv
<1>5. SplitInv' /\ ListInv' /\ SearchInv' /\ CheckInv'
  BY <1>1 DEF SplitInv, ListInv, SearchInv, CheckInv
<1> QED
  BY <1>3, <1>4, <1>5 DEF PathInv

LEMMA FreeElemKeeps == ASSUME PathInv, FreeElem PROVE PathInv'
<1>1. /\ at = "free" /\ elem # NoElem /\ elem' = heap[elem].Next
      /\ heap' = [e \in DOMAIN heap \ {elem} |-> heap[e]]
      /\ UNCHANGED <<at, str, given>>
  BY DEF FreeElem
<1>2. PICK n, s, dirs : Linked(heap, s, n, dirs, elem)
  BY <1>1 DEF PathInv, FreeInv
<1>3. \E m, t, d : Linked(heap', t, m, d, elem')
  BY <1>1, <1>2, ChainTail
<1>4. FreeInv'
  BY <1>1, <1>3 DEF PathInv, FreeInv
<1>5. ArgInv' /\ SplitInv' /\ ListInv' /\ SearchInv' /\ CheckInv'
  BY <1>1 DEF PathInv, ArgInv, SplitInv, ListInv, SearchInv, CheckInv
<1> QED
  BY <1>4, <1>5 DEF PathInv

LEMMA FreedKeeps == ASSUME PathInv, Freed PROVE PathInv'
<1>1. /\ at = "free" /\ elem = NoElem /\ ScriptPath' = NoElem /\ at' = "split"
      /\ UNCHANGED <<str, heap, given>> /\ str = given /\ given \in Seq(Directory) /\ given # <<>>
  BY DEF Freed, PathInv, FreeInv, ArgInv
<1>2. PICK n, s, dirs : Linked(heap, s, n, dirs, elem)
  BY <1>1 DEF PathInv, FreeInv
<1>3. n = 0
  BY <1>1, <1>2, ChainHead
<1>4. DOMAIN heap' = {} /\ s \in [1 .. 0 -> Elem]
  BY <1>1, <1>2, <1>3 DEF Linked
<1>5. Linked(heap', s, 0, given', ScriptPath')
  BY <1>1, <1>4, EmptyLinked
<1>6. Len(given) \in Nat /\ Len(given) > 0 /\ Len(given) - Len(str) = 0
  BY <1>1
<1>7. SplitInv'
  <2>1. Len(str)' \in 1 .. Len(given)'
    BY <1>1, <1>6
  <2>2. \A j \in 1 .. Len(str)' : str'[j] = given'[Len(given') - Len(str') + j]
    BY <1>1, <1>6
  <2>3. Linked(heap', s, Len(given') - Len(str'), given', ScriptPath') /\ ~(Len(given') - Len(str') > 0)
    BY <1>1, <1>5, <1>6
  <2> QED
    BY <2>1, <2>2, <2>3 DEF SplitInv
<1>8. ArgInv' /\ FreeInv' /\ ListInv' /\ SearchInv' /\ CheckInv'
  BY <1>1 DEF PathInv, ArgInv, FreeInv, ListInv, SearchInv, CheckInv
<1> QED
  BY <1>7, <1>8 DEF PathInv

\* The element both halves of the splitting append is in its place.
LEMMA PartAppended ==
  ASSUME PathInv, at = "split", NEW e \in Elem \ DOMAIN heap,
         heap' = Appended(e, Head(str)),
         ScriptPath' = IF ScriptPath = NoElem THEN e ELSE ScriptPath,
         UNCHANGED given
  PROVE  LET n == Len(given) - Len(str) + 1
         IN  \E t : Linked(heap', t, n, given', ScriptPath') /\ t[n] = e
<1> DEFINE n == Len(given) - Len(str)
<1>1. /\ given \in Seq(Directory) /\ str \in Seq(Directory)
      /\ Len(str) \in 1 .. Len(given)
      /\ \A j \in 1 .. Len(str) : str[j] = given[Len(given) - Len(str) + j]
  BY DEF PathInv, ArgInv, SplitInv
<1>2. PICK s : Linked(heap, s, n, given, ScriptPath) /\ (n > 0 => prev = s[n])
  BY DEF PathInv, SplitInv
<1>3. Head(str) = given[n + 1]
  BY <1>1
<1>4. \E t : Linked(Appended(e, given[n + 1]), t, n + 1, given, ScriptPath') /\ t[n + 1] = e
  BY <1>2, ChainAppended
<1> QED
  BY <1>3, <1>4

LEMMA SplitAtCommaKeeps == ASSUME PathInv, SplitAtComma PROVE PathInv'
<1>1. PICK e \in Elem \ DOMAIN heap :
        /\ heap' = Appended(e, Head(str))
        /\ ScriptPath' = IF ScriptPath = NoElem THEN e ELSE ScriptPath
        /\ prev' = e
  BY DEF SplitAtComma
<1>2. at = "split" /\ Len(str) > 1 /\ str' = Tail(str) /\ UNCHANGED <<at, given>>
  BY DEF SplitAtComma
<1>3. /\ given \in Seq(Directory) /\ str \in Seq(Directory)
      /\ Len(str) \in 1 .. Len(given)
      /\ \A j \in 1 .. Len(str) : str[j] = given[Len(given) - Len(str) + j]
  BY <1>2 DEF PathInv, ArgInv, SplitInv
<1>4. /\ str' \in Seq(Directory) /\ Len(str') = Len(str) - 1
      /\ \A j \in 1 .. Len(str') : str'[j] = str[j + 1]
  BY <1>2, <1>3
<1>5. Len(given') - Len(str') = Len(given) - Len(str) + 1
  BY <1>2, <1>3, <1>4
<1>6. PICK t : /\ Linked(heap', t, Len(given') - Len(str'), given', ScriptPath')
               /\ t[Len(given') - Len(str')] = prev'
  BY <1>1, <1>2, <1>5, PartAppended
<1>7. SplitInv'
  <2>1. Len(str') \in 1 .. Len(given')
    BY <1>2, <1>3, <1>4
  <2>2. \A j \in 1 .. Len(str') : str'[j] = given'[Len(given') - Len(str') + j]
    BY <1>2, <1>3, <1>4
  <2> QED
    BY <2>1, <2>2, <1>6 DEF SplitInv
<1>8. ArgInv' /\ FreeInv' /\ ListInv' /\ SearchInv' /\ CheckInv'
  BY <1>2, <1>3, <1>4 DEF ArgInv, FreeInv, ListInv, SearchInv, CheckInv
<1> QED
  BY <1>7, <1>8 DEF PathInv

LEMMA CopyTrailerKeeps == ASSUME PathInv, CopyTrailer PROVE PathInv'
<1>1. PICK e \in Elem \ DOMAIN heap :
        /\ heap' = Appended(e, Head(str))
        /\ ScriptPath' = IF ScriptPath = NoElem THEN e ELSE ScriptPath
  BY DEF CopyTrailer
<1>2. at = "split" /\ Len(str) = 1 /\ at' = "print" /\ UNCHANGED <<str, given>>
  BY DEF CopyTrailer
<1>3. given \in Seq(Directory) /\ str \in Seq(Directory)
  BY DEF PathInv, ArgInv
<1>4. Len(given) - Len(str) + 1 = Len(given')
  BY <1>2, <1>3
<1>5. \E t : Linked(heap', t, Len(given'), given', ScriptPath')
  BY <1>1, <1>2, <1>4, PartAppended
<1>6. ListInv'
  BY <1>5 DEF ListInv
<1>7. ArgInv' /\ FreeInv' /\ SplitInv' /\ SearchInv' /\ CheckInv'
  BY <1>2, <1>3 DEF ArgInv, FreeInv, SplitInv, SearchInv, CheckInv
<1> QED
  BY <1>6, <1>7 DEF PathInv

LEMMA PrintElemKeeps == ASSUME PathInv, PrintElem PROVE PathInv'
<1>1. at = "print" /\ UNCHANGED <<at, heap, ScriptPath, given, str>>
  BY DEF PrintElem
<1>2. SearchInv' /\ CheckInv'
  BY <1>1 DEF SearchInv, CheckInv
<1> QED
  BY <1>1, <1>2, ListUntouched

LEMMA PrintedKeeps == ASSUME PathInv, NEW ok, Printed(ok) PROVE PathInv'
<1>1. at = "print" /\ at' = "idle" /\ str' = <<>> /\ UNCHANGED <<heap, ScriptPath, given>>
  BY DEF Printed
<1>2. ArgInv'
  BY <1>1 DEF PathInv, ArgInv
<1>3. ListInv'
  BY <1>1 DEF PathInv, ListInv
<1>4. FreeInv' /\ SplitInv' /\ SearchInv' /\ CheckInv'
  BY <1>1 DEF FreeInv, SplitInv, SearchInv, CheckInv
<1> QED
  BY <1>2, <1>3, <1>4 DEF PathInv

-----------------------------------------------------------------------------
(* UtilFindScriptFile                                                      *)

LEMMA LookAsNamedKeeps ==
  ASSUME PathInv, at = "idle", NEW exists, LookAsNamed(exists)
  PROVE  PathInv'
<1>1. /\ at' \in {"check", "search"} /\ fullPath' = AsNamed
      /\ UNCHANGED <<heap, ScriptPath, given, str>>
      /\ at' = "search" => absent' = {AsNamed} /\ elem' = ScriptPath
  BY DEF LookAsNamed
<1>2. CheckInv'
  BY <1>1 DEF CheckInv
<1>3. SearchInv'
  <2> SUFFICES ASSUME at' = "search" PROVE SearchInv'
    BY DEF SearchInv
  <2>1. AsNamed \in absent'
    BY <1>1
  <2>2. ASSUME NEW s, Linked(heap, s, Len(given), given, ScriptPath)
        PROVE  \E k \in 0 .. Len(given) :
                 /\ elem' = IF k = Len(given) THEN NoElem ELSE s[k + 1]
                 /\ fullPath' = IF k = 0 THEN AsNamed ELSE given[k]
                 /\ \A j \in 1 .. k : given[j] \in absent'
    <3>1. Len(given) \in Nat /\ ScriptPath = IF Len(given) = 0 THEN NoElem ELSE s[1]
      BY <2>2 DEF Linked
    <3>2. 0 \in 0 .. Len(given) /\ elem' = IF 0 = Len(given) THEN NoElem ELSE s[0 + 1]
      BY <1>1, <3>1
    <3> QED
      BY <1>1, <3>2
  <2> QED
    BY <1>1, <2>1, <2>2 DEF SearchInv
<1> QED
  BY <1>1, <1>2, <1>3, ListUntouched

\* Where the search is.
LEMMA Searching ==
  ASSUME PathInv, at = "search", NEW s, Linked(heap, s, Len(given), given, ScriptPath)
  PROVE  \E k \in 0 .. Len(given) :
           /\ elem = NoElem <=> k = Len(given)
           /\ k # Len(given) => /\ heap[elem].Path = given[k + 1]
                                /\ heap[elem].Next = IF k + 1 = Len(given) THEN NoElem ELSE s[k + 2]
           /\ fullPath = IF k = 0 THEN AsNamed ELSE given[k]
           /\ \A j \in 1 .. k : given[j] \in absent
<1>1. PICK k \in 0 .. Len(given) :
        /\ elem = IF k = Len(given) THEN NoElem ELSE s[k + 1]
        /\ fullPath = IF k = 0 THEN AsNamed ELSE given[k]
        /\ \A j \in 1 .. k : given[j] \in absent
  BY DEF PathInv, SearchInv
<1>2. /\ Len(given) \in Nat /\ s \in [1 .. Len(given) -> Elem]
      /\ \A j \in 1 .. Len(given) :
           heap[s[j]] = [Path |-> given[j], Next |-> IF j = Len(given) THEN NoElem ELSE s[j + 1]]
  BY DEF Linked
<1>3. ASSUME k # Len(given)
      PROVE  /\ elem # NoElem
             /\ heap[elem].Path = given[k + 1]
             /\ heap[elem].Next = IF k + 1 = Len(given) THEN NoElem ELSE s[k + 2]
  <2>1. k + 1 \in 1 .. Len(given) /\ (k + 1) + 1 = k + 2
    BY <1>2, <1>3
  <2>2. elem = s[k + 1] /\ elem \in Elem
    BY <1>1, <1>2, <1>3, <2>1
  <2>3. heap[elem] = [Path |-> given[k + 1],
                      Next |-> IF k + 1 = Len(given) THEN NoElem ELSE s[k + 2]]
    BY <1>2, <2>1, <2>2
  <2> QED
    BY <2>2, <2>3, Elements
<1> QED
  BY <1>1, <1>3

LEMMA LookInPathKeeps == ASSUME PathInv, NEW exists \in BOOLEAN, LookInPath(exists) PROVE PathInv'
<1>1. /\ at = "search" /\ elem # NoElem /\ fullPath' = heap[elem].Path
      /\ UNCHANGED <<heap, ScriptPath, given, str>>
  BY DEF LookInPath
<1>2. AsNamed \in absent
  BY <1>1 DEF PathInv, SearchInv
<1>3. CASE exists
  <2>1. at' = "check" /\ absent' = absent
    BY <1>3 DEF LookInPath
  <2>2. PICK s : Linked(heap, s, Len(given), given, ScriptPath)
    BY <1>1 DEF PathInv, ListInv
  <2>3. PICK k \in 0 .. Len(given) : /\ k # Len(given)
                                     /\ heap[elem].Path = given[k + 1]
                                     /\ \A j \in 1 .. k : given[j] \in absent
    BY <1>1, <2>2, Searching
  <2>4. Len(given) \in Nat
    BY <2>2 DEF Linked
  <2>5. k + 1 \in 1 .. Len(given) /\ \A j \in 1 .. (k + 1) - 1 : given[j] \in absent
    BY <2>3, <2>4
  <2>6. CheckInv'
    BY <1>1, <1>2, <2>1, <2>3, <2>5 DEF CheckInv
  <2>7. SearchInv'
    BY <2>1 DEF SearchInv
  <2> QED
    BY <1>1, <2>1, <2>6, <2>7, ListUntouched
<1>4. CASE ~exists
  <2>1. at' = "search" /\ elem' = heap[elem].Next /\ absent' = absent \cup {heap[elem].Path}
    BY <1>1, <1>4 DEF LookInPath
  <2>2. ASSUME NEW s, Linked(heap, s, Len(given), given, ScriptPath)
        PROVE  \E k \in 0 .. Len(given) :
                 /\ elem' = IF k = Len(given) THEN NoElem ELSE s[k + 1]
                 /\ fullPath' = IF k = 0 THEN AsNamed ELSE given[k]
                 /\ \A j \in 1 .. k : given[j] \in absent'
    <3>1. PICK k \in 0 .. Len(given) :
            /\ k # Len(given)
            /\ heap[elem].Path = given[k + 1]
            /\ heap[elem].Next = IF k + 1 = Len(given) THEN NoElem ELSE s[k + 2]
            /\ \A j \in 1 .. k : given[j] \in absent
      BY <1>1, <2>2, Searching
    <3>2. Len(given) \in Nat
      BY <2>2 DEF Linked
    <3>3. k + 1 \in 0 .. Len(given) /\ k + 1 # 0 /\ (k + 1) + 1 = k + 2
      BY <3>1, <3>2
    <3>4. \A j \in 1 .. k + 1 : j \in 1 .. k \/ j = k + 1
      BY <3>2
    <3>5. \A j \in 1 .. k + 1 : given[j] \in absent'
      BY <3>1, <3>4, <2>1
    <3>6. elem' = IF k + 1 = Len(given) THEN NoElem ELSE s[(k + 1) + 1]
      BY <3>1, <3>3, <2>1
    <3> QED
      BY <3>1, <3>3, <3>5, <3>6, <1>1
  <2>3. SearchInv'
    BY <1>1, <1>2, <2>1, <2>2 DEF SearchInv
  <2>4. CheckInv'
    BY <2>1 DEF CheckInv
  <2> QED
    BY <1>1, <2>1, <2>3, <2>4, ListUntouched
<1> QED
  BY <1>3, <1>4

LEMMA PathSearchedKeeps == ASSUME PathInv, PathSearched PROVE PathInv'
<1>1. /\ at = "search" /\ elem = NoElem /\ at' = "check"
      /\ UNCHANGED <<heap, ScriptPath, given, str, fullPath, absent>>
  BY DEF PathSearched
<1>2. PICK s : Linked(heap, s, Len(given), given, ScriptPath)
  BY <1>1 DEF PathInv, ListInv
<1>3. /\ Len(given) \in Nat /\ AsNamed \in absent
      /\ fullPath = IF Len(given) = 0 THEN AsNamed ELSE given[Len(given)]
      /\ \A j \in 1 .. Len(given) : given[j] \in absent
  BY <1>1, <1>2, Searching DEF Linked, PathInv, SearchInv
<1>4. CheckInv'
  <2> SUFFICES ASSUME fullPath' # AsNamed
               PROVE  /\ AsNamed \in absent
                      /\ \E k \in 1 .. Len(given) :
                           /\ fullPath = given[k]
                           /\ \A j \in 1 .. k - 1 : given[j] \in absent
    BY <1>1 DEF CheckInv
  <2>1. Len(given) \in 1 .. Len(given) /\ fullPath = given[Len(given)]
    BY <1>1, <1>3
  <2>2. \A j \in 1 .. Len(given) - 1 : j \in 1 .. Len(given)
    BY <1>3
  <2> QED
    BY <1>3, <2>1, <2>2
<1>5. SearchInv'
  BY <1>1 DEF SearchInv
<1> QED
  BY <1>1, <1>4, <1>5, ListUntouched

LEMMA LookAgainKeeps == ASSUME PathInv, NEW exists, LookAgain(exists) PROVE PathInv'
<1>1. /\ at = "check" /\ at' \in {"found", "missing"}
      /\ UNCHANGED <<heap, ScriptPath, given, str, fullPath, absent>>
  BY DEF LookAgain
<1>2. CheckInv'
  BY <1>1 DEF PathInv, CheckInv
<1>3. SearchInv'
  BY <1>1 DEF SearchInv
<1> QED
  BY <1>1, <1>2, <1>3, ListUntouched

LEMMA SearchEndKeeps ==
  ASSUME PathInv, at \in {"found", "missing"}, at' = "idle",
         UNCHANGED <<heap, ScriptPath, given, str>>
  PROVE  PathInv'
<1>1. SearchInv' /\ CheckInv'
  BY DEF SearchInv, CheckInv
<1> QED
  BY <1>1, ListUntouched

LEMMA PathUntouched == ASSUME PathInv, UNCHANGED path PROVE PathInv'
<1>1. UNCHANGED <<at, str, elem, prev, ScriptPath, heap, fullPath, given, absent>>
  BY DEF path
<1>2. ArgInv' /\ FreeInv' /\ SplitInv' /\ ListInv'
  BY <1>1 DEF PathInv, ArgInv, FreeInv, SplitInv, ListInv
<1>3. SearchInv' /\ CheckInv'
  BY <1>1 DEF PathInv, SearchInv, CheckInv
<1> QED
  BY <1>2, <1>3 DEF PathInv

-----------------------------------------------------------------------------
(* What the invariant says                                                 *)

LEMMA ListIsArgument == PathInv => PathIsArgument
<1> SUFFICES ASSUME PathInv, at \notin {"free", "split"}
             PROVE  \E s \in [1 .. Len(given) -> DOMAIN heap] :
                      /\ IsList(s)
                      /\ \A j \in 1 .. Len(given) : heap[s[j]].Path = given[j]
                      /\ DOMAIN heap = {s[j] : j \in 1 .. Len(given)}
  BY DEF PathIsArgument
<1> DEFINE n == Len(given)
<1>1. PICK s : Linked(heap, s, n, given, ScriptPath)
  BY DEF PathInv, ListInv
<1>2. /\ n \in Nat /\ s \in [1 .. n -> Elem] /\ DOMAIN heap = {s[j] : j \in 1 .. n}
      /\ \A j \in 1 .. n :
           heap[s[j]] = [Path |-> given[j], Next |-> IF j = n THEN NoElem ELSE s[j + 1]]
      /\ ScriptPath = IF n = 0 THEN NoElem ELSE s[1]
  BY <1>1 DEF Linked
<1>3. s \in [1 .. n -> DOMAIN heap] /\ Len(s) = n /\ (s = <<>> <=> n = 0)
  <2>1. s \in Seq(Elem) /\ Len(s) = n
    BY <1>2
  <2>2. s = <<>> <=> n = 0
    BY <2>1
  <2>3. s \in [1 .. n -> DOMAIN heap]
    BY <1>2
  <2> QED
    BY <2>1, <2>2, <2>3
<1>4. \A j \in 1 .. n : /\ heap[s[j]].Path = given[j]
                        /\ heap[s[j]].Next = IF j = n THEN NoElem ELSE s[j + 1]
  <2> SUFFICES ASSUME NEW j \in 1 .. n
               PROVE  /\ heap[s[j]].Path = given[j]
                      /\ heap[s[j]].Next = IF j = n THEN NoElem ELSE s[j + 1]
    OBVIOUS
  <2>1. heap[s[j]] = [Path |-> given[j], Next |-> IF j = n THEN NoElem ELSE s[j + 1]]
    BY <1>2
  <2> QED
    BY <2>1
<1>5. IsList(s)
  BY <1>2, <1>3, <1>4 DEF IsList
<1> QED
  BY <1>2, <1>3, <1>4, <1>5

LEMMA FirstIsFound == PathInv => FoundFirst
BY DEF PathInv, CheckInv, FoundFirst

-----------------------------------------------------------------------------
(* Types                                                                   *)

\* The list is printed by following its elements.
PrintInv == at = "print" => elem \in DOMAIN heap \cup {NoElem}

PathTyped == PathTypeOK /\ PrintInv

\* The first of a chain is allocated, and so is whatever an element of it points to.
LEMMA ChainListed ==
  ASSUME NEW h, NEW s, NEW n, NEW dirs, NEW first, Linked(h, s, n, dirs, first)
  PROVE  /\ first \in DOMAIN h \cup {NoElem}
         /\ \A e \in DOMAIN h : h[e].Next \in DOMAIN h \cup {NoElem}
<1>1. /\ n \in Nat /\ DOMAIN h = {s[j] : j \in 1 .. n}
      /\ first = IF n = 0 THEN NoElem ELSE s[1]
      /\ \A j \in 1 .. n :
           h[s[j]] = [Path |-> dirs[j], Next |-> IF j = n THEN NoElem ELSE s[j + 1]]
  BY DEF Linked
<1>2. first \in DOMAIN h \cup {NoElem}
  BY <1>1
<1>3. ASSUME NEW e \in DOMAIN h PROVE h[e].Next \in DOMAIN h \cup {NoElem}
  <2>1. PICK j \in 1 .. n : e = s[j]
    BY <1>1
  <2>2. h[e].Next = IF j = n THEN NoElem ELSE s[j + 1]
    <3>1. h[e] = [Path |-> dirs[j], Next |-> IF j = n THEN NoElem ELSE s[j + 1]]
      BY <1>1, <2>1
    <3> QED
      BY <3>1
  <2>3. j # n => j + 1 \in 1 .. n
    BY <1>1
  <2> QED
    BY <1>1, <2>2, <2>3
<1> QED
  BY <1>2, <1>3

\* Outside the rebuilding the head, and what follows an element, is of the list.
LEMMA NextListed ==
  ASSUME PathInv, at \notin {"free", "split"}
  PROVE  /\ ScriptPath \in DOMAIN heap \cup {NoElem}
         /\ \A e \in DOMAIN heap : heap[e].Next \in DOMAIN heap \cup {NoElem}
<1>1. PICK s : Linked(heap, s, Len(given), given, ScriptPath)
  BY DEF PathInv, ListInv
<1> QED
  BY <1>1, ChainListed

\* No cursor is followed that is not allocated.
LEMMA CursorListed ==
  ASSUME PathInv, PrintInv, at \in {"free", "print", "search"}
  PROVE  elem \in DOMAIN heap \cup {NoElem}
<1>1. CASE at = "free"
  <2>1. PICK n, s, dirs : Linked(heap, s, n, dirs, elem)
    BY <1>1 DEF PathInv, FreeInv
  <2> QED
    BY <2>1, ChainListed
<1>2. CASE at = "print"
  BY <1>2 DEF PrintInv
<1>3. CASE at = "search"
  <2>1. PICK s : Linked(heap, s, Len(given), given, ScriptPath)
    BY <1>3 DEF PathInv, ListInv
  <2>2. PICK k \in 0 .. Len(given) : elem = IF k = Len(given) THEN NoElem ELSE s[k + 1]
    BY <1>3, <2>1 DEF PathInv, SearchInv
  <2>3. Len(given) \in Nat /\ DOMAIN heap = {s[j] : j \in 1 .. Len(given)}
    BY <2>1 DEF Linked
  <2>4. k # Len(given) => k + 1 \in 1 .. Len(given)
    BY <2>3
  <2> QED
    BY <2>2, <2>3, <2>4
<1> QED
  BY <1>1, <1>2, <1>3

\* What the heap holds, and where the cursors may point.
HeapTyped ==
  /\ DOMAIN heap \subseteq Elem
  /\ \A e \in DOMAIN heap : heap[e] \in [Path : Directory, Next : Elem \cup {NoElem}]
CursorsTyped ==
  /\ elem \in Elem \cup {NoElem}
  /\ prev \in Elem \cup {NoElem}
  /\ ScriptPath \in Elem \cup {NoElem}
TextsTyped ==
  /\ str \in Seq(Directory)
  /\ fullPath \in Place
  /\ given \in Seq(Directory)
  /\ absent \subseteq Place
At == {"idle", "free", "split", "print", "search", "check", "found", "missing"}

LEMMA PathTypes == PathTypeOK <=> at \in At /\ HeapTyped /\ CursorsTyped /\ TextsTyped
BY DEF PathTypeOK, At, HeapTyped, CursorsTyped, TextsTyped

LEMMA TypedAfter ==
  ASSUME at' \in At, HeapTyped', CursorsTyped', TextsTyped', at' = "print" => PrintInv'
  PROVE  PathTyped'
BY DEF PathTyped, PathTypeOK, PrintInv, At, HeapTyped, CursorsTyped, TextsTyped

LEMMA ElementTypes ==
  ASSUME HeapTyped, NEW e \in DOMAIN heap
  PROVE  e \in Elem /\ heap[e].Next \in Elem \cup {NoElem} /\ heap[e].Path \in Place
BY DEF HeapTyped, Place

\* The heap with an element more.
LEMMA AppendedTyped ==
  ASSUME HeapTyped, NEW e \in Elem, NEW directory \in Directory,
         heap' = Appended(e, directory)
  PROVE  HeapTyped'
<1>1. DOMAIN heap' = DOMAIN heap \cup {e}
  BY DEF Appended
<1>2. ASSUME NEW x \in DOMAIN heap'
      PROVE  heap'[x] \in [Path : Directory, Next : Elem \cup {NoElem}]
  <2>1. CASE x = e
    BY <1>1, <2>1 DEF Appended, Element
  <2>2. CASE x # e
    BY <1>1, <1>2, <2>2 DEF Appended, HeapTyped
  <2> QED
    BY <2>1, <2>2
<1> QED
  BY <1>1, <1>2 DEF HeapTyped

LEMMA PathInitTyped == PathInit => PathTyped
<1> SUFFICES ASSUME PathInit PROVE PathTyped
  OBVIOUS
<1>1. at = "idle" /\ HeapTyped
  BY DEF PathInit, HeapTyped
<1>2. CursorsTyped
  BY DEF PathInit, CursorsTyped
<1>3. TextsTyped
  BY DEF PathInit, TextsTyped, Place
<1> QED
  BY <1>1, <1>2, <1>3, PathTypes DEF PathTyped, PrintInv, At

LEMMA PathUntouchedTyped == ASSUME PathTyped, UNCHANGED path PROVE PathTyped'
BY DEF PathTyped, PathTypeOK, PrintInv, path

LEMMA PrintPathTyped == ASSUME PathInv, PathTyped, at = "idle", PrintPath PROVE PathTyped'
<1>1. at' = "print" /\ elem' = ScriptPath
      /\ UNCHANGED <<str, prev, ScriptPath, heap, fullPath, given, absent>>
  BY DEF PrintPath
<1>2. PrintInv'
  BY <1>1, NextListed DEF PrintInv
<1>3. at' \in At /\ HeapTyped' /\ CursorsTyped' /\ TextsTyped'
  BY <1>1, PathTypes DEF PathTyped, At, HeapTyped, CursorsTyped, TextsTyped
<1> QED
  BY <1>2, <1>3, TypedAfter

LEMMA SetPathTyped ==
  ASSUME PathTyped, NEW arg \in PathArgument, SetPath(arg) PROVE PathTyped'
<1>1. /\ at' = "free" /\ str' = arg /\ given' = arg /\ elem' = ScriptPath /\ prev' = NoElem
      /\ UNCHANGED <<ScriptPath, heap, fullPath, absent>>
  BY DEF SetPath
<1>2. arg \in Seq(Directory)
  <2>1. PathArgument \subseteq Seq(Directory) \ {<<>>}
    BY ScriptPathAssumption, Zenon DEF ScriptPathAssumption
  <2> QED
    BY <2>1
<1>3. at' \in At /\ HeapTyped' /\ CursorsTyped' /\ TextsTyped'
  BY <1>1, <1>2, PathTypes DEF PathTyped, At, HeapTyped, CursorsTyped, TextsTyped
<1> QED
  BY <1>1, <1>3, TypedAfter

LEMMA FreeElemTyped == ASSUME PathInv, PathTyped, FreeElem PROVE PathTyped'
<1>1. /\ at = "free" /\ elem # NoElem /\ elem' = heap[elem].Next
      /\ heap' = [e \in DOMAIN heap \ {elem} |-> heap[e]]
      /\ UNCHANGED <<at, str, prev, ScriptPath, fullPath, given, absent>>
  BY DEF FreeElem
<1>2. at \in At /\ HeapTyped /\ CursorsTyped /\ TextsTyped
  BY PathTypes DEF PathTyped
<1>3. elem \in DOMAIN heap
  BY <1>1, CursorListed DEF PathTyped
<1>4. at' \in At /\ HeapTyped' /\ CursorsTyped' /\ TextsTyped'
  BY <1>1, <1>2, <1>3, ElementTypes DEF HeapTyped, CursorsTyped, TextsTyped
<1> QED
  BY <1>1, <1>4, TypedAfter

LEMMA FreedTyped == ASSUME PathTyped, Freed PROVE PathTyped'
<1>1. /\ at' = "split" /\ ScriptPath' = NoElem
      /\ UNCHANGED <<str, elem, prev, heap, fullPath, given, absent>>
  BY DEF Freed
<1>2. at' \in At /\ HeapTyped' /\ CursorsTyped' /\ TextsTyped'
  BY <1>1, PathTypes DEF PathTyped, At, HeapTyped, CursorsTyped, TextsTyped
<1> QED
  BY <1>1, <1>2, TypedAfter

LEMMA SplitAtCommaTyped == ASSUME PathTyped, SplitAtComma PROVE PathTyped'
<1>1. PICK e \in Elem \ DOMAIN heap :
        /\ heap' = Appended(e, Head(str))
        /\ ScriptPath' = IF ScriptPath = NoElem THEN e ELSE ScriptPath
        /\ elem' = e /\ prev' = e
  BY DEF SplitAtComma
<1>2. /\ at = "split" /\ Len(str) > 1 /\ str' = Tail(str)
      /\ UNCHANGED <<at, fullPath, given, absent>>
  BY DEF SplitAtComma
<1>3. at \in At /\ HeapTyped /\ CursorsTyped /\ TextsTyped
  BY PathTypes DEF PathTyped
<1>4. Head(str) \in Directory /\ str' \in Seq(Directory)
  BY <1>2, <1>3 DEF TextsTyped
<1>5. HeapTyped'
  BY <1>1, <1>3, <1>4, AppendedTyped
<1>6. CursorsTyped' /\ TextsTyped'
  BY <1>1, <1>2, <1>3, <1>4 DEF CursorsTyped, TextsTyped
<1> QED
  BY <1>2, <1>3, <1>5, <1>6, TypedAfter

LEMMA CopyTrailerTyped == ASSUME PathInv, PathTyped, CopyTrailer PROVE PathTyped'
<1>1. PICK e \in Elem \ DOMAIN heap :
        /\ heap' = Appended(e, Head(str))
        /\ ScriptPath' = IF ScriptPath = NoElem THEN e ELSE ScriptPath
        /\ elem' = IF ScriptPath = NoElem THEN e ELSE ScriptPath
  BY DEF CopyTrailer
<1>2. at = "split" /\ Len(str) = 1 /\ at' = "print" /\ UNCHANGED <<str, prev, fullPath, given, absent>>
  BY DEF CopyTrailer
<1>3. at \in At /\ HeapTyped /\ CursorsTyped /\ TextsTyped
  BY PathTypes DEF PathTyped
<1>4. Head(str) \in Directory
  <2>1. str \in Seq(Directory) /\ str # <<>>
    BY <1>2, <1>3 DEF TextsTyped
  <2> QED
    BY <2>1
<1>5. HeapTyped'
  BY <1>1, <1>3, <1>4, AppendedTyped
<1>6. at' \in At /\ CursorsTyped' /\ TextsTyped'
  BY <1>1, <1>2, <1>3 DEF CursorsTyped, TextsTyped, At
<1>7. PrintInv'
  <2>1. PathInv'
    BY CopyTrailerKeeps
  <2>2. ScriptPath' \in DOMAIN heap' \cup {NoElem}
    <3>1. PICK s : Linked(heap', s, Len(given'), given', ScriptPath')
      BY <1>2, <2>1 DEF PathInv, ListInv
    <3> QED
      BY <3>1, ChainListed
  <2> QED
    BY <1>1, <2>2 DEF PrintInv
<1> QED
  BY <1>5, <1>6, <1>7, TypedAfter

LEMMA PrintElemTyped == ASSUME PathInv, PathTyped, PrintElem PROVE PathTyped'
<1>1. /\ at = "print" /\ elem # NoElem /\ elem' = heap[elem].Next
      /\ UNCHANGED <<at, str, prev, ScriptPath, heap, fullPath, given, absent>>
  BY DEF PrintElem
<1>2. at \in At /\ HeapTyped /\ CursorsTyped /\ TextsTyped
  BY PathTypes DEF PathTyped
<1>3. elem \in DOMAIN heap
  BY <1>1 DEF PathTyped, PrintInv
<1>4. PrintInv'
  BY <1>1, <1>3, NextListed DEF PrintInv
<1>5. at' \in At /\ HeapTyped' /\ CursorsTyped' /\ TextsTyped'
  BY <1>1, <1>2, <1>3, ElementTypes DEF HeapTyped, CursorsTyped, TextsTyped
<1> QED
  BY <1>4, <1>5, TypedAfter

LEMMA PrintedTyped == ASSUME PathTyped, NEW ok, Printed(ok) PROVE PathTyped'
<1>1. /\ at' = "idle" /\ str' = <<>> /\ elem' = NoElem /\ prev' = NoElem
      /\ UNCHANGED <<ScriptPath, heap, fullPath, given, absent>>
  BY DEF Printed
<1>2. at' \in At /\ HeapTyped' /\ CursorsTyped'
  BY <1>1, PathTypes DEF PathTyped, At, HeapTyped, CursorsTyped
<1>3. TextsTyped'
  BY <1>1, PathTypes DEF PathTyped, TextsTyped
<1> QED
  BY <1>1, <1>2, <1>3, TypedAfter

LEMMA LookAsNamedTyped == ASSUME PathTyped, NEW exists, LookAsNamed(exists) PROVE PathTyped'
<1>1. /\ at' \in {"check", "search"} /\ fullPath' = AsNamed /\ absent' \subseteq {AsNamed}
      /\ elem' \in {elem, ScriptPath}
      /\ UNCHANGED <<str, prev, ScriptPath, heap, given>>
  BY DEF LookAsNamed
<1>2. at' \in At /\ HeapTyped' /\ CursorsTyped' /\ TextsTyped'
  BY <1>1, PathTypes DEF PathTyped, At, HeapTyped, CursorsTyped, TextsTyped, Place
<1> QED
  BY <1>1, <1>2, TypedAfter

LEMMA SearchTyped ==
  ASSUME PathInv, PathTyped, NEW named \in BOOLEAN, UtilFindScriptFile(named)
  PROVE  PathTyped'
<1>1. at \in At /\ HeapTyped /\ CursorsTyped /\ TextsTyped
  BY PathTypes DEF PathTyped
<1>2. CASE \E exists \in BOOLEAN : LookInPath(exists)
  <2>1. /\ at = "search" /\ elem # NoElem /\ fullPath' = heap[elem].Path
        /\ at' \in {"check", "search"} /\ elem' \in {elem, heap[elem].Next}
        /\ absent' \subseteq absent \cup {heap[elem].Path}
        /\ UNCHANGED <<str, prev, ScriptPath, heap, given>>
    BY <1>2 DEF LookInPath
  <2>2. elem \in DOMAIN heap
    BY <2>1, CursorListed DEF PathTyped
  <2>3. HeapTyped' /\ CursorsTyped'
    BY <1>1, <2>1, <2>2, ElementTypes DEF HeapTyped, CursorsTyped
  <2>4. at' \in At /\ TextsTyped'
    BY <1>1, <2>1, <2>2, ElementTypes DEF TextsTyped, At
  <2> QED
    BY <2>1, <2>3, <2>4, TypedAfter
<1>3. CASE PathSearched \/ \E exists \in BOOLEAN : LookAgain(exists)
  <2>1. /\ at' \in {"check", "found", "missing"}
        /\ UNCHANGED <<str, elem, prev, ScriptPath, heap, fullPath, given, absent>>
    BY <1>3 DEF PathSearched, LookAgain
  <2>2. at' \in At /\ HeapTyped' /\ CursorsTyped' /\ TextsTyped'
    BY <1>1, <2>1 DEF HeapTyped, CursorsTyped, TextsTyped, At
  <2> QED
    BY <2>1, <2>2, TypedAfter
<1> QED
  BY <1>2, <1>3 DEF UtilFindScriptFile, UtilFileExists

\* The places of the script are left, at the end of a search.
LEMMA SearchEndTyped ==
  ASSUME PathTyped, at' = "idle", absent' = {}, fullPath' = AsNamed, elem' = NoElem,
         UNCHANGED <<str, prev, ScriptPath, heap, given>>
  PROVE  PathTyped'
<1>1. at' \in At /\ HeapTyped' /\ CursorsTyped' /\ TextsTyped'
  BY PathTypes DEF PathTyped, At, HeapTyped, CursorsTyped, TextsTyped, Place
<1> QED
  BY <1>1, TypedAfter
=============================================================================
