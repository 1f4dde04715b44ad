------------------------- MODULE ModuleBodiesProofs -------------------------
(***************************************************************************)
(* Proof that no module body is entered again after it ended or threw, for *)
(* every value of the constants: however many modules await, import what   *)
(* awaits, or throw, and in whatever order the microtasks come.            *)
(*                                                                         *)
(* Roots says that no load is of a static import; Lists, that a module is  *)
(* to be entered at one place at most; Fresh, that none of those was       *)
(* entered before; Tells, that a module goes on only when the end of all   *)
(* that it imports was told.                                               *)
(***************************************************************************)
EXTENDS ModuleLoaderProofs

-----------------------------------------------------------------------------
\* The modules whose body ended, threw, or is to be gone on with by a microtask.
Past == ran \cup threw \cup Range(jobs)

\* The instances that the evaluation of load i has still to enter.
Listed(i) == IF loads[i].phase = "link" THEN {} ELSE Range(loads[i].todo)

\* A static import of a module that has begun.
Import(n) == n # << >> /\ Importer(n) \in begun /\ n[Len(n)] \in DOMAIN Imports(Importer(n))

\* Every load is of another instance, and none of a static import; what begun
\* modules import begins after them.
Roots ==
  /\ \A i, j \in DOMAIN loads : loads[i].root = loads[j].root => i = j
  /\ \A i \in DOMAIN loads : \A m \in DOMAIN inst : \A k \in DOMAIN Imports(m) :
       loads[i].root # Append(m, k)
  /\ \A m \in DOMAIN inst : \A k \in DOMAIN Imports(m) : Append(m, k) \in begun => m \in begun

\* Microtasks run when only the program's load is left, and enter one module each.
Drains ==
  \A i \in DOMAIN loads : loads[i].phase = "drain" =>
    i = 1 /\ (loads[i].todo = << >> \/ \E m \in begun : loads[i].todo = <<m>>)

\* No module is to be entered twice, and none but roots and imports.
Lists ==
  /\ \A i \in DOMAIN loads : loads[i].phase # "link" => IsInjective(loads[i].todo)
  /\ \A i, j \in DOMAIN loads : i # j => Listed(i) \cap Listed(j) = {}
  /\ \A i \in DOMAIN loads : \A n \in Listed(i) : n \in begun \/ n = loads[i].root \/ Import(n)

\* No module that is to be entered has ended, thrown or been suspended, and there is
\* one microtask at most for each module.
Fresh ==
  /\ \A i \in DOMAIN loads : Listed(i) \cap Past = {}
  /\ IsInjective(jobs) /\ Range(jobs) \cap threw = {}

\* The end of all that a module imports is told before its body is entered; the
\* modules that are entered before there are microtasks have not awaited.
Tells ==
  /\ \A m \in Past : \A k \in DOMAIN Imports(m) : Told(Append(m, k))
  /\ \A i \in DOMAIN loads : \A m \in Listed(i) \cap begun :
       /\ \A k \in DOMAIN Imports(m) : Append(m, k) \in ran => Told(Append(m, k))
       /\ loads[i].phase = "evaluate" => \A j \in 1..at[m] : Body(m)[j] # Await

\* What every step keeps, given LInv.
BInv == Roots /\ Drains /\ Lists /\ Fresh /\ Tells

-----------------------------------------------------------------------------
(* Lists without repetition.                                               *)

\* Lists of none and of one have no repetition; nor has what is left of one that has
\* none, in which its head is no more.
LEMMA ShorterList ==
  ASSUME NEW S, NEW s \in Seq(S), IsInjective(s)
  PROVE  /\ IsInjective(<< >>) /\ \A x : IsInjective(<<x>>)
         /\ s # << >> => IsInjective(Tail(s)) /\ Head(s) \notin Range(Tail(s))
<1>1. IsInjective(<< >>) /\ \A x : IsInjective(<<x>>)
  BY DEF IsInjective
<1>2. ASSUME s # << >>
      PROVE  IsInjective(Tail(s)) /\ Head(s) \notin Range(Tail(s))
  <2>1. PICK n \in Nat \ {0} : n = Len(s) /\ DOMAIN s = 1..n
    BY <1>2, LenProperties, EmptySeq
  <2>2. /\ Head(s) = s[1] /\ DOMAIN Tail(s) = 1..(n - 1)
        /\ \A i \in 1..(n - 1) : Tail(s)[i] = s[i + 1]
    <3>1. /\ Tail(s) \in Seq(S) /\ Head(s) = s[1] /\ Len(Tail(s)) = n - 1
          /\ \A i \in 1..Len(Tail(s)) : Tail(s)[i] = s[i + 1]
      BY <1>2, <2>1, HeadTailProperties
    <3> QED
      BY <3>1, LenProperties
  <2>3. ASSUME NEW i \in 1..(n - 1), NEW j \in 1..(n - 1), Tail(s)[i] = Tail(s)[j]
        PROVE  i = j
    <3>1. i + 1 \in 1..n /\ j + 1 \in 1..n /\ s[i + 1] = s[j + 1]
      BY <2>1, <2>2, <2>3
    <3>2. i + 1 = j + 1
      BY <2>1, <3>1 DEF IsInjective
    <3> QED
      BY <2>3, <3>2
  <2>4. ASSUME NEW i \in 1..(n - 1)
        PROVE  Tail(s)[i] # Head(s)
    <3>1. i + 1 \in 1..n /\ 1 \in 1..n /\ i + 1 # 1
      BY <2>1, <2>4
    <3>2. s[i + 1] # s[1]
      BY <2>1, <3>1 DEF IsInjective
    <3> QED
      BY <2>2, <2>4, <3>2
  <2> QED
    BY <2>2, <2>3, <2>4 DEF IsInjective, Range
<1> QED
  BY <1>1, <1>2

\* Two lists with nothing in common, one behind the other.
LEMMA JoinedOnce ==
  ASSUME NEW S, NEW s \in Seq(S), NEW t \in Seq(S), IsInjective(s), IsInjective(t),
         Range(s) \cap Range(t) = {}
  PROVE  IsInjective(s \o t)
<1>1. PICK a \in Nat, b \in Nat :
        a = Len(s) /\ b = Len(t) /\ DOMAIN s = 1..a /\ DOMAIN t = 1..b
  BY LenProperties
<1>2. /\ DOMAIN (s \o t) = 1..(a + b)
      /\ \A i \in 1..(a + b) : (s \o t)[i] = IF i <= a THEN s[i] ELSE t[i - a]
  BY <1>1, ConcatProperties, LenProperties
<1>3. ASSUME NEW i \in 1..(a + b), NEW j \in 1..(a + b), (s \o t)[i] = (s \o t)[j]
      PROVE  i = j
  <2>1. /\ i <= a => i \in 1..a /\ (s \o t)[i] = s[i]
        /\ ~(i <= a) => i - a \in 1..b /\ (s \o t)[i] = t[i - a]
        /\ j <= a => j \in 1..a /\ (s \o t)[j] = s[j]
        /\ ~(j <= a) => j - a \in 1..b /\ (s \o t)[j] = t[j - a]
    BY <1>2, <1>3, SMTT(30)
  <2>2. CASE i <= a /\ j <= a
    BY <1>1, <1>3, <2>1, <2>2 DEF IsInjective
  <2>3. CASE ~(i <= a) /\ ~(j <= a)
    <3>1. i - a = j - a
      BY <1>1, <1>3, <2>1, <2>3 DEF IsInjective
    <3> QED
      BY <1>3, <3>1
  <2>4. CASE i <= a /\ ~(j <= a)
    <3>1. s[i] \in Range(s) /\ t[j - a] \in Range(t)
      BY <1>1, <2>1, <2>4 DEF Range
    <3> QED
      BY <1>3, <2>1, <2>4, <3>1
  <2>5. CASE ~(i <= a) /\ j <= a
    <3>1. t[i - a] \in Range(t) /\ s[j] \in Range(s)
      BY <1>1, <2>1, <2>5 DEF Range
    <3> QED
      BY <1>3, <2>1, <2>5, <3>1
  <2> QED
    BY <2>2, <2>3, <2>4, <2>5
<1> QED
  BY <1>2, <1>3 DEF IsInjective

\* One more at the end of a list.
LEMMA OneMore ==
  ASSUME NEW S, NEW s \in Seq(S), NEW x \in S
  PROVE  /\ Append(s, x) \in Seq(S) /\ Range(Append(s, x)) = Range(s) \cup {x}
         /\ IsInjective(s) /\ x \notin Range(s) => IsInjective(Append(s, x))
<1>1. PICK t \in Seq(S) : t = <<x>> /\ Range(t) = {x} /\ IsInjective(t)
  <2>1. <<x>> \in Seq(S) /\ Range(<<x>>) = {x} /\ IsInjective(<<x>>)
    BY OneElement DEF IsInjective
  <2> QED
    BY <2>1
<1>2. Append(s, x) = s \o t
  BY <1>1, AppendIsConcat
<1>3. s \o t \in Seq(S) /\ Range(s \o t) = Range(s) \cup Range(t)
  BY Joined
<1>4. IsInjective(s) /\ x \notin Range(s) => IsInjective(s \o t)
  BY <1>1, JoinedOnce
<1> QED
  BY <1>1, <1>2, <1>3, <1>4

-----------------------------------------------------------------------------
(* What the steps do to the loads.                                         *)

\* The load in progress is the last.
LEMMA LastLoad ==
  ASSUME TypeOK, Stack, loads # << >>
  PROVE  \E n \in Nat \ {0} : /\ n = Len(loads) /\ DOMAIN loads = 1..n /\ n \in DOMAIN loads
                              /\ Top = loads[n] /\ loads[n] \in Graph
<1>1. /\ Len(loads) \in Nat \ {0} /\ Len(loads) \in DOMAIN loads
      /\ DOMAIN loads = 1..Len(loads) /\ Top \in Graph
  BY TopOfStack
<1> QED
  BY <1>1 DEF Top

\* Only the load in progress changes.
LEMMA LoadsSet ==
  ASSUME TypeOK, Stack, loads # << >>, NEW n \in Nat, n = Len(loads), NEW l, SetTop(l)
  PROVE  /\ DOMAIN loads' = DOMAIN loads /\ loads'[n] = l
         /\ \A i \in DOMAIN loads : i # n => loads'[i] = loads[i]
<1>1. n \in DOMAIN loads /\ loads' = [loads EXCEPT ![n] = l]
  BY LastLoad DEF SetTop
<1> QED
  BY <1>1

\* The load in progress has another list.
LEMMA TodosSet ==
  ASSUME TypeOK, Stack, loads # << >>, NEW n \in Nat, n = Len(loads), NEW ts \in Seq(Id),
         SetTodo(ts)
  PROVE  /\ DOMAIN loads' = DOMAIN loads /\ loads'[n].todo = ts
         /\ loads'[n].root = loads[n].root /\ loads'[n].phase = loads[n].phase
         /\ \A i \in DOMAIN loads : i # n => loads'[i] = loads[i]
<1>1. PICK g \in Graph : g = Top /\ g = loads[n]
  BY LastLoad
<1>2. PICK l \in Graph : /\ l = [g EXCEPT !.todo = ts]
                         /\ l.root = g.root /\ l.phase = g.phase /\ l.todo = ts
  <2>1. [g EXCEPT !.todo = ts] \in Graph
    BY DEF Graph
  <2>2. PICK l \in Graph : l = [g EXCEPT !.todo = ts]
    BY <2>1
  <2>3. l.root = g.root /\ l.phase = g.phase /\ l.todo = ts
    BY <2>2 DEF Graph
  <2> QED
    BY <2>2, <2>3
<1>3. SetTop(l)
  BY <1>1, <1>2 DEF SetTodo
<1> QED
  BY <1>1, <1>2, <1>3, LoadsSet

\* The load in progress has another list, and is in another phase.
LEMMA PhaseSet ==
  ASSUME TypeOK, Stack, loads # << >>, NEW n \in Nat, n = Len(loads), NEW ts \in Seq(Id),
         NEW ph \in {"evaluate", "drain"}, SetTop([Top EXCEPT !.phase = ph, !.todo = ts])
  PROVE  /\ DOMAIN loads' = DOMAIN loads /\ loads'[n].todo = ts
         /\ loads'[n].root = loads[n].root /\ loads'[n].phase = ph
         /\ \A i \in DOMAIN loads : i # n => loads'[i] = loads[i]
<1>1. PICK g \in Graph : g = Top /\ g = loads[n]
  BY LastLoad
<1>2. PICK l \in Graph : /\ l = [g EXCEPT !.phase = ph, !.todo = ts]
                         /\ l.root = g.root /\ l.phase = ph /\ l.todo = ts
  <2>1. [g EXCEPT !.phase = ph, !.todo = ts] \in Graph
    BY DEF Graph
  <2>2. PICK l \in Graph : l = [g EXCEPT !.phase = ph, !.todo = ts]
    BY <2>1
  <2>3. l.root = g.root /\ l.phase = ph /\ l.todo = ts
    BY <2>2 DEF Graph
  <2> QED
    BY <2>2, <2>3
<1>3. SetTop(l)
  BY <1>1, <1>2
<1> QED
  BY <1>1, <1>2, <1>3, LoadsSet

\* Instances stay what they are.
Kept == \A m \in DOMAIN inst : m \in DOMAIN inst' /\ inst'[m] = inst[m]

\* And so does the code of each of them.
LEMMA KeptCode ==
  ASSUME Kept, NEW m \in DOMAIN inst
  PROVE  m \in DOMAIN inst' /\ Imports(m)' = Imports(m) /\ Body(m)' = Body(m)
BY DEF Kept, Imports, Body

\* The end of a body is told once no microtask is left to tell it.
LEMMA ToldMeans ==
  /\ \A m : Told(m) <=> m \in ran /\ m \notin Range(jobs)
  /\ \A m : Told(m)' <=> m \in ran' /\ m \notin Range(jobs')
<1>1. \A m : (\A j \in DOMAIN jobs : jobs[j] # m) <=> m \notin Range(jobs)
  BY DEF Range
<1>2. \A m : (\A j \in DOMAIN jobs' : jobs'[j] # m) <=> m \notin Range(jobs')
  BY DEF Range
<1> QED
  BY <1>1, <1>2 DEF Told

\* What loads and microtasks refer to.
LEMMA Referred ==
  ASSUME LInv
  PROVE  /\ begun \subseteq DOMAIN inst /\ DOMAIN inst \subseteq Id /\ at \in [begun -> Nat]
         /\ jobs \in Seq(begun) /\ Range(jobs) \subseteq begun /\ Past \subseteq begun
         /\ \A i \in DOMAIN loads :
              /\ loads[i] \in Graph /\ loads[i].todo \in Seq(Id)
              /\ loads[i].root \in DOMAIN inst /\ Listed(i) \subseteq DOMAIN inst
<1>1. TypeOK /\ Stack /\ loads \in Seq(Graph)
  BY DEF LInv, TypeOK, Graph
<1>2. jobs \in Seq(begun) /\ Range(jobs) \subseteq begun
  BY <1>1, Elements DEF TypeOK
<1>3. ASSUME NEW i \in DOMAIN loads
      PROVE  /\ loads[i] \in Graph /\ loads[i].todo \in Seq(Id)
             /\ loads[i].root \in DOMAIN inst /\ Listed(i) \subseteq DOMAIN inst
  <2>1. loads[i] \in Graph
    BY <1>1, LenProperties, ElementOfSeq
  <2>2. loads[i].todo \in Seq(Id)
    BY <2>1 DEF Graph
  <2>3. loads[i].root \in DOMAIN inst /\ Range(loads[i].todo) \subseteq DOMAIN inst
    BY <1>1 DEF Stack
  <2> QED
    BY <2>1, <2>2, <2>3 DEF Listed
<1> QED
  BY <1>1, <1>2, <1>3 DEF TypeOK, Past

\* An instance that no import makes stays one, if all that is made is that instance,
\* or it was there before.
LEMMA NoImportMakes ==
  ASSUME LInv, LInv', Kept, NEW r \in DOMAIN inst',
         \A m \in DOMAIN inst : \A k \in DOMAIN Imports(m) : r # Append(m, k),
         r \in DOMAIN inst \/ DOMAIN inst' \subseteq DOMAIN inst \cup {r}
  PROVE  \A m \in DOMAIN inst' : \A k \in DOMAIN Imports(m)' : r # Append(m, k)
<1> SUFFICES ASSUME NEW m \in DOMAIN inst', NEW k \in DOMAIN Imports(m)', r = Append(m, k)
             PROVE  FALSE
  OBVIOUS
<1>1. CASE m \in DOMAIN inst
  BY <1>1, KeptCode
<1>2. CASE m \notin DOMAIN inst
  <2>1. m \in Id /\ m # << >>
    BY DEF LInv, TypeOK, Named
  <2>2. k \in Nat \ {0}
    <3>1. inst'[m].code \in Contents \cup {Empty}
      BY DEF LInv, TypeOK
    <3>2. PICK c \in Contents \cup {Empty} : c = inst'[m].code
      BY <3>1
    <3>3. k \in 1..Len(c.imports) /\ Len(c.imports) \in Nat
      BY <3>2, Code DEF Imports
    <3> QED
      BY <3>3
  <2>3. CASE r \in DOMAIN inst
    BY <1>2, <2>1, <2>2, <2>3, ImporterThere DEF LInv
  <2>4. CASE m = r
    <3>1. Len(Append(m, k)) = Len(m) + 1 /\ Len(m) \in Nat
      BY <2>1, <2>2, KidNames
    <3> QED
      BY <2>4, <3>1
  <2> QED
    BY <1>2, <2>3, <2>4
<1> QED
  BY <1>1, <1>2

\* Where none begins, imports still begin after their importers.
LEMMA BeginAfter ==
  ASSUME LInv, LInv', Kept, Roots, begun' = begun
  PROVE  \A m \in DOMAIN inst' : \A k \in DOMAIN Imports(m)' :
           Append(m, k) \in begun' => m \in begun'
<1> SUFFICES ASSUME NEW m \in DOMAIN inst', NEW k \in DOMAIN Imports(m)', Append(m, k) \in begun
             PROVE  m \in begun
  OBVIOUS
<1>1. CASE m \in DOMAIN inst
  BY <1>1, KeptCode DEF Roots
<1>2. CASE m \notin DOMAIN inst
  <2>1. m \in Id /\ m # << >>
    BY DEF LInv, TypeOK, Named
  <2>2. k \in Nat \ {0}
    <3>1. inst'[m].code \in Contents \cup {Empty}
      BY DEF LInv, TypeOK
    <3>2. PICK c \in Contents \cup {Empty} : c = inst'[m].code
      BY <3>1
    <3>3. k \in 1..Len(c.imports) /\ Len(c.imports) \in Nat
      BY <3>2, Code DEF Imports
    <3> QED
      BY <3>3
  <2>3. Append(m, k) \in DOMAIN inst
    BY Referred
  <2> QED
    BY <1>2, <2>1, <2>2, <2>3, ImporterThere DEF LInv
<1> QED
  BY <1>1, <1>2

\* Where no load is begun, loads stay loads of other instances than imports.
LEMMA RootsStay ==
  ASSUME LInv, LInv', Kept, Roots, begun' = begun,
         \A i \in DOMAIN loads' : i \in DOMAIN loads /\ loads'[i].root = loads[i].root
  PROVE  Roots'
<1>1. ASSUME NEW i \in DOMAIN loads'
      PROVE  \A m \in DOMAIN inst' : \A k \in DOMAIN Imports(m)' : loads'[i].root # Append(m, k)
  <2>1. PICK r \in DOMAIN inst : r = loads[i].root /\ r = loads'[i].root /\ r \in DOMAIN inst'
    BY Referred DEF Kept
  <2>2. \A m \in DOMAIN inst : \A k \in DOMAIN Imports(m) : r # Append(m, k)
    BY <2>1 DEF Roots
  <2>3. \A m \in DOMAIN inst' : \A k \in DOMAIN Imports(m)' : r # Append(m, k)
    BY <2>1, <2>2, NoImportMakes
  <2> QED
    BY <2>1, <2>3
<1>2. \A i, j \in DOMAIN loads' : loads'[i].root = loads'[j].root => i = j
  BY DEF Roots
<1> QED
  BY <1>1, <1>2, BeginAfter DEF Roots

\* A load of a new instance that no import makes.
LEMMA RootsGrow ==
  ASSUME LInv, LInv', Kept, Roots, begun' = begun,
         NEW x \in DOMAIN inst' \ DOMAIN inst, DOMAIN inst' \subseteq DOMAIN inst \cup {x},
         \A m \in DOMAIN inst : \A k \in DOMAIN Imports(m) : x # Append(m, k),
         NEW n, \A i \in DOMAIN loads' :
                  IF i = n THEN loads'[i].root = x
                           ELSE i \in DOMAIN loads /\ loads'[i].root = loads[i].root
  PROVE  Roots'
<1>1. \A m \in DOMAIN inst' : \A k \in DOMAIN Imports(m)' : x # Append(m, k)
  BY NoImportMakes
<1>2. ASSUME NEW i \in DOMAIN loads', i # n
      PROVE  /\ loads'[i].root \in DOMAIN inst
             /\ \A m \in DOMAIN inst' : \A k \in DOMAIN Imports(m)' : loads'[i].root # Append(m, k)
  <2>1. PICK r \in DOMAIN inst : r = loads[i].root /\ r = loads'[i].root /\ r \in DOMAIN inst'
    BY <1>2, Referred DEF Kept
  <2>2. \A m \in DOMAIN inst : \A k \in DOMAIN Imports(m) : r # Append(m, k)
    BY <1>2, <2>1 DEF Roots
  <2>3. \A m \in DOMAIN inst' : \A k \in DOMAIN Imports(m)' : r # Append(m, k)
    BY <2>1, <2>2, NoImportMakes
  <2> QED
    BY <2>1, <2>3
<1>3. \A i, j \in DOMAIN loads' : loads'[i].root = loads'[j].root => i = j
  BY <1>2 DEF Roots
<1> QED
  BY <1>1, <1>2, <1>3, BeginAfter DEF Roots

\* The loads go on with the same lists, or shorter ones.
Fewer ==
  \A i \in DOMAIN loads' : loads'[i].phase # "link" =>
    /\ i \in DOMAIN loads /\ loads[i].phase = loads'[i].phase /\ loads[i].root = loads'[i].root
    /\ \/ loads'[i].todo \in {loads[i].todo, << >>}
       \/ loads[i].todo # << >> /\ loads'[i].todo = Tail(loads[i].todo)

\* Shorter lists are still without repetition, and have nothing new.
LEMMA FewerLists ==
  ASSUME LInv, LInv', Kept, BInv, begun' = begun, Fewer
  PROVE  /\ Drains' /\ Lists'
         /\ \A i \in DOMAIN loads' : \A m \in Listed(i)' :
              i \in DOMAIN loads /\ m \in Listed(i) /\ loads'[i].phase = loads[i].phase
<1>1. Drains /\ Lists
  BY DEF BInv
<1>2. ASSUME NEW i \in DOMAIN loads', loads'[i].phase # "link"
      PROVE  /\ i \in DOMAIN loads /\ loads[i].phase = loads'[i].phase
             /\ loads[i].root = loads'[i].root
             /\ IsInjective(loads'[i].todo) /\ Range(loads'[i].todo) \subseteq Range(loads[i].todo)
             /\ loads[i].phase = "drain" =>
                  loads'[i].todo = << >> \/ \E m \in begun : loads'[i].todo = <<m>>
  <2>1. i \in DOMAIN loads /\ loads[i].phase = loads'[i].phase /\ loads[i].root = loads'[i].root
    BY <1>2 DEF Fewer
  <2>2. PICK s \in Seq(Id) : s = loads[i].todo /\ IsInjective(s)
    BY <1>1, <1>2, <2>1, Referred DEF Lists
  <2>3. CASE loads'[i].todo = s
    BY <1>1, <2>1, <2>2, <2>3 DEF Drains
  <2>4. CASE loads'[i].todo = << >>
    BY <2>1, <2>2, <2>4, ShorterList, Elements
  <2>5. CASE s # << >> /\ loads'[i].todo = Tail(s)
    <3>1. IsInjective(Tail(s)) /\ Range(Tail(s)) \subseteq Range(s)
      BY <2>2, <2>5, ShorterList, Elements
    <3>2. \A m \in begun : s = <<m>> => Tail(s) = << >>
      OBVIOUS
    <3>3. loads[i].phase = "drain" => \E m \in begun : s = <<m>>
      BY <1>1, <2>1, <2>2, <2>5 DEF Drains
    <3> QED
      BY <2>1, <2>2, <2>5, <3>1, <3>2, <3>3
  <2> QED
    BY <1>2, <2>1, <2>2, <2>3, <2>4, <2>5 DEF Fewer
<1>3. \A i \in DOMAIN loads' : \A m \in Listed(i)' :
        i \in DOMAIN loads /\ m \in Listed(i) /\ loads'[i].phase = loads[i].phase
  BY <1>2 DEF Listed
<1>4. Drains'
  BY <1>1, <1>2 DEF Drains
<1>5. Lists'
  <2>1. \A i, j \in DOMAIN loads' : i # j => Listed(i)' \cap Listed(j)' = {}
    BY <1>1, <1>3 DEF Lists
  <2>2. ASSUME NEW i \in DOMAIN loads', NEW m \in Listed(i)'
        PROVE  m \in begun' \/ m = loads'[i].root \/ Import(m)'
    <3>1. i \in DOMAIN loads /\ m \in Listed(i) /\ loads'[i].root = loads[i].root
      BY <1>2, <2>2 DEF Listed
    <3>2. m \in begun \/ m = loads[i].root \/ Import(m)
      BY <1>1, <3>1 DEF Lists
    <3>3. Import(m) => Import(m)'
      BY Referred, KeptCode DEF Import
    <3> QED
      BY <3>1, <3>2, <3>3
  <2>3. \A i \in DOMAIN loads' : loads'[i].phase # "link" => IsInjective(loads'[i].todo)
    BY <1>2
  <2> QED
    BY <2>1, <2>2, <2>3 DEF Lists
<1> QED
  BY <1>3, <1>4, <1>5

\* A step that runs no code but, at most, an import() in a body.
LEMMA QuietKeeps ==
  ASSUME LInv, LInv', Kept, BInv, begun' = begun, Fewer, Roots', UNCHANGED <<jobs, ran, threw>>,
         \A m \in begun : \/ at'[m] = at[m]
                          \/ at'[m] = at[m] + 1 /\ Body(m)[at[m] + 1] # Await
  PROVE  BInv'
<1>1. Fresh /\ Tells
  BY DEF BInv
<1>2. /\ Drains' /\ Lists'
      /\ \A i \in DOMAIN loads' : \A m \in Listed(i)' :
           i \in DOMAIN loads /\ m \in Listed(i) /\ loads'[i].phase = loads[i].phase
  BY FewerLists
<1>3. Past' = Past /\ \A m : Told(m)' <=> Told(m)
  BY DEF Past, Told
<1>4. Fresh'
  BY <1>1, <1>2, <1>3 DEF Fresh
<1>5. Tells'
  <2>1. \A m \in begun : Imports(m)' = Imports(m) /\ Body(m)' = Body(m)
    BY Referred, KeptCode
  <2>2. \A m \in Past' : \A k \in DOMAIN Imports(m)' : Told(Append(m, k))'
    BY <1>1, <1>3, <2>1, Referred DEF Tells
  <2>3. ASSUME NEW i \in DOMAIN loads', NEW m \in Listed(i)' \cap begun'
        PROVE  /\ \A k \in DOMAIN Imports(m)' : Append(m, k) \in ran' => Told(Append(m, k))'
               /\ loads'[i].phase = "evaluate" => \A j \in 1..at'[m] : Body(m)'[j] # Await
    <3>1. /\ m \in begun /\ i \in DOMAIN loads /\ m \in Listed(i) \cap begun
          /\ loads'[i].phase = loads[i].phase
      BY <1>2, <2>3
    <3>2. \A k \in DOMAIN Imports(m) : Append(m, k) \in ran => Told(Append(m, k))
      BY <1>1, <3>1 DEF Tells
    <3>3. ASSUME loads[i].phase = "evaluate", NEW j \in 1..at'[m]
          PROVE  Body(m)[j] # Await
      <4>1. at[m] \in Nat /\ \A h \in 1..at[m] : Body(m)[h] # Await
        BY <1>1, <3>1, <3>3, Referred DEF Tells
      <4>2. CASE j \in 1..at[m]
        BY <4>1, <4>2
      <4>3. CASE j \notin 1..at[m]
        <5>1. j = at[m] + 1 /\ at'[m] = at[m] + 1 /\ at'[m] # at[m]
          BY <3>1, <3>3, <4>1, <4>3
        <5> QED
          BY <3>1, <5>1
      <4> QED
        BY <4>2, <4>3
    <3> QED
      BY <1>3, <2>1, <3>1, <3>2, <3>3
  <2> QED
    BY <2>2, <2>3 DEF Tells
<1> QED
  BY <1>2, <1>4, <1>5 DEF BInv

-----------------------------------------------------------------------------
(* Bodies.                                                                 *)

\* Whose body runs did not run to its end, throw, or suspend itself before; it is to be
\* entered nowhere else; and the end of all that it imports was told.
LEMMA AtHead ==
  ASSUME LInv, BInv, NEW m \in begun, InBody(m)
  PROVE  /\ Evaluating /\ loads # << >> /\ Top.todo \in Seq(Id) /\ Top.todo # << >>
         /\ m = Head(Top.todo) /\ m \notin Past
         /\ \E n \in Nat \ {0} :
              /\ n = Len(loads) /\ DOMAIN loads = 1..n /\ n \in DOMAIN loads /\ Top = loads[n]
              /\ loads[n].phase \in {"evaluate", "drain"} /\ m \in Listed(n)
              /\ m \notin Range(Tail(loads[n].todo))
              /\ \A i \in DOMAIN loads : i # n => m \notin Listed(i)
         /\ \A k \in DOMAIN Imports(m) : Told(Append(m, k))
<1>1. /\ Evaluating /\ loads # << >> /\ Top.todo # << >> /\ m = Head(Top.todo) /\ Ready(m)
      /\ Top.phase \in {"evaluate", "drain"} /\ TypeOK /\ Stack
  BY DEF InBody, Evaluating, LInv
<1>2. PICK n \in Nat \ {0} :
        n = Len(loads) /\ DOMAIN loads = 1..n /\ n \in DOMAIN loads /\ Top = loads[n]
  BY <1>1, LastLoad
<1>3. PICK s \in Seq(Id) : s = loads[n].todo /\ s = Top.todo
  BY <1>2, Referred
<1>4. m \in Listed(n)
  <2>1. m \in Range(s)
    BY <1>1, <1>3, Elements
  <2> QED
    BY <1>1, <1>2, <1>3, <2>1 DEF Listed
<1>5. m \notin Past
  BY <1>2, <1>4 DEF BInv, Fresh
<1>6. m \notin Range(Tail(s))
  <2>1. IsInjective(s)
    BY <1>1, <1>2, <1>3 DEF BInv, Lists
  <2> QED
    BY <1>1, <1>3, <2>1, ShorterList
<1>7. \A i \in DOMAIN loads : i # n => m \notin Listed(i)
  BY <1>2, <1>4 DEF BInv, Lists
<1>8. \A k \in DOMAIN Imports(m) : Told(Append(m, k))
  BY <1>1, <1>2, <1>4 DEF BInv, Tells, Ready
<1> QED
  BY <1>1, <1>2, <1>3, <1>4, <1>5, <1>6, <1>7, <1>8

\* A body is left: it ended, threw, or was suspended.
LEMMA BodyLeft ==
  ASSUME LInv, LInv', BInv, UNCHANGED inst, begun' = begun, NEW m \in begun, InBody(m),
         NEW ts \in Seq(Id), ts \in {Tail(Top.todo), << >>}, SetTodo(ts),
         \A p \in begun : p # m => at'[p] = at[p],
         ran \subseteq ran' /\ ran' \subseteq ran \cup {m},
         Range(jobs) \subseteq Range(jobs') /\ Range(jobs') \subseteq Range(jobs) \cup {m},
         threw' \subseteq threw \cup {m},
         IsInjective(jobs'), Range(jobs') \cap threw' = {},
         m \in ran' /\ m \in Range(jobs') => \A i \in DOMAIN loads' : Listed(i)' = {}
  PROVE  BInv'
<1>1. Roots /\ Fresh /\ Tells /\ Kept /\ TypeOK /\ Stack
  BY DEF BInv, Kept, LInv
<1>2. /\ loads # << >> /\ Top.todo # << >> /\ m \notin Past
      /\ \A k \in DOMAIN Imports(m) : Told(Append(m, k))
  BY AtHead
<1>3. PICK n \in Nat \ {0} :
        /\ n = Len(loads) /\ DOMAIN loads = 1..n /\ n \in DOMAIN loads /\ Top = loads[n]
        /\ m \notin Range(Tail(loads[n].todo))
        /\ \A i \in DOMAIN loads : i # n => m \notin Listed(i)
  BY AtHead
<1>4. /\ DOMAIN loads' = DOMAIN loads /\ loads'[n].todo = ts
      /\ loads'[n].root = loads[n].root /\ loads'[n].phase = loads[n].phase
      /\ \A i \in DOMAIN loads : i # n => loads'[i] = loads[i]
  BY <1>1, <1>2, <1>3, TodosSet
<1>5. Fewer
  BY <1>2, <1>3, <1>4 DEF Fewer
<1>6. /\ Drains' /\ Lists'
      /\ \A i \in DOMAIN loads' : \A p \in Listed(i)' :
           i \in DOMAIN loads /\ p \in Listed(i) /\ loads'[i].phase = loads[i].phase
  BY <1>1, <1>5, FewerLists
<1>7. Roots'
  <2>1. \A i \in DOMAIN loads' : i \in DOMAIN loads /\ loads'[i].root = loads[i].root
    BY <1>4
  <2> QED
    BY <1>1, <2>1, RootsStay
<1>8. \A i \in DOMAIN loads' : m \notin Listed(i)'
  <2>1. m \notin Range(ts)
    BY <1>3, Elements
  <2>2. m \notin Listed(n)'
    BY <1>4, <2>1 DEF Listed
  <2> QED
    BY <1>3, <1>4, <1>6, <2>2
<1>9. Past' \subseteq Past \cup {m}
  BY DEF Past
<1>10. Fresh'
  BY <1>1, <1>6, <1>8, <1>9 DEF Fresh
<1>11. \A p : Told(p) => Told(p)'
  BY <1>2, ToldMeans DEF Past
<1>12. \A p : Imports(p)' = Imports(p) /\ Body(p)' = Body(p)
  BY SameCode
<1>13. Tells'
  <2>1. \A p \in Past' : \A k \in DOMAIN Imports(p)' : Told(Append(p, k))'
    BY <1>1, <1>2, <1>9, <1>11, <1>12 DEF Tells
  <2>2. ASSUME NEW i \in DOMAIN loads', NEW p \in Listed(i)' \cap begun'
        PROVE  /\ \A k \in DOMAIN Imports(p)' : Append(p, k) \in ran' => Told(Append(p, k))'
               /\ loads'[i].phase = "evaluate" => \A j \in 1..at'[p] : Body(p)'[j] # Await
    <3>1. /\ i \in DOMAIN loads /\ p \in Listed(i) \cap begun /\ p # m
          /\ loads'[i].phase = loads[i].phase
      BY <1>6, <1>8, <2>2
    <3>2. ASSUME NEW k \in DOMAIN Imports(p), Append(p, k) \in ran'
          PROVE  Told(Append(p, k))'
      <4>1. CASE Append(p, k) = m
        <5>1. m \notin Range(jobs')
          BY <2>2, <3>2, <4>1
        <5> QED
          BY <3>2, <4>1, <5>1, ToldMeans
      <4>2. CASE Append(p, k) # m
        BY <1>1, <1>11, <3>1, <3>2, <4>2 DEF Tells
      <4> QED
        BY <4>1, <4>2
    <3>3. loads[i].phase = "evaluate" => \A j \in 1..at[p] : Body(p)[j] # Await
      BY <1>1, <3>1 DEF Tells
    <3> QED
      BY <1>12, <3>1, <3>2, <3>3
  <2> QED
    BY <2>1, <2>2 DEF Tells
<1> QED
  BY <1>6, <1>7, <1>10, <1>13 DEF BInv

\* A microtask, or a body that ends in one, leaves one module at most to be entered.
LEMMA OneLeft ==
  ASSUME LInv, LInv', BInv, UNCHANGED inst, begun' = begun,
         DOMAIN loads = {1}, DOMAIN loads' = {1}, loads'[1].root = loads[1].root,
         loads'[1].phase = "drain",
         \/ loads'[1].todo = << >>
         \/ \E p \in begun : /\ loads'[1].todo = <<p>> /\ p \notin Past'
                             /\ \A k \in DOMAIN Imports(p) : Told(Append(p, k))',
         IsInjective(jobs'), Range(jobs') \cap threw' = {},
         \A p \in Past' : \A k \in DOMAIN Imports(p) : Told(Append(p, k))'
  PROVE  BInv'
<1>1. Roots /\ Kept
  BY DEF BInv, Kept
<1>2. Roots'
  BY <1>1, RootsStay
<1>3. \A p : Imports(p)' = Imports(p)
  BY SameCode
<1>4. Listed(1)' = Range(loads'[1].todo)
  BY DEF Listed
<1>5. CASE loads'[1].todo = << >>
  <2>1. Listed(1)' = {}
    BY <1>4, <1>5 DEF Range
  <2>2. Drains'
    BY <1>5 DEF Drains
  <2>3. Lists'
    BY <1>5, <2>1, ShorterList DEF Lists, IsInjective
  <2>4. Fresh' /\ Tells'
    BY <1>3, <2>1 DEF Fresh, Tells
  <2> QED
    BY <1>2, <2>2, <2>3, <2>4 DEF BInv
<1>6. ASSUME NEW p \in begun, loads'[1].todo = <<p>>, p \notin Past',
             \A k \in DOMAIN Imports(p) : Told(Append(p, k))'
      PROVE  BInv'
  <2>1. Listed(1)' = {p} /\ IsInjective(<<p>>)
    BY <1>4, <1>6, OneElement DEF IsInjective
  <2>2. Drains'
    BY <1>6 DEF Drains
  <2>3. Lists'
    BY <1>6, <2>1 DEF Lists
  <2>4. Fresh' /\ Tells'
    BY <1>3, <1>6, <2>1 DEF Fresh, Tells
  <2> QED
    BY <1>2, <2>2, <2>3, <2>4 DEF BInv
<1> QED
  BY <1>5, <1>6

\* What waits for a module whose end was not told has not been entered, and the end
\* of all else that it imports was told.
LEMMA WhatWaits ==
  ASSUME LInv, BInv, NEW m \in begun, ~Told(m)
  PROVE  \/ Waiting(m) = << >>
         \/ \E p \in begun :
              /\ Waiting(m) = <<p>> /\ p \notin Past /\ p # m
              /\ \A k \in DOMAIN Imports(p) : Append(p, k) = m \/ Told(Append(p, k))
<1> SUFFICES ASSUME WaitsFor(m, Importer(m))
             PROVE  \E p \in begun :
                      /\ Waiting(m) = <<p>> /\ p \notin Past /\ p # m
                      /\ \A k \in DOMAIN Imports(p) : Append(p, k) = m \/ Told(Append(p, k))
  BY DEF Waiting
<1>1. m \in DOMAIN inst /\ m \in Id /\ m # << >>
  BY Referred DEF LInv, Named
<1>2. PICK p \in begun, k \in Nat \ {0} :
        p = Importer(m) /\ p \in Id /\ k = m[Len(m)] /\ m = Append(p, k) /\ k \in DOMAIN Imports(p)
  BY <1>1, NameOfKid DEF WaitsFor
<1>3. p # m
  <2>1. Len(Append(p, k)) = Len(p) + 1 /\ Len(p) \in Nat
    BY <1>2, KidNames
  <2> QED
    BY <1>2, <2>1
<1>4. p \notin Past
  BY <1>2 DEF BInv, Tells
<1>5. Waiting(m) = <<p>> /\ \A j \in DOMAIN Imports(p) : Append(p, j) = m \/ Told(Append(p, j))
  BY <1>2 DEF Waiting, WaitsFor
<1> QED
  BY <1>3, <1>4, <1>5

\* A body awaits: the microtask that goes on with it is the only one for it.
LEMMA SuspendOnce ==
  ASSUME LInv, LInv', BInv, Suspend
  PROVE  BInv'
<1>1. PICK m \in begun :
        /\ InBody(m) /\ at' = [at EXCEPT ![m] = @ + 1] /\ jobs' = Append(jobs, m)
        /\ SetTodo(Tail(Top.todo)) /\ UNCHANGED <<inst, ran, threw, promise, status, world>>
  BY DEF Suspend
<1>2. m \notin Past /\ Top.todo \in Seq(Id) /\ Top.todo # << >>
  BY <1>1, AtHead
<1>3. PICK ts \in Seq(Id) : ts = Tail(Top.todo)
  BY <1>2, Elements
<1>4. at \in [begun -> Nat] /\ jobs \in Seq(begun) /\ IsInjective(jobs)
      /\ Range(jobs) \cap threw = {}
  BY Referred DEF BInv, Fresh
<1>5. begun' = begun /\ \A p \in begun : p # m => at'[p] = at[p]
  BY <1>1, <1>4 DEF begun
<1>6. Range(jobs') = Range(jobs) \cup {m} /\ IsInjective(jobs') /\ Range(jobs') \cap threw' = {}
  BY <1>1, <1>2, <1>4, OneMore DEF Past
<1>7. m \notin ran'
  BY <1>1, <1>2 DEF Past
<1> QED
  BY <1>1, <1>3, <1>5, <1>6, <1>7, BodyLeft

\* A body throws: no microtask is for it.
LEMMA ThrowOnce ==
  ASSUME LInv, LInv', BInv, Throw
  PROVE  BInv'
<1>1. PICK m \in begun :
        /\ InBody(m) /\ threw' = threw \cup {m} /\ SetTodo(<< >>)
        /\ UNCHANGED <<inst, at, jobs, ran, promise, status, world>>
  BY DEF Throw
<1>2. m \notin Past
  BY <1>1, AtHead
<1>3. << >> \in Seq(Id)
  OBVIOUS
<1>4. IsInjective(jobs') /\ Range(jobs') \cap threw' = {} /\ Range(jobs') = Range(jobs)
  BY <1>1, <1>2 DEF BInv, Fresh, Past
<1>5. m \notin ran' /\ begun' = begun
  BY <1>1, <1>2 DEF Past, begun
<1> QED
  BY <1>1, <1>3, <1>4, <1>5, BodyLeft

\* A body ends.  If it awaited, a microtask tells so; if it only waited, what waits for
\* it alone is next; before there are microtasks, the list goes on.
LEMMA FinishBodyOnce ==
  ASSUME LInv, LInv', BInv, FinishBody
  PROVE  BInv'
<1>1. PICK m \in begun :
        /\ InBody(m) /\ at[m] = Len(Body(m)) /\ ran' = ran \cup {m}
        /\ jobs' = IF Awaits(m) THEN Append(jobs, m) ELSE jobs
        /\ SetTodo(Tail(Top.todo) \o
                   (IF Top.phase = "drain" /\ ~Awaits(m) THEN Waiting(m) ELSE << >>))
        /\ UNCHANGED <<inst, at, threw, promise, status, world>>
  BY DEF FinishBody
<1>2. /\ loads # << >> /\ Top.todo \in Seq(Id) /\ Top.todo # << >> /\ m = Head(Top.todo)
      /\ m \notin Past /\ \A k \in DOMAIN Imports(m) : Told(Append(m, k))
  BY <1>1, AtHead
<1>3. PICK n \in Nat \ {0} :
        /\ n = Len(loads) /\ DOMAIN loads = 1..n /\ n \in DOMAIN loads /\ Top = loads[n]
        /\ loads[n].phase \in {"evaluate", "drain"} /\ m \in Listed(n)
  BY <1>1, AtHead
<1>4. PICK ts \in Seq(Id) : ts = Tail(Top.todo)
  BY <1>2, Elements
<1>5. /\ begun' = begun /\ \A p \in begun : at'[p] = at[p]
      /\ jobs \in Seq(begun) /\ IsInjective(jobs) /\ Range(jobs) \cap threw = {}
      /\ TypeOK /\ Stack
  BY <1>1, Referred DEF begun, BInv, Fresh, LInv
<1>6. /\ IsInjective(jobs') /\ Range(jobs') \cap threw' = {}
      /\ Range(jobs') = IF Awaits(m) THEN Range(jobs) \cup {m} ELSE Range(jobs)
  <2>1. CASE Awaits(m)
    <3>1. /\ Range(Append(jobs, m)) = Range(jobs) \cup {m}
          /\ m \notin Range(jobs) => IsInjective(Append(jobs, m))
      BY <1>5, OneMore
    <3> QED
      BY <1>1, <1>2, <1>5, <2>1, <3>1 DEF Past
  <2>2. CASE ~Awaits(m)
    BY <1>1, <1>5, <2>2
  <2> QED
    BY <2>1, <2>2
<1>7. ASSUME Top.phase = "drain"
      PROVE  n = 1 /\ DOMAIN loads = {1} /\ ts = << >>
  <2>1. n = 1 /\ \E p \in begun : Top.todo = <<p>>
    BY <1>2, <1>3, <1>7 DEF BInv, Drains
  <2> QED
    BY <1>3, <1>4, <2>1
<1>8. CASE Top.phase = "drain" /\ ~Awaits(m)
  <2>1. PICK ws \in Seq(Id) : ws = Waiting(m)
    BY WaitingType, Referred
  <2>2. ts \o ws = ws
    BY <1>7, <1>8, ConcatEmptySeq
  <2>3. SetTodo(ws)
    BY <1>1, <1>4, <1>8, <2>1, <2>2
  <2>4. /\ DOMAIN loads' = {1} /\ loads'[1].root = loads[1].root /\ loads'[1].phase = "drain"
        /\ loads'[1].todo = ws
    BY <1>2, <1>3, <1>5, <1>7, <1>8, <2>3, TodosSet
  <2>5. /\ m \notin Range(jobs') /\ Past' = Past \cup {m} /\ Told(m)'
        /\ \A p : Told(p) => Told(p)'
    BY <1>1, <1>2, <1>6, <1>8, ToldMeans DEF Past
  <2>6. \A p \in Past' : \A k \in DOMAIN Imports(p) : Told(Append(p, k))'
    BY <1>2, <2>5 DEF BInv, Tells
  <2>7. ~Told(m)
    BY <1>2 DEF Told, Past
  <2>8. \/ ws = << >>
        \/ \E p \in begun : /\ ws = <<p>> /\ p \notin Past'
                            /\ \A k \in DOMAIN Imports(p) : Told(Append(p, k))'
    <3>1. ASSUME NEW p \in begun, ws = <<p>>, p \notin Past, p # m,
                 \A k \in DOMAIN Imports(p) : Append(p, k) = m \/ Told(Append(p, k))
          PROVE  p \notin Past' /\ \A k \in DOMAIN Imports(p) : Told(Append(p, k))'
      <4>1. \A k \in DOMAIN Imports(p) : Told(Append(p, k))'
        BY <2>5, <3>1
      <4> QED
        BY <2>5, <3>1, <4>1
    <3>2. \/ ws = << >>
          \/ \E p \in begun :
               /\ ws = <<p>> /\ p \notin Past /\ p # m
               /\ \A k \in DOMAIN Imports(p) : Append(p, k) = m \/ Told(Append(p, k))
      BY <2>1, <2>7, WhatWaits
    <3> QED
      BY <3>1, <3>2
  <2> QED
    BY <1>1, <1>5, <1>6, <1>7, <1>8, <2>4, <2>6, <2>8, OneLeft
<1>9. CASE ~(Top.phase = "drain" /\ ~Awaits(m))
  <2>1. SetTodo(ts)
    <3>1. ts \o << >> = ts
      BY ConcatEmptySeq
    <3> QED
      BY <1>1, <1>4, <1>9, <3>1
  <2>2. ASSUME m \in Range(jobs')
        PROVE  \A i \in DOMAIN loads' : Listed(i)' = {}
    <3>1. Awaits(m)
      BY <1>2, <1>6, <2>2 DEF Past
    <3>2. Top.phase = "drain"
      <4>1. ~(loads[n].phase = "evaluate")
        <5> SUFFICES ASSUME loads[n].phase = "evaluate" PROVE FALSE
          OBVIOUS
        <5>1. \A j \in 1..at[m] : Body(m)[j] # Await
          BY <1>3 DEF BInv, Tells
        <5>2. DOMAIN Body(m) = 1..Len(Body(m))
          BY Referred, Sources, LenProperties DEF LInv
        <5> QED
          BY <1>1, <3>1, <5>1, <5>2 DEF Awaits
      <4> QED
        BY <1>3, <4>1
    <3>3. DOMAIN loads' = {1} /\ loads'[1].todo = << >>
      BY <1>2, <1>3, <1>5, <1>7, <2>1, <3>2, TodosSet
    <3> QED
      BY <3>3 DEF Listed, Range
  <2>3. ran \subseteq ran' /\ ran' \subseteq ran \cup {m} /\ threw' \subseteq threw \cup {m}
    BY <1>1
  <2>4. Range(jobs) \subseteq Range(jobs') /\ Range(jobs') \subseteq Range(jobs) \cup {m}
    BY <1>6
  <2> QED
    BY <1>1, <1>4, <1>5, <1>6, <2>1, <2>2, <2>3, <2>4, BodyLeft
<1> QED
  BY <1>8, <1>9

\* The next microtask goes on with a body, or tells that one ended.
LEMMA RunMicrotaskOnce ==
  ASSUME LInv, LInv', BInv, RunMicrotask
  PROVE  BInv'
<1>1. /\ Evaluating /\ Top.todo = << >> /\ Len(loads) = 1 /\ jobs # << >>
      /\ jobs' = Tail(jobs) /\ UNCHANGED <<inst, at, ran, threw, promise, status, world>>
  BY DEF RunMicrotask
<1>2. loads # << >> /\ TypeOK /\ Stack /\ begun' = begun
  BY <1>1 DEF Evaluating, LInv, begun
<1>3. DOMAIN loads = {1}
  BY <1>1, <1>2, LastLoad
<1>4. PICK js \in Seq(begun) :
        js = jobs /\ js # << >> /\ IsInjective(js) /\ Range(js) \cap threw = {}
  BY <1>1, Referred DEF BInv, Fresh
<1>5. PICK m \in begun :
        /\ m = Head(jobs) /\ IsInjective(jobs') /\ m \notin Range(jobs')
        /\ Range(jobs) = {m} \cup Range(jobs')
  BY <1>1, <1>4, ShorterList, Elements
<1>6. m \notin threw /\ Range(jobs') \cap threw' = {} /\ ~Told(m)
  BY <1>1, <1>4, <1>5, ToldMeans
<1>7. /\ Past' \subseteq Past /\ m \in Past
      /\ m \notin ran => m \notin Past'
      /\ \A p : Told(p) => Told(p)'
      /\ m \in ran => Told(m)'
  BY <1>1, <1>5, <1>6, ToldMeans DEF Past
<1>8. PICK ts \in Seq(Id) : ts = IF m \in ran THEN Waiting(m) ELSE <<m>>
  <2>1. m \in Id
    BY Referred
  <2>2. Waiting(m) \in Seq(Id) /\ <<m>> \in Seq(Id)
    BY <2>1, WaitingType, OneElement
  <2> QED
    BY <2>2
<1>9. /\ DOMAIN loads' = {1} /\ loads'[1].root = loads[1].root /\ loads'[1].phase = "drain"
      /\ loads'[1].todo = ts
  <2>1. SetTop([Top EXCEPT !.phase = "drain", !.todo = ts])
    BY <1>5, <1>8 DEF RunMicrotask
  <2> QED
    BY <1>1, <1>2, <1>3, <2>1, PhaseSet
<1>10. \A p \in Past' : \A k \in DOMAIN Imports(p) : Told(Append(p, k))'
  BY <1>7 DEF BInv, Tells
<1>11. \/ ts = << >>
       \/ \E p \in begun : /\ ts = <<p>> /\ p \notin Past'
                           /\ \A k \in DOMAIN Imports(p) : Told(Append(p, k))'
  <2>1. CASE m \in ran
    <3>1. ASSUME NEW p \in begun, ts = <<p>>, p \notin Past,
                 \A k \in DOMAIN Imports(p) : Append(p, k) = m \/ Told(Append(p, k))
          PROVE  p \notin Past' /\ \A k \in DOMAIN Imports(p) : Told(Append(p, k))'
      <4>1. \A k \in DOMAIN Imports(p) : Told(Append(p, k))'
        BY <1>7, <2>1, <3>1
      <4> QED
        BY <1>7, <3>1, <4>1
    <3>2. \/ ts = << >>
          \/ \E p \in begun :
               /\ ts = <<p>> /\ p \notin Past
               /\ \A k \in DOMAIN Imports(p) : Append(p, k) = m \/ Told(Append(p, k))
      BY <1>6, <1>8, <2>1, WhatWaits
    <3> QED
      BY <3>1, <3>2
  <2>2. CASE m \notin ran
    <3>1. \A k \in DOMAIN Imports(m) : Told(Append(m, k))'
      BY <1>7 DEF BInv, Tells
    <3> QED
      BY <1>7, <1>8, <2>2, <3>1
  <2> QED
    BY <2>1, <2>2
<1> QED
  BY <1>1, <1>2, <1>3, <1>5, <1>6, <1>9, <1>10, <1>11, OneLeft

-----------------------------------------------------------------------------
(* Steps that run no body.                                                 *)

\* A load begins: of an instance that no import makes, and that is only linked yet.
LEMMA LoadOnce ==
  ASSUME LInv, LInv', Kept, BInv, NEW x \in Id, x \notin DOMAIN inst, NEW q, Load(x, q),
         \A m \in DOMAIN inst : \A k \in DOMAIN Imports(m) : x # Append(m, k),
         begun' = begun, UNCHANGED <<jobs, ran, threw>>,
         \A m \in begun : \/ at'[m] = at[m]
                          \/ at'[m] = at[m] + 1 /\ Body(m)[at[m] + 1] # Await
  PROVE  BInv'
<1>1. PICK g \in Graph : g = [root |-> x, phase |-> "link", todo |-> <<x>>]
  <2>1. <<x>> \in Seq(Id)
    BY OneElement
  <2> QED
    BY <2>1 DEF Graph
<1>2. g.root = x /\ g.phase = "link" /\ loads' = Append(loads, g) /\ loads \in Seq(Graph)
  BY <1>1 DEF Load, LInv, TypeOK, Graph
<1>3. PICK n \in Nat : n = Len(loads) /\ DOMAIN loads = 1..n
  BY <1>2, LenProperties
<1>4. /\ DOMAIN loads' = 1..(n + 1) /\ loads'[n + 1] = g
      /\ \A i \in 1..n : loads'[i] = loads[i]
  <2>1. /\ Append(loads, g) \in Seq(Graph) /\ Len(Append(loads, g)) = n + 1
        /\ Append(loads, g)[n + 1] = g
        /\ \A i \in 1..n : Append(loads, g)[i] = loads[i]
    BY <1>2, <1>3, AppendProperties
  <2> QED
    BY <1>2, <2>1, LenProperties
<1>5. \A i \in DOMAIN loads' : i # n + 1 => i \in DOMAIN loads /\ loads'[i] = loads[i]
  BY <1>3, <1>4
<1>6. Fewer
  BY <1>2, <1>4, <1>5 DEF Fewer
<1>7. Roots'
  <2>1. x \in DOMAIN inst' \ DOMAIN inst /\ DOMAIN inst' \subseteq DOMAIN inst \cup {x}
    BY DEF Load, LoadModule
  <2>2. \A i \in DOMAIN loads' :
          IF i = n + 1 THEN loads'[i].root = x
                       ELSE i \in DOMAIN loads /\ loads'[i].root = loads[i].root
    BY <1>2, <1>4, <1>5
  <2>3. Roots
    BY DEF BInv
  <2> QED
    BY <2>1, <2>2, <2>3, RootsGrow
<1> QED
  BY <1>6, <1>7, QuietKeeps

\* The program, and what an import() asks for, are no static imports.
LEMMA LoadsOnce ==
  ASSUME LInv, LInv', Kept, BInv, Start \/ ResolveDynamicModuleCallback
  PROVE  BInv'
<1>1. CASE Start
  <2>1. /\ status = "running" /\ loads = << >> /\ Load(<<1>>, <<Cwd, Program>>)
        /\ UNCHANGED <<at, jobs, ran, threw>>
    BY <1>1 DEF Start
  <2>2. inst = << >> /\ begun' = begun
    BY <2>1 DEF LInv, Stack, begun
  <2>3. DOMAIN inst = {}
    BY <2>2
  <2>4. PICK x \in Id : x = <<1>>
    <3>1. <<1>> \in Id
      BY DEF Id
    <3> QED
      BY <3>1
  <2>5. Load(x, <<Cwd, Program>>)
    BY <2>1, <2>4
  <2> QED
    BY <2>1, <2>2, <2>3, <2>5, LoadOnce
<1>2. CASE ResolveDynamicModuleCallback
  <2>1. PICK m \in begun :
          /\ Next1(m) <= Len(Body(m)) /\ Body(m)[Next1(m)] # Await
          /\ at' = [at EXCEPT ![m] = @ + 1]
          /\ Load(Append(m, Len(Imports(m)) + Next1(m)), <<Cwd, Body(m)[Next1(m)]>>)
          /\ UNCHANGED <<jobs, ran, threw>>
    BY <1>2 DEF ResolveDynamicModuleCallback
  <2>2. m \in DOMAIN inst /\ m \in Id /\ at[m] \in Nat /\ at \in [begun -> Nat] /\ TypeOK /\ Named
    BY Referred DEF LInv
  <2>3. PICK l \in Nat : l = Len(Imports(m)) /\ DOMAIN Imports(m) = 1..l
    BY <2>2, Sources
  <2>4. PICK k \in Nat \ {0} : k = l + Next1(m) /\ k > l /\ k = l + at[m] + 1
    BY <2>2 DEF Next1
  <2>5. PICK x \in Id : x = Append(m, k)
    BY <2>2, KidNames
  <2>6. x \notin DOMAIN inst
    <3> SUFFICES ASSUME x \in DOMAIN inst PROVE FALSE
      OBVIOUS
    <3>1. k \notin DOMAIN Imports(m)
      BY <2>3, <2>4
    <3>2. k <= Len(Imports(m)) + at[m]
      BY <2>2, <2>5, <3>1 DEF Named
    <3> QED
      BY <2>2, <2>3, <2>4, <3>2
  <2>7. ASSUME NEW p \in DOMAIN inst, NEW j \in DOMAIN Imports(p), x = Append(p, j)
        PROVE  FALSE
    <3>1. p \in Id /\ j \in Nat \ {0}
      BY <2>2, Sources
    <3>2. Append(p, j) = Append(m, k)
      BY <2>5, <2>7
    <3>3. p = m /\ j = k
      BY <2>2, <3>1, <3>2, KidsDiffer
    <3> QED
      BY <2>3, <2>4, <2>7, <3>3
  <2>8. Load(x, <<Cwd, Body(m)[Next1(m)]>>)
    BY <2>1, <2>3, <2>4, <2>5
  <2>9. begun' = begun
    BY <2>1, <2>2 DEF begun
  <2>10. \A p \in begun : \/ at'[p] = at[p]
                          \/ at'[p] = at[p] + 1 /\ Body(p)[at[p] + 1] # Await
    BY <2>1, <2>2 DEF Next1
  <2> QED
    BY <2>1, <2>6, <2>7, <2>8, <2>9, <2>10, LoadOnce
<1> QED
  BY <1>1, <1>2

\* Steps that leave modules to be entered as they are, or take the first off a list.
LEMMA QuietOnce ==
  ASSUME LInv, LInv', Kept, BInv,
         \/ ResolveModuleCallback \/ LinkImports \/ AwaitImports \/ FinishEvaluation
         \/ OutOfMemory \/ UNCHANGED vars
         \/ \E p \in Paths, c \in Contents : EditFile(p, c)
         \/ \E f \in Folders : EditFolder(f)
  PROVE  BInv'
<1>1. UNCHANGED <<at, jobs, ran, threw>> /\ begun' = begun
  BY DEF ResolveModuleCallback, LinkImports, AwaitImports, FinishEvaluation, OutOfMemory, vars,
     EditFile, EditFolder, program, begun
<1>2. TypeOK /\ Stack /\ Roots
  BY DEF LInv, BInv
<1>3. Fewer /\ \A i \in DOMAIN loads' : i \in DOMAIN loads /\ loads'[i].root = loads[i].root
  <2>1. CASE UNCHANGED loads
    BY <2>1 DEF Fewer
  <2>2. CASE loads # << >> /\ Top.phase = "link" /\ \E ts \in Seq(Id) : SetTodo(ts)
    <3>1. PICK n \in Nat \ {0} : n = Len(loads) /\ Top = loads[n] /\ n \in DOMAIN loads
      BY <1>2, <2>2, LastLoad
    <3>2. PICK ts \in Seq(Id) : SetTodo(ts)
      BY <2>2
    <3>3. /\ DOMAIN loads' = DOMAIN loads
          /\ loads'[n].root = loads[n].root /\ loads'[n].phase = "link"
          /\ \A i \in DOMAIN loads : i # n => loads'[i] = loads[i]
      BY <1>2, <2>2, <3>1, <3>2, TodosSet
    <3> QED
      BY <3>3 DEF Fewer
  <2>3. CASE loads # << >> /\ Top.todo # << >> /\ SetTodo(Tail(Top.todo))
    <3>1. PICK n \in Nat \ {0} : n = Len(loads) /\ Top = loads[n] /\ n \in DOMAIN loads
      BY <1>2, <2>3, LastLoad
    <3>2. PICK ts \in Seq(Id) : ts = Tail(Top.todo)
      BY <2>3, <3>1, Referred, Elements
    <3>3. /\ DOMAIN loads' = DOMAIN loads /\ loads'[n].todo = ts
          /\ loads'[n].root = loads[n].root /\ loads'[n].phase = loads[n].phase
          /\ \A i \in DOMAIN loads : i # n => loads'[i] = loads[i]
      BY <1>2, <2>3, <3>1, <3>2, TodosSet
    <3> QED
      BY <2>3, <3>1, <3>2, <3>3 DEF Fewer
  <2>4. CASE loads # << >> /\ loads' = SubSeq(loads, 1, Len(loads) - 1)
    <3>1. loads \in Seq(Graph)
      BY <1>2 DEF TypeOK, Graph
    <3>2. \A i \in DOMAIN loads' : i \in DOMAIN loads /\ loads'[i] = loads[i]
      BY <2>4, <3>1, Shortened
    <3> QED
      BY <3>2 DEF Fewer
  <2>5. CASE LinkImports
    <3>1. loads # << >> /\ Top.phase = "link" /\ Top.todo # << >>
      BY <2>5 DEF LinkImports, Working
    <3>2. CASE SetTodo(Kids(Head(Top.todo)) \o Tail(Top.todo))
      <4>1. PICK m \in DOMAIN inst : m = Head(Top.todo)
        BY <1>2, <3>1, TopOfStack
      <4>2. PICK ks \in Seq(Id), us \in Seq(Id) : ks = Kids(m) /\ us = Tail(Top.todo)
        BY <1>2, <3>1, KidsOf, TopOfStack, Elements
      <4>3. ks \o us \in Seq(Id)
        BY Joined
      <4> QED
        BY <2>2, <3>1, <3>2, <4>1, <4>2, <4>3
    <3> QED
      BY <2>1, <2>5, <3>2 DEF LinkImports
  <2>6. CASE AwaitImports
    BY <2>3, <2>6 DEF AwaitImports, Evaluating
  <2>7. CASE FinishEvaluation
    BY <2>4, <2>7 DEF FinishEvaluation, Evaluating, Return
  <2>8. CASE \/ ResolveModuleCallback \/ OutOfMemory \/ UNCHANGED vars
             \/ \E p \in Paths, c \in Contents : EditFile(p, c)
             \/ \E f \in Folders : EditFolder(f)
    <3>1. UNCHANGED loads
      BY <2>8 DEF ResolveModuleCallback, OutOfMemory, vars, EditFile, EditFolder, program
    <3> QED
      BY <2>1, <3>1
  <2> QED
    BY <2>5, <2>6, <2>7, <2>8
<1>4. Roots'
  BY <1>1, <1>2, <1>3, RootsStay
<1> QED
  BY <1>1, <1>3, <1>4, QuietKeeps

\* How linking ends: load n is of r, which is to be entered there and nowhere else.
LinkedNow(n, r) ==
  /\ n \in DOMAIN loads /\ n = Len(loads) /\ r \in DOMAIN inst /\ r = loads[n].root
  /\ loads[n].phase = "link" /\ r \notin begun /\ ~Import(r)
  /\ \A i \in DOMAIN loads : i # n => r \notin Listed(i)
  /\ DOMAIN loads' = DOMAIN loads /\ loads'[n].todo = <<r>>
  /\ loads'[n].root = r /\ loads'[n].phase = "evaluate"
  /\ \A i \in DOMAIN loads : i # n => loads'[i] = loads[i]
  /\ Listed(n)' = {r} /\ \A i \in DOMAIN loads : i # n => Listed(i)' = Listed(i)

\* The root of what was linked is to be entered nowhere else, unless linking failed.
LEMMA LinkingEnds ==
  ASSUME LInv, BInv, FinishLinking
  PROVE  /\ UNCHANGED <<inst, at, jobs, ran, threw>> /\ begun' = begun
         /\ UNCHANGED loads \/ \E n \in Nat \ {0}, r \in Id : LinkedNow(n, r)
<1>1. /\ status = "running" /\ loads # << >> /\ Top.phase = "link" /\ Linking
      /\ UNCHANGED <<inst, at, jobs, ran, threw>> /\ begun' = begun
  BY DEF FinishLinking, Working, Linking, begun
<1>2. TypeOK /\ Stack /\ Graphs /\ Roots /\ Lists
  BY DEF LInv, BInv
<1>3. PICK n \in Nat \ {0} :
        n = Len(loads) /\ DOMAIN loads = 1..n /\ n \in DOMAIN loads /\ Top = loads[n]
  BY <1>1, <1>2, LastLoad
<1>4. PICK r \in DOMAIN inst : r = loads[n].root /\ r \in Id
  BY <1>3, Referred
<1>5. ASSUME SetTop([Top EXCEPT !.phase = "evaluate", !.todo = <<Top.root>>])
      PROVE  LinkedNow(n, r)
  <2>1. <<r>> \in Seq(Id) /\ Range(<<r>>) = {r}
    BY <1>4, OneElement
  <2>2. PICK ts \in Seq(Id) : ts = <<r>> /\ Range(ts) = {r}
    BY <2>1
  <2>3. SetTop([Top EXCEPT !.phase = "evaluate", !.todo = ts])
    BY <1>3, <1>4, <1>5, <2>2
  <2>4. /\ DOMAIN loads' = DOMAIN loads /\ loads'[n].todo = ts
        /\ loads'[n].root = r /\ loads'[n].phase = "evaluate"
        /\ \A i \in DOMAIN loads : i # n => loads'[i] = loads[i]
    BY <1>1, <1>2, <1>3, <1>4, <2>3, PhaseSet
  <2>5. r \notin begun
    <3>1. r \in Tree(r)
      BY <1>4, InOwnTree DEF Tree
    <3> QED
      BY <1>1, <1>2, <1>3, <1>4, <3>1 DEF Graphs
  <2>6. ~Import(r)
    <3> SUFFICES ASSUME Import(r) PROVE FALSE
      OBVIOUS
    <3>1. /\ r # << >> /\ Importer(r) \in DOMAIN inst
          /\ r[Len(r)] \in DOMAIN Imports(Importer(r))
      BY Referred DEF Import
    <3>2. r = Append(Importer(r), r[Len(r)])
      BY <1>4, <3>1, NameOfKid
    <3> QED
      BY <1>2, <1>3, <1>4, <3>1, <3>2 DEF Roots
  <2>7. ASSUME NEW i \in DOMAIN loads, i # n
        PROVE  r \notin Listed(i)
    <3>1. r # loads[i].root
      BY <1>2, <1>3, <1>4, <2>7 DEF Roots
    <3> QED
      BY <1>2, <2>5, <2>6, <2>7, <3>1 DEF Lists
  <2>8. Listed(n)' = {r} /\ \A i \in DOMAIN loads : i # n => Listed(i)' = Listed(i)
    BY <2>2, <2>4 DEF Listed
  <2> QED
    BY <1>1, <1>3, <1>4, <2>2, <2>4, <2>5, <2>6, <2>7, <2>8 DEF LinkedNow
<1> QED
  BY <1>1, <1>4, <1>5 DEF FinishLinking

\* What was linked is evaluated.
LEMMA FinishLinkingOnce ==
  ASSUME LInv, LInv', Kept, BInv, FinishLinking
  PROVE  BInv'
<1>1. UNCHANGED <<inst, at, jobs, ran, threw>> /\ begun' = begun
  BY LinkingEnds
<1>2. Roots /\ Drains /\ Lists /\ Fresh /\ Tells
  BY DEF BInv
<1>5. CASE UNCHANGED loads
  <2>1. Fewer
    BY <1>5 DEF Fewer
  <2>2. Roots'
    BY <1>1, <1>2, <1>5, RootsStay
  <2> QED
    BY <1>1, <2>1, <2>2, QuietKeeps
<1>6. ASSUME NEW n \in Nat \ {0}, NEW r \in Id, LinkedNow(n, r)
      PROVE  BInv'
  <2>2. IsInjective(<<r>>)
    BY DEF IsInjective
  <2>4. /\ DOMAIN loads' = DOMAIN loads /\ loads'[n].todo = <<r>>
        /\ loads'[n].root = r /\ loads'[n].phase = "evaluate" /\ n \in DOMAIN loads
        /\ \A i \in DOMAIN loads : i # n => loads'[i] = loads[i]
        /\ r = loads[n].root
    BY <1>6 DEF LinkedNow
  <2>5. r \notin begun
    BY <1>6 DEF LinkedNow
  <2>6. \A i \in DOMAIN loads : i # n => r \notin Listed(i)
    BY <1>6 DEF LinkedNow
  <2>7. Listed(n)' = {r} /\ \A i \in DOMAIN loads : i # n => Listed(i)' = Listed(i)
    BY <1>6 DEF LinkedNow
  <2>8. Roots'
    <3>1. \A i \in DOMAIN loads' : i \in DOMAIN loads /\ loads'[i].root = loads[i].root
      BY <2>4
    <3> QED
      BY <1>1, <1>2, <3>1, RootsStay
  <2>9. Drains'
    BY <1>1, <1>2, <2>4 DEF Drains
  <2>10. \A m : Imports(m)' = Imports(m) /\ Body(m)' = Body(m)
    BY <1>1, SameCode
  <2>11. Lists'
    <3>1. \A i \in DOMAIN loads' : loads'[i].phase # "link" => IsInjective(loads'[i].todo)
      BY <1>2, <2>2, <2>4 DEF Lists
    <3>2. \A i, j \in DOMAIN loads' : i # j => Listed(i)' \cap Listed(j)' = {}
      BY <1>2, <2>4, <2>6, <2>7 DEF Lists
    <3>3. \A m : Import(m)' <=> Import(m)
      BY <1>1, <2>10 DEF Import
    <3>4. ASSUME NEW i \in DOMAIN loads', NEW m \in Listed(i)'
          PROVE  m \in begun' \/ m = loads'[i].root \/ Import(m)'
      BY <1>1, <1>2, <2>4, <2>7, <3>3, <3>4 DEF Lists
    <3> QED
      BY <3>1, <3>2, <3>4 DEF Lists
  <2>12. Fresh'
    <3>1. Past' = Past /\ r \notin Past
      BY <1>1, <2>5, Referred DEF Past
    <3> QED
      BY <1>1, <1>2, <2>4, <2>7, <3>1 DEF Fresh
  <2>13. Tells'
    <3>1. Past' = Past /\ \A m : Told(m)' <=> Told(m)
      BY <1>1 DEF Past, Told
    <3>2. \A m \in Past' : \A k \in DOMAIN Imports(m)' : Told(Append(m, k))'
      BY <1>2, <2>10, <3>1 DEF Tells
    <3>3. ASSUME NEW i \in DOMAIN loads', NEW m \in Listed(i)' \cap begun'
          PROVE  /\ \A k \in DOMAIN Imports(m)' : Append(m, k) \in ran' => Told(Append(m, k))'
                 /\ loads'[i].phase = "evaluate" => \A j \in 1..at'[m] : Body(m)'[j] # Await
      <4>1. i \in DOMAIN loads /\ loads'[i] = loads[i] /\ m \in Listed(i) \cap begun
        BY <1>1, <2>4, <2>5, <2>7, <3>3
      <4>2. /\ \A k \in DOMAIN Imports(m) : Append(m, k) \in ran => Told(Append(m, k))
            /\ loads[i].phase = "evaluate" => \A j \in 1..at[m] : Body(m)[j] # Await
        BY <1>2, <4>1 DEF Tells
      <4> QED
        BY <1>1, <2>10, <3>1, <4>1, <4>2
    <3> QED
      BY <3>2, <3>3 DEF Tells
  <2> QED
    BY <2>8, <2>9, <2>11, <2>12, <2>13 DEF BInv
<1> QED
  BY <1>5, <1>6, LinkingEnds

\* How a module begins: instance m is entered from the list ts of load n, and its
\* imports ks, which are to be entered nowhere and none of which has begun, come first.
Enters(n, m, ks, ts) ==
  /\ n \in DOMAIN loads /\ loads[n].phase = "evaluate" /\ loads[n].todo = ts /\ ts # << >>
  /\ m = Head(ts) /\ m \notin begun /\ m \in Listed(n) /\ IsInjective(ts)
  /\ ks = Kids(m)
  /\ \A c \in Range(ks) :
       /\ c \notin begun /\ c # m /\ c # << >> /\ Importer(c) = m
       /\ c[Len(c)] \in DOMAIN Imports(m)
       /\ \A i \in DOMAIN loads : c \notin Listed(i)
  /\ DOMAIN loads' = DOMAIN loads /\ loads'[n].todo = ks \o ts /\ IsInjective(ks \o ts)
  /\ loads'[n].root = loads[n].root /\ loads'[n].phase = "evaluate"
  /\ \A i \in DOMAIN loads : i # n => loads'[i] = loads[i]
  /\ Listed(n)' = Range(ks) \cup Listed(n)
  /\ \A i \in DOMAIN loads : i # n => Listed(i)' = Listed(i)
  /\ begun' = begun \cup {m} /\ at'[m] = 0 /\ \A p \in begun : at'[p] = at[p]

\* A module begins where it is first on the list.
LEMMA ModuleEnters ==
  ASSUME LInv, BInv, EvaluateImports
  PROVE  /\ UNCHANGED <<inst, jobs, ran, threw>>
         /\ \E n \in Nat \ {0}, m \in DOMAIN inst, ks \in Seq(Id), ts \in Seq(Id) :
              Enters(n, m, ks, ts)
<1>1. /\ Evaluating /\ loads # << >> /\ Top.phase \in {"evaluate", "drain"} /\ Top.todo # << >>
      /\ Head(Top.todo) \notin begun /\ SetTodo(Kids(Head(Top.todo)) \o Top.todo)
      /\ UNCHANGED <<inst, jobs, ran, threw>>
  BY DEF EvaluateImports, Evaluating
<1>2. TypeOK /\ Stack /\ Graphs /\ Roots /\ Drains /\ Lists /\ Fresh /\ Tells
  BY DEF LInv, BInv
<1>3. PICK n \in Nat \ {0} :
        n = Len(loads) /\ DOMAIN loads = 1..n /\ n \in DOMAIN loads /\ Top = loads[n]
  BY <1>1, <1>2, LastLoad
<1>4. PICK ts \in Seq(Id) : ts = Top.todo /\ ts = loads[n].todo /\ ts # << >> /\ IsInjective(ts)
                            /\ Listed(n) = Range(ts)
  BY <1>1, <1>2, <1>3, Referred DEF Lists, Listed
<1>5. PICK m \in DOMAIN inst : m = Head(ts) /\ m \in Listed(n) /\ m \notin begun /\ m \in Id
  <2>1. Head(ts) \in Range(ts)
    BY <1>4, Elements
  <2> QED
    BY <1>1, <1>3, <1>4, <2>1, Referred
<1>6. loads[n].phase = "evaluate"
  <2> SUFFICES ASSUME loads[n].phase = "drain" PROVE FALSE
    BY <1>1, <1>3
  <2>1. PICK p \in begun : ts = <<p>>
    BY <1>2, <1>3, <1>4 DEF Drains
  <2> QED
    BY <1>5, <2>1
<1>7. PICK ks \in Seq(Id) :
        /\ ks = Kids(m) /\ IsInjective(ks)
        /\ \A c \in Range(ks) : \E k \in DOMAIN Imports(m) : k \in Nat \ {0} /\ c = Append(m, k)
  <2>1. /\ Kids(m) \in Seq(Id)
        /\ Range(Kids(m)) = {Append(m, k) : k \in DOMAIN Imports(m)}
    BY <1>2, KidsOf
  <2>2. PICK l \in Nat : DOMAIN Imports(m) = 1..l
    BY <1>2, Sources
  <2>3. ASSUME NEW i \in DOMAIN Imports(m), NEW j \in DOMAIN Imports(m),
               Append(m, i) = Append(m, j)
        PROVE  i = j
    <3>1. i \in Nat \ {0} /\ j \in Nat \ {0}
      BY <2>2
    <3> QED
      BY <1>5, <2>3, <3>1, KidsDiffer
  <2>4. IsInjective(Kids(m))
    BY <2>3 DEF Kids, IsInjective
  <2> QED
    BY <2>1, <2>2, <2>4
<1>8. ASSUME NEW c \in Range(ks)
      PROVE  /\ c \notin begun /\ c # m /\ c # << >> /\ Importer(c) = m
             /\ c[Len(c)] \in DOMAIN Imports(m)
             /\ \A i \in DOMAIN loads : c \notin Listed(i)
  <2>1. PICK k \in Nat \ {0} : k \in DOMAIN Imports(m) /\ c = Append(m, k)
    BY <1>7
  <2>2. /\ c # << >> /\ Len(m) \in Nat /\ Len(c) = Len(m) + 1 /\ c[Len(m) + 1] = k
        /\ Importer(c) = m
    BY <1>5, <2>1, KidNames, ImporterOfKid
  <2>3. c \notin begun
    BY <1>2, <1>5, <2>1 DEF Roots
  <2>4. \A i \in DOMAIN loads : c # loads[i].root
    BY <1>2, <2>1 DEF Roots
  <2>5. ~Import(c)
    BY <1>5, <2>2 DEF Import
  <2>6. \A i \in DOMAIN loads : c \notin Listed(i)
    BY <1>2, <2>3, <2>4, <2>5 DEF Lists
  <2>7. c # m
    BY <2>2
  <2> QED
    BY <2>1, <2>2, <2>3, <2>6, <2>7
<1>9. PICK us \in Seq(Id) : us = ks \o ts /\ Range(us) = Range(ks) \cup Range(ts) /\ IsInjective(us)
  <2>1. Range(ks) \cap Range(ts) = {}
    BY <1>3, <1>4, <1>8
  <2> QED
    BY <1>4, <1>7, <2>1, Joined, JoinedOnce
<1>10. /\ DOMAIN loads' = DOMAIN loads /\ loads'[n].todo = us
       /\ loads'[n].root = loads[n].root /\ loads'[n].phase = "evaluate"
       /\ \A i \in DOMAIN loads : i # n => loads'[i] = loads[i]
  <2>1. SetTodo(us)
    BY <1>1, <1>4, <1>5, <1>7, <1>9
  <2> QED
    BY <1>1, <1>2, <1>3, <1>6, <2>1, TodosSet
<1>11. /\ Listed(n)' = Range(ks) \cup Listed(n)
       /\ \A i \in DOMAIN loads : i # n => Listed(i)' = Listed(i)
  BY <1>4, <1>9, <1>10 DEF Listed
<1>12. /\ begun' = begun \cup {m} /\ at'[m] = 0 /\ \A p \in begun : at'[p] = at[p]
  <2>1. at' = [x \in begun \cup {m} |-> IF x \in begun THEN at[x] ELSE 0]
    BY <1>4, <1>5 DEF EvaluateImports
  <2> QED
    BY <1>5, <2>1 DEF begun
<1>13. Enters(n, m, ks, ts)
  BY <1>3, <1>4, <1>5, <1>6, <1>7, <1>8, <1>9, <1>10, <1>11, <1>12 DEF Enters
<1> QED
  BY <1>1, <1>13

\* A module begins: it is still to be entered for its body, after its imports.
LEMMA EvaluateImportsOnce ==
  ASSUME LInv, LInv', Kept, BInv, EvaluateImports
  PROVE  BInv'
<1>1. UNCHANGED <<inst, jobs, ran, threw>>
  BY ModuleEnters
<1>2. TypeOK /\ Roots /\ Drains /\ Lists /\ Fresh /\ Tells
  BY DEF LInv, BInv
<1>3. PICK n \in Nat \ {0}, m \in DOMAIN inst, ks \in Seq(Id), ts \in Seq(Id) :
        Enters(n, m, ks, ts)
  BY ModuleEnters
<1>5. n \in DOMAIN loads /\ m \in Listed(n) /\ m \notin begun /\ m \in Id
  BY <1>3, Referred DEF Enters
<1>6. loads[n].phase = "evaluate"
  BY <1>3 DEF Enters
<1>8. ASSUME NEW c \in Range(ks)
      PROVE  /\ c \notin begun /\ c # m /\ c # << >> /\ Importer(c) = m
             /\ c[Len(c)] \in DOMAIN Imports(m)
             /\ \A i \in DOMAIN loads : c \notin Listed(i)
  BY <1>3 DEF Enters
<1>10. /\ DOMAIN loads' = DOMAIN loads /\ IsInjective(loads'[n].todo)
       /\ loads'[n].root = loads[n].root /\ loads'[n].phase = "evaluate"
       /\ \A i \in DOMAIN loads : i # n => loads'[i] = loads[i]
  BY <1>3 DEF Enters
<1>11. /\ Listed(n)' = Range(ks) \cup Listed(n)
       /\ \A i \in DOMAIN loads : i # n => Listed(i)' = Listed(i)
  BY <1>3 DEF Enters
<1>12. begun' = begun \cup {m} /\ at'[m] = 0 /\ \A p \in begun : at'[p] = at[p]
  BY <1>3 DEF Enters
<1>13. /\ \A p : Imports(p)' = Imports(p) /\ Body(p)' = Body(p)
       /\ \A p : Import(p) => Import(p)'
       /\ Past' = Past /\ Past \subseteq begun /\ ran \subseteq begun
       /\ \A p : Told(p)' <=> Told(p)
  <2>1. \A p : Imports(p)' = Imports(p) /\ Body(p)' = Body(p)
    BY <1>1, SameCode
  <2> QED
    BY <1>1, <1>12, <2>1, Referred DEF Import, Past, Told
<1>14. Roots'
  <2>1. ASSUME NEW p \in DOMAIN inst, NEW k \in DOMAIN Imports(p), Append(p, k) = m
        PROVE  p \in begun
    <3>1. m # loads[n].root
      BY <1>2, <1>5, <2>1 DEF Roots
    <3>2. Import(m)
      BY <1>2, <1>5, <3>1 DEF Lists
    <3>3. p \in Id /\ k \in Nat \ {0}
      BY <1>2, Sources
    <3>4. Importer(m) = p
      BY <2>1, <3>3, ImporterOfKid
    <3> QED
      BY <3>2, <3>4 DEF Import
  <2>2. \A p \in DOMAIN inst' : \A k \in DOMAIN Imports(p)' :
          Append(p, k) \in begun' => p \in begun'
    BY <1>1, <1>2, <1>12, <1>13, <2>1 DEF Roots
  <2>3. \A i \in DOMAIN loads' : loads'[i].root = loads[i].root
    BY <1>10
  <2>4. \A i, j \in DOMAIN loads' : loads'[i].root = loads'[j].root => i = j
    BY <1>2, <1>10, <2>3 DEF Roots
  <2>5. \A i \in DOMAIN loads' : \A p \in DOMAIN inst' : \A k \in DOMAIN Imports(p)' :
          loads'[i].root # Append(p, k)
    BY <1>1, <1>2, <1>10, <1>13, <2>3 DEF Roots
  <2> QED
    BY <2>2, <2>4, <2>5 DEF Roots
<1>15. Drains'
  BY <1>2, <1>10, <1>12 DEF Drains
<1>16. Lists'
  <2>1. \A i \in DOMAIN loads' : loads'[i].phase # "link" => IsInjective(loads'[i].todo)
    BY <1>2, <1>10 DEF Lists
  <2>2. \A i, j \in DOMAIN loads' : i # j => Listed(i)' \cap Listed(j)' = {}
    BY <1>2, <1>5, <1>8, <1>10, <1>11 DEF Lists
  <2>3. ASSUME NEW i \in DOMAIN loads', NEW p \in Listed(i)'
        PROVE  p \in begun' \/ p = loads'[i].root \/ Import(p)'
    <3>1. CASE p \in Range(ks)
      <4>1. p # << >> /\ Importer(p) = m /\ p[Len(p)] \in DOMAIN Imports(m)
        BY <1>8, <3>1
      <4> QED
        BY <1>12, <1>13, <4>1 DEF Import
    <3>2. CASE p \notin Range(ks)
      <4>1. i \in DOMAIN loads /\ p \in Listed(i) /\ loads'[i].root = loads[i].root
        BY <1>10, <1>11, <2>3, <3>2
      <4>2. p \in begun \/ p = loads[i].root \/ Import(p)
        BY <1>2, <4>1 DEF Lists
      <4> QED
        BY <1>12, <1>13, <4>1, <4>2
    <3> QED
      BY <3>1, <3>2
  <2> QED
    BY <2>1, <2>2, <2>3 DEF Lists
<1>17. Fresh'
  <2>1. \A i \in DOMAIN loads' : Listed(i)' \cap Past' = {}
    BY <1>2, <1>8, <1>10, <1>11, <1>13 DEF Fresh
  <2> QED
    BY <1>1, <1>2, <2>1 DEF Fresh
<1>18. Tells'
  <2>1. \A p \in Past' : \A k \in DOMAIN Imports(p)' : Told(Append(p, k))'
    BY <1>2, <1>13 DEF Tells
  <2>2. ASSUME NEW i \in DOMAIN loads', NEW p \in Listed(i)' \cap begun'
        PROVE  /\ \A k \in DOMAIN Imports(p)' : Append(p, k) \in ran' => Told(Append(p, k))'
               /\ loads'[i].phase = "evaluate" => \A j \in 1..at'[p] : Body(p)'[j] # Await
    <3>1. CASE p = m
      <4>1. \A k \in DOMAIN Imports(m) : Append(m, k) \notin ran
        BY <1>2, <1>5, <1>13 DEF Roots
      <4>2. 1..at'[p] = {}
        BY <1>12, <3>1
      <4> QED
        BY <1>1, <1>13, <3>1, <4>1, <4>2
    <3>2. CASE p # m
      <4>1. p \in begun /\ i \in DOMAIN loads /\ p \in Listed(i) \cap begun
        BY <1>8, <1>10, <1>11, <1>12, <2>2, <3>2
      <4>2. /\ \A k \in DOMAIN Imports(p) : Append(p, k) \in ran => Told(Append(p, k))
            /\ loads[i].phase = "evaluate" => \A j \in 1..at[p] : Body(p)[j] # Await
        BY <1>2, <4>1 DEF Tells
      <4>3. loads'[i].phase = loads[i].phase
        BY <1>6, <1>10, <4>1
      <4> QED
        BY <1>1, <1>12, <1>13, <4>1, <4>2, <4>3
    <3> QED
      BY <3>1, <3>2
  <2> QED
    BY <2>1, <2>2 DEF Tells
<1> QED
  BY <1>14, <1>15, <1>16, <1>17, <1>18 DEF BInv

-----------------------------------------------------------------------------
(* The invariant, and what follows from it.                                *)

\* Nothing is to be entered before the program is loaded.
LEMMA InitOnce ==
  ASSUME Init
  PROVE  BInv
<1>1. loads = << >> /\ inst = << >> /\ jobs = << >> /\ ran = {} /\ threw = {}
  BY DEF Init
<1>2. DOMAIN << >> = {} /\ Range(<< >>) = {} /\ IsInjective(<< >>)
  BY DEF Range, IsInjective
<1>3. Past = {}
  BY <1>1, <1>2 DEF Past
<1> QED
  BY <1>1, <1>2, <1>3 DEF BInv, Roots, Drains, Lists, Fresh, Tells

\* Every step keeps the invariant.
LEMMA StepOnce ==
  ASSUME LInv, BInv, [Next]_vars
  PROVE  BInv'
<1>1. LInv' /\ Kept
  BY StepKeeps DEF Kept
<1>2. CASE Start \/ ResolveDynamicModuleCallback
  BY <1>1, <1>2, LoadsOnce
<1>3. CASE FinishLinking \/ EvaluateImports
  BY <1>1, <1>3, FinishLinkingOnce, EvaluateImportsOnce
<1>4. CASE Suspend \/ FinishBody \/ Throw \/ RunMicrotask
  BY <1>1, <1>4, SuspendOnce, FinishBodyOnce, ThrowOnce, RunMicrotaskOnce
<1>5. CASE \/ ResolveModuleCallback \/ LinkImports \/ AwaitImports \/ FinishEvaluation
           \/ OutOfMemory \/ UNCHANGED vars
           \/ \E p \in Paths, c \in Contents : EditFile(p, c)
           \/ \E f \in Folders : EditFolder(f)
  BY <1>1, <1>5, QuietOnce
<1> QED
  BY <1>2, <1>3, <1>4, <1>5 DEF Next, Step

\* A body that came to its end, or threw, is never entered again, however many of the
\* modules it imports await (winx_modules.cpp:47).
THEOREM BodiesRunOnce == Spec => []NoBodyRunsTwice
<1>1. Init => LInv /\ BInv
  BY InitHolds, InitOnce
<1>2. LInv /\ BInv /\ [Next]_vars => LInv' /\ BInv'
  BY StepKeeps, StepOnce
<1>3. LInv /\ BInv => NoBodyRunsTwice
  <2> SUFFICES ASSUME LInv, BInv, NEW m \in ran \cup threw, InBody(m) PROVE FALSE
    BY DEF NoBodyRunsTwice
  <2>1. m \in begun /\ m \in Past
    BY Referred DEF InBody, Past
  <2> QED
    BY <2>1, AtHead
<1> QED
  BY <1>1, <1>2, <1>3, PTL DEF Spec
=============================================================================
