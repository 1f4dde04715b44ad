------------------------- MODULE ModuleLoaderProofs -------------------------
(***************************************************************************)
(* Proofs about ModuleLoader for every value of its constants: any number  *)
(* of files, modules, nested import() calls and edits.                     *)
(*                                                                         *)
(* Named says how instances are named and that no two imports make the     *)
(* same; Graphs, how far linking has come; Stack, what the loads in        *)
(* progress refer to; Ended, which bodies end and which throw.             *)
(***************************************************************************)
EXTENDS ModuleLoader, Functions, TLAPS, SequenceTheorems, FiniteSetTheorems

-----------------------------------------------------------------------------
\* All static imports of m were made instances, and export what m imports.
Resolved(m) == \A k \in DOMAIN Imports(m) : Append(m, k) \in DOMAIN inst
Linked(m)   == inst[m].code.valid /\ Resolved(m) /\ NamesResolve(m)

\* A graph is being linked: the last of those that are loaded.
Linking == loads # << >> /\ Top.phase = "link"

\* Instances are named from the program on; static imports come into being in order,
\* and an import() call makes an instance while its caller's body has made that step.
Named ==
  /\ \A n \in DOMAIN inst : n # << >> /\ \A k \in 1..Len(n) : SubSeq(n, 1, k) \in DOMAIN inst
  /\ \A m \in DOMAIN inst, k \in Nat \ {0} :
       Append(m, k) \in DOMAIN inst =>
         IF k \in DOMAIN Imports(m)
         THEN \A j \in 1..k : Append(m, j) \in DOMAIN inst
         ELSE m \in begun /\ k <= Len(Imports(m)) + at[m]

\* Only instances in the tree of the graph that is being linked are not linked; none
\* of them has begun; one some import of which is missing is to be entered, or is an
\* import of the one that is entered next.
Graphs ==
  /\ status = "running" => \A m \in DOMAIN inst : inst[m].code.valid
  /\ \A m \in DOMAIN inst : Linked(m) \/ (Linking /\ m \in Tree(Top.root))
  /\ Linking =>
       /\ begun \cap Tree(Top.root) = {}
       /\ Range(Top.todo) \subseteq Tree(Top.root)
       /\ \A n \in Tree(Top.root) :
            \/ Resolved(n) \/ n \in Range(Top.todo)
            \/ Top.todo # << >> /\ n # Top.root /\ Importer(n) = Head(Top.todo)
       /\ \A m \in DOMAIN inst : \A k \in DOMAIN Imports(m) : Top.root # Append(m, k)

\* The loads are of instances, and all but the last of graphs that are linked.
Stack ==
  /\ status = "running" /\ loads = << >> => inst = << >>
  /\ \A i \in DOMAIN loads :
       /\ i < Len(loads) => loads[i].phase # "link"
       /\ loads[i].root \in DOMAIN inst /\ Range(loads[i].todo) \subseteq DOMAIN inst

\* A body that throws never runs to its end, and one that runs to its end had room.
Ended ==
  /\ \A m \in ran : HasRoom(m) /\ ~inst[m].code.throws
  /\ \A m \in threw : ~HasRoom(m) \/ inst[m].code.throws

\* The invariant, which every step keeps.
LInv == TypeOK /\ Named /\ Graphs /\ Stack /\ Ended

-----------------------------------------------------------------------------
(* The names of instances.                                                 *)

\* A list without its last element, and what a list begins with.
LEMMA Shortened ==
  ASSUME NEW S, NEW s \in Seq(S), s # << >>
  PROVE  /\ Len(s) \in Nat \ {0} /\ Len(s) \in DOMAIN s
         /\ SubSeq(s, 1, Len(s) - 1) \in Seq(S)
         /\ Len(SubSeq(s, 1, Len(s) - 1)) = Len(s) - 1
         /\ \A k \in DOMAIN SubSeq(s, 1, Len(s) - 1) :
              k \in DOMAIN s /\ SubSeq(s, 1, Len(s) - 1)[k] = s[k]
<1>1. PICK n \in Nat : n = Len(s) /\ n # 0
  OBVIOUS
<1>2. SubSeq(s, 1, n - 1) \in Seq(S) /\ Len(SubSeq(s, 1, n - 1)) = n - 1
  BY <1>1
<1>3. \A k \in 1..(n - 1) : SubSeq(s, 1, n - 1)[k] = s[k]
  BY <1>1
<1> QED
  BY <1>1, <1>2, <1>3

\* The name of an import is that of its importer and one number more.
LEMMA KidNames ==
  ASSUME NEW m \in Id, NEW k \in Nat \ {0}
  PROVE  /\ Append(m, k) \in Id /\ Append(m, k) # << >>
         /\ Len(m) \in Nat /\ Len(Append(m, k)) = Len(m) + 1
         /\ Append(m, k)[Len(m) + 1] = k
         /\ SubSeq(m, 1, Len(m)) = m
         /\ SubSeq(Append(m, k), 1, Len(m) + 1) = Append(m, k)
         /\ \A j \in 0..Len(m) : SubSeq(Append(m, k), 1, j) = SubSeq(m, 1, j)
         /\ \A j \in 1..Len(m) : Append(m, k)[j] = m[j]
<1>1. /\ Append(m, k) \in Id /\ Append(m, k) # << >>
      /\ Len(m) \in Nat /\ Len(Append(m, k)) = Len(m) + 1
      /\ Append(m, k)[Len(m) + 1] = k
      /\ \A j \in 1..Len(m) : Append(m, k)[j] = m[j]
  BY AppendProperties, LenProperties DEF Id
<1>2. SubSeq(m, 1, Len(m)) = m
  BY SubSeqFull DEF Id
<1>3. SubSeq(Append(m, k), 1, Len(m) + 1) = Append(m, k)
  BY <1>1, SubSeqFull DEF Id
<1>4. ASSUME NEW j \in 0..Len(m)
      PROVE  SubSeq(Append(m, k), 1, j) = SubSeq(m, 1, j)
  <2>1. \A i \in 1..j : m[i] \in Nat \ {0} /\ Append(m, k)[i] \in Nat \ {0}
    BY <1>1, <1>4, ElementOfSeq DEF Id
  <2>2. /\ SubSeq(Append(m, k), 1, j) \in Seq(Nat \ {0}) /\ SubSeq(m, 1, j) \in Seq(Nat \ {0})
        /\ Len(SubSeq(Append(m, k), 1, j)) = j /\ Len(SubSeq(m, 1, j)) = j
        /\ \A i \in 1..j : SubSeq(Append(m, k), 1, j)[i] = Append(m, k)[i]
        /\ \A i \in 1..j : SubSeq(m, 1, j)[i] = m[i]
    BY <1>1, <1>4, <2>1, SubSeqProperties
  <2> QED
    BY <1>1, <1>4, <2>2, SeqEqual
<1> QED
  BY <1>1, <1>2, <1>3, <1>4

\* Whoever imports an import is its importer.
LEMMA ImporterOfKid ==
  ASSUME NEW m \in Id, NEW k \in Nat \ {0}
  PROVE  Importer(Append(m, k)) = m
<1>1. Len(Append(m, k)) - 1 = Len(m) /\ Len(m) \in 0..Len(m)
  BY KidNames
<1> QED
  BY <1>1, KidNames DEF Importer

\* An instance other than the program is an import of its importer.
LEMMA NameOfKid ==
  ASSUME NEW n \in Id, n # << >>
  PROVE  /\ Importer(n) \in Id /\ Len(Importer(n)) = Len(n) - 1 /\ Len(n) \in Nat \ {0}
         /\ n[Len(n)] \in Nat \ {0} /\ n = Append(Importer(n), n[Len(n)])
<1>1. PICK m \in Seq(Nat \ {0}), k \in Nat \ {0} : n = Append(m, k)
  BY SequenceEmptyOrAppend DEF Id
<1>2. Importer(n) = m /\ m \in Id
  BY <1>1, ImporterOfKid DEF Id
<1>3. Len(n) = Len(m) + 1 /\ Len(m) \in Nat /\ n[Len(n)] = k
  BY <1>1, <1>2, KidNames
<1> QED
  BY <1>1, <1>2, <1>3

\* No two imports are one.
LEMMA KidsDiffer ==
  ASSUME NEW m \in Id, NEW k \in Nat \ {0}, NEW n \in Id, NEW j \in Nat \ {0},
         Append(m, k) = Append(n, j)
  PROVE  m = n /\ k = j
BY AppendInjective DEF Id

-----------------------------------------------------------------------------
(* Trees of static imports.                                                *)

\* The tree of a module has the module in it.
LEMMA InOwnTree ==
  ASSUME NEW m \in Id
  PROVE  InTree(m, m)
<1>1. Len(m) \in Nat /\ SubSeq(m, 1, Len(m)) = m
  BY SubSeqFull, LenProperties DEF Id
<1>2. Len(m)..(Len(m) - 1) = {}
  BY <1>1
<1> QED
  BY <1>1, <1>2 DEF InTree

\* The tree of a module has the imports of all that is in it.
LEMMA KidInTree ==
  ASSUME NEW m \in Id, NEW n \in Id, InTree(m, n), NEW k \in Nat \ {0}, k \in DOMAIN Imports(n)
  PROVE  InTree(m, Append(n, k))
<1>1. PICK x \in Id : x = Append(n, k)
  BY KidNames
<1>2. /\ Len(m) \in Nat /\ Len(n) \in Nat /\ Len(m) <= Len(n) /\ Len(x) = Len(n) + 1
      /\ x[Len(n) + 1] = k
      /\ SubSeq(n, 1, Len(n)) = n
      /\ \A j \in 0..Len(n) : SubSeq(x, 1, j) = SubSeq(n, 1, j)
      /\ \A j \in 1..Len(n) : x[j] = n[j]
  BY <1>1, KidNames, LenProperties DEF InTree, Id
<1>3. SubSeq(x, 1, Len(m)) = m
  BY <1>2 DEF InTree
<1>4. PICK a \in Nat, b \in Nat : a = Len(m) /\ b = Len(n) /\ a <= b /\ Len(x) = b + 1
  BY <1>2
<1>5. ASSUME NEW j \in a..b
      PROVE  x[j + 1] \in DOMAIN Imports(SubSeq(x, 1, j))
  <2>1. CASE j = b
    <3>1. SubSeq(x, 1, j) = n
      <4>1. j \in 0..b
        BY <2>1
      <4> QED
        BY <1>2, <1>4, <2>1, <4>1
    <3> QED
      BY <1>2, <1>4, <2>1, <3>1
  <2>2. CASE j # b
    <3>1. j \in a..(b - 1) /\ j \in 0..b /\ j + 1 \in 1..b
      BY <1>4, <1>5, <2>2
    <3> QED
      BY <1>2, <1>4, <3>1 DEF InTree
  <2> QED
    BY <2>1, <2>2
<1>6. Len(x) - 1 = b
  BY <1>4
<1> QED
  BY <1>1, <1>2, <1>3, <1>4, <1>5, <1>6, SMTT(30) DEF InTree

\* All others in a tree are imports of something in it.
LEMMA InTreeByImport ==
  ASSUME NEW m \in Id, NEW n \in Id, InTree(m, n), n # m
  PROVE  /\ n # << >> /\ InTree(m, Importer(n))
         /\ n[Len(n)] \in DOMAIN Imports(Importer(n))
<1>1. Len(m) \in Nat /\ Len(n) \in Nat /\ Len(m) <= Len(n) /\ SubSeq(n, 1, Len(m)) = m
  BY LenProperties DEF InTree, Id
<1>2. Len(m) < Len(n)
  <2>1. Len(m) # Len(n)
    BY <1>1, SubSeqFull DEF Id
  <2> QED
    BY <1>1, <2>1
<1>3. n # << >>
  BY <1>1, <1>2
<1>4. PICK p \in Id, k \in Nat \ {0} : p = Importer(n) /\ k = n[Len(n)] /\ n = Append(p, k)
  BY <1>3, NameOfKid
<1>5. /\ Len(p) \in Nat /\ Len(n) = Len(p) + 1
      /\ SubSeq(n, 1, Len(p)) = p
      /\ \A j \in 0..Len(p) : SubSeq(n, 1, j) = SubSeq(p, 1, j)
      /\ \A j \in 1..Len(p) : n[j] = p[j]
  <2>1. Len(p) \in Nat /\ Len(n) = Len(p) + 1 /\ SubSeq(p, 1, Len(p)) = p
    BY <1>4, KidNames
  <2>2. SubSeq(Append(p, k), 1, Len(p)) = SubSeq(p, 1, Len(p))
    <3>1. Len(p) \in 0..Len(p)
      BY <2>1
    <3> QED
      BY <3>1, KidNames
  <2>3. \A j \in 0..Len(p) : SubSeq(Append(p, k), 1, j) = SubSeq(p, 1, j)
    BY KidNames
  <2>4. \A j \in 1..Len(p) : Append(p, k)[j] = p[j]
    BY KidNames
  <2> QED
    BY <1>4, <2>1, <2>2, <2>3, <2>4
<1>6. k \in DOMAIN Imports(p)
  <2>1. Len(p) \in Len(m)..(Len(n) - 1)
    BY <1>1, <1>2, <1>5
  <2> QED
    BY <1>4, <1>5, <2>1 DEF InTree
<1>7. InTree(m, p)
  <2>1. Len(m) <= Len(p) /\ SubSeq(p, 1, Len(m)) = m
    BY <1>1, <1>2, <1>5
  <2>2. ASSUME NEW j \in Len(m)..(Len(p) - 1)
        PROVE  p[j + 1] \in DOMAIN Imports(SubSeq(p, 1, j))
    <3>1. j \in Len(m)..(Len(n) - 1) /\ j \in 0..Len(p) /\ j + 1 \in 1..Len(p)
      BY <1>1, <1>5, <2>2
    <3> QED
      BY <1>5, <3>1 DEF InTree
  <2> QED
    BY <2>1, <2>2 DEF InTree
<1> QED
  BY <1>3, <1>4, <1>6, <1>7

-----------------------------------------------------------------------------
(* What was compiled.                                                      *)

\* What matters of a source that was compiled.
LEMMA Code ==
  ASSUME NEW c \in Contents \cup {Empty}
  PROVE  /\ c \in Source /\ c.imports \in Seq([name: Names, named: BOOLEAN])
         /\ DOMAIN c.imports = 1..Len(c.imports) /\ Len(c.imports) \in Nat
         /\ c.body \in Seq(Names \cup {Await})
<1>1. Empty \in Source
  <2>1. << >> \in Seq([name: Names, named: BOOLEAN]) /\ << >> \in Seq(Names \cup {Await})
    OBVIOUS
  <2> QED
    BY <2>1 DEF Empty, Source
<1>2. c \in Source
  BY <1>1, LoaderAssumption
<1>3. c.imports \in Seq([name: Names, named: BOOLEAN]) /\ c.body \in Seq(Names \cup {Await})
  BY <1>2 DEF Source
<1> QED
  BY <1>2, <1>3, LenProperties

\* What matters of the source of an instance.
LEMMA Sources ==
  ASSUME TypeOK, NEW m \in DOMAIN inst
  PROVE  /\ m \in Id /\ inst[m].code \in Source
         /\ Imports(m) \in Seq([name: Names, named: BOOLEAN])
         /\ DOMAIN Imports(m) = 1..Len(Imports(m)) /\ Len(Imports(m)) \in Nat
         /\ Body(m) \in Seq(Names \cup {Await})
<1>1. inst[m].code \in Contents \cup {Empty} /\ m \in Id
  BY DEF TypeOK
<1> QED
  BY <1>1, Code DEF Imports, Body

\* The instance that LoadModule makes is the only one it changes.
LEMMA Loaded ==
  ASSUME TypeOK, NEW x \in Id, x \notin DOMAIN inst, NEW q \in Paths, LoadModule(x, q)
  PROVE  /\ DOMAIN inst' = DOMAIN inst \cup {x}
         /\ \A m \in DOMAIN inst : inst'[m] = inst[m]
         /\ inst'[x].code = Read(q)
         /\ inst' \in [DOMAIN inst' -> [path: Paths, code: Contents \cup {Empty}]]
         /\ status' \in {status, "exit 1"}
         /\ status' = "running" => status = "running" /\ inst'[x].code.valid
<1>1. Read(q) \in Contents \cup {Empty}
  BY DEF Read, TypeOK
<1>2. inst \in [DOMAIN inst -> [path: Paths, code: Contents \cup {Empty}]]
  BY DEF TypeOK
<1>3. inst' = [y \in DOMAIN inst \cup {x} |->
                 IF y = x THEN [path |-> q, code |-> Read(q)] ELSE inst[y]]
  BY DEF LoadModule
<1>4. /\ DOMAIN inst' = DOMAIN inst \cup {x}
      /\ \A m \in DOMAIN inst : inst'[m] = inst[m]
      /\ inst'[x].code = Read(q)
  BY <1>3
<1>5. inst' \in [DOMAIN inst' -> [path: Paths, code: Contents \cup {Empty}]]
  <2>1. ASSUME NEW y \in DOMAIN inst'
        PROVE  inst'[y] \in [path: Paths, code: Contents \cup {Empty}]
    BY <1>1, <1>2, <1>3, <2>1
  <2>2. inst' = [y \in DOMAIN inst' |-> inst'[y]]
    BY <1>3
  <2> QED
    BY <2>1, <2>2
<1>6. /\ status' \in {status, "exit 1"}
      /\ status' = "running" => status = "running" /\ Read(q).valid
  BY DEF LoadModule
<1> QED
  BY <1>4, <1>5, <1>6

\* A new instance x, beside those there are.
Grown(x) ==
  /\ x \in Id /\ x # << >> /\ x \notin DOMAIN inst /\ DOMAIN inst' = DOMAIN inst \cup {x}
  /\ \A m \in DOMAIN inst : inst'[m] = inst[m]

\* An instance stays what it is, and stays linked.
LEMMA StaysLinked ==
  ASSUME NEW x, Grown(x), NEW m \in DOMAIN inst
  PROVE  /\ inst'[m] = inst[m] /\ m \in DOMAIN inst'
         /\ Imports(m)' = Imports(m) /\ Body(m)' = Body(m)
         /\ Resolved(m) => Resolved(m)'
         /\ Linked(m) => Linked(m)'
<1>1. inst'[m] = inst[m] /\ m \in DOMAIN inst' /\ DOMAIN inst \subseteq DOMAIN inst'
  BY DEF Grown
<1>2. Imports(m)' = Imports(m) /\ Body(m)' = Body(m)
  BY <1>1 DEF Imports, Body
<1>3. Resolved(m) => Resolved(m)'
  BY <1>1, <1>2 DEF Resolved
<1>4. Resolved(m) /\ NamesResolve(m) => NamesResolve(m)'
  BY <1>1, <1>2 DEF Resolved, NamesResolve, Grown
<1> QED
  BY <1>1, <1>2, <1>3, <1>4 DEF Linked

\* Whose import something is does not change as long as its importers stay.
LEMMA SamePlace ==
  ASSUME TypeOK, NEW x, Grown(x), NEW r \in Id, r # << >>, NEW n \in Id,
         \A k \in 1..(Len(n) - 1) : SubSeq(n, 1, k) \in DOMAIN inst
  PROVE  InTree(r, n)' <=> InTree(r, n)
<1>1. Len(r) \in Nat \ {0} /\ Len(n) \in Nat
  BY Shortened, LenProperties DEF Id
<1>2. ASSUME NEW k \in Len(r)..(Len(n) - 1)
      PROVE  Imports(SubSeq(n, 1, k))' = Imports(SubSeq(n, 1, k))
  <2>1. k \in 1..(Len(n) - 1)
    BY <1>1, <1>2
  <2>2. SubSeq(n, 1, k) \in DOMAIN inst
    BY <2>1
  <2> QED
    BY <2>2, StaysLinked
<1> QED
  BY <1>2 DEF InTree

-----------------------------------------------------------------------------
(* How instances come into being.                                          *)

\* The next static import of an instance is new, and those before it are there.
LEMMA NextImportIsNew ==
  ASSUME TypeOK, Named, NEW m \in DOMAIN inst, NEW k,
         k = Cardinality({j \in DOMAIN Imports(m) : Append(m, j) \in DOMAIN inst}) + 1,
         k <= Len(Imports(m))
  PROVE  /\ k \in DOMAIN Imports(m) /\ k \in Nat \ {0} /\ Append(m, k) \notin DOMAIN inst
         /\ \A j \in 1..(k - 1) : Append(m, j) \in DOMAIN inst
<1> DEFINE There == {j \in DOMAIN Imports(m) : Append(m, j) \in DOMAIN inst}
<1>1. PICK l \in Nat : l = Len(Imports(m)) /\ DOMAIN Imports(m) = 1..l
  BY Sources
<1>2. IsFiniteSet(There) /\ There \in SUBSET (1..l)
  <2>1. There \in SUBSET (1..l) /\ IsFiniteSet(1..l)
    BY <1>1, FS_Interval
  <2> QED
    BY <2>1, FS_Subset
<1>3. PICK c \in Nat : c = Cardinality(There) /\ k = c + 1
  BY <1>2, FS_CardinalityType
<1>4. k \in DOMAIN Imports(m) /\ k \in Nat \ {0} /\ k \in 1..l
  BY <1>1, <1>3
<1>5. ASSUME NEW j \in There
      PROVE  1..j \subseteq There
  <2>1. j \in Nat \ {0} /\ j \in DOMAIN Imports(m) /\ j \in 1..l
    BY <1>1, <1>5
  <2>2. \A i \in 1..j : Append(m, i) \in DOMAIN inst
    BY <1>5, <2>1 DEF Named
  <2>3. 1..j \subseteq 1..l
    BY <2>1
  <2> QED
    BY <1>1, <2>2, <2>3
<1>6. k \notin There
  <2> SUFFICES ASSUME k \in There PROVE FALSE
    OBVIOUS
  <2>1. 1..k \in SUBSET There
    BY <1>5
  <2>2. Cardinality(1..k) = k
    BY <1>3, FS_Interval
  <2>3. Cardinality(1..k) <= Cardinality(There)
    BY <1>2, <2>1, FS_Subset
  <2> QED
    BY <1>3, <2>2, <2>3
<1>7. ASSUME NEW j \in 1..(k - 1)
      PROVE  j \in There
  <2> SUFFICES ASSUME j \notin There PROVE FALSE
    OBVIOUS
  <2>1. j \in Nat /\ j - 1 \in Nat /\ j <= c /\ 0 < j
    BY <1>3, <1>7
  <2>2. ASSUME NEW i \in There
        PROVE  i \in 1..(j - 1)
    <3>1. j \notin 1..i /\ i \in 1..l
      BY <1>2, <1>5
    <3> QED
      BY <2>1, <3>1
  <2>3. There \subseteq 1..(j - 1)
    BY <2>2
  <2>6. IsFiniteSet(1..(j - 1))
    BY <2>1, FS_Interval
  <2>4. Cardinality(There) <= Cardinality(1..(j - 1))
    BY <2>3, <2>6, FS_Subset
  <2>5. Cardinality(1..(j - 1)) = j - 1
    BY <2>1, FS_Interval
  <2> QED
    BY <1>3, <2>1, <2>4, <2>5
<1>8. Append(m, k) \notin DOMAIN inst
  BY <1>4, <1>6
<1> QED
  BY <1>4, <1>7, <1>8

\* An import is there only if its importer is.
LEMMA ImporterThere ==
  ASSUME Named, NEW n \in Id, n # << >>, NEW i \in Nat \ {0}, Append(n, i) \in DOMAIN inst
  PROVE  n \in DOMAIN inst
<1>1. /\ Len(n) \in Nat /\ Len(Append(n, i)) = Len(n) + 1 /\ SubSeq(n, 1, Len(n)) = n
      /\ SubSeq(Append(n, i), 1, Len(n)) = SubSeq(n, 1, Len(n))
  <2>1. Len(n) \in 0..Len(n)
    BY KidNames
  <2> QED
    BY <2>1, KidNames
<1>2. Len(n) \in Nat \ {0}
  BY Shortened DEF Id
<1>3. Len(n) \in 1..Len(Append(n, i))
  BY <1>1, <1>2
<1> QED
  BY <1>1, <1>3 DEF Named

\* Evaluation only goes on.
Onward == begun \subseteq begun' /\ \A m \in begun : at[m] <= at'[m]

\* A new import, in its place.
LEMMA NamedGrows ==
  ASSUME TypeOK, Named, TypeOK', Onward, NEW m \in DOMAIN inst, NEW k \in Nat \ {0},
         NEW x, x = Append(m, k), Grown(x),
         IF k \in DOMAIN Imports(m)
         THEN \A j \in 1..(k - 1) : Append(m, j) \in DOMAIN inst
         ELSE m \in begun' /\ k <= Len(Imports(m)) + at'[m]
  PROVE  Named'
<1>1. m \in Id /\ x \in Id /\ DOMAIN inst \subseteq Id /\ DOMAIN inst' = DOMAIN inst \cup {x}
      /\ x \notin DOMAIN inst
  BY DEF TypeOK, Grown
<1>2. ASSUME NEW n \in DOMAIN inst'
      PROVE  n # << >> /\ \A i \in 1..Len(n) : SubSeq(n, 1, i) \in DOMAIN inst'
  <2>1. CASE n \in DOMAIN inst
    BY <1>1, <2>1 DEF Named
  <2>2. CASE n = x
    <3>1. /\ Len(m) \in Nat /\ Len(x) = Len(m) + 1 /\ SubSeq(x, 1, Len(m) + 1) = x
          /\ \A j \in 0..Len(m) : SubSeq(x, 1, j) = SubSeq(m, 1, j)
      BY <1>1, KidNames, ZenonT(40)
    <3>2. PICK l \in Nat : l = Len(m) /\ Len(x) = l + 1
      BY <3>1
    <3>3. ASSUME NEW i \in 1..Len(n)
          PROVE  SubSeq(n, 1, i) \in DOMAIN inst'
      <4>1. CASE i = l + 1
        BY <1>1, <2>2, <3>1, <3>2, <4>1
      <4>2. CASE i # l + 1
        <5>1. i \in 1..l /\ i \in 0..l
          BY <2>2, <3>2, <3>3, <4>2
        <5>2. SubSeq(x, 1, i) = SubSeq(m, 1, i)
          BY <3>1, <3>2, <5>1
        <5>3. SubSeq(m, 1, i) \in DOMAIN inst
          BY <3>2, <5>1 DEF Named
        <5> QED
          BY <1>1, <2>2, <5>2, <5>3
      <4> QED
        BY <4>1, <4>2
    <3> QED
      BY <2>2, <3>3 DEF Grown
  <2> QED
    BY <1>1, <2>1, <2>2
<1>3. ASSUME NEW n \in DOMAIN inst', NEW i \in Nat \ {0}, Append(n, i) \in DOMAIN inst'
      PROVE  IF i \in DOMAIN Imports(n)'
             THEN \A j \in 1..i : Append(n, j) \in DOMAIN inst'
             ELSE n \in begun' /\ i <= Len(Imports(n)') + at'[n]
  <2>1. CASE Append(n, i) = x
    <3>1. n = m /\ i = k
      BY <1>1, <2>1, KidsDiffer
    <3>2. Imports(m)' = Imports(m)
      BY StaysLinked
    <3>3. ASSUME NEW j \in 1..k, \A h \in 1..(k - 1) : Append(m, h) \in DOMAIN inst
          PROVE  Append(m, j) \in DOMAIN inst'
      <4>1. j = k \/ j \in 1..(k - 1)
        OBVIOUS
      <4> QED
        BY <1>1, <3>3, <4>1
    <3> QED
      BY <3>1, <3>2, <3>3
  <2>2. CASE Append(n, i) \in DOMAIN inst
    <3>1. n \in DOMAIN inst
      <4>1. n \in Id /\ n # << >>
        BY <1>1, <1>2
      <4> QED
        BY <2>2, <4>1, ImporterThere
    <3>2. Imports(n)' = Imports(n)
      BY <3>1, StaysLinked
    <3>3. CASE i \in DOMAIN Imports(n)
      <4>1. \A j \in 1..i : Append(n, j) \in DOMAIN inst
        BY <2>2, <3>1, <3>3 DEF Named
      <4> QED
        BY <1>1, <3>2, <3>3, <4>1
    <3>4. CASE i \notin DOMAIN Imports(n)
      <4>1. n \in begun /\ i <= Len(Imports(n)) + at[n]
        BY <2>2, <3>1, <3>4 DEF Named
      <4>2. n \in begun' /\ at[n] <= at'[n] /\ at[n] \in Nat /\ at'[n] \in Nat
        BY <4>1 DEF Onward, TypeOK
      <4>3. Len(Imports(n)) \in Nat
        BY <3>1, Sources
      <4> QED
        BY <3>2, <3>4, <4>1, <4>2, <4>3
    <3> QED
      BY <3>3, <3>4
  <2> QED
    BY <1>1, <1>3, <2>1, <2>2
<1> QED
  BY <1>2, <1>3 DEF Named

\* Names stay what they are where no instance is made.
LEMMA NamedStays ==
  ASSUME TypeOK, Named, TypeOK', Onward, UNCHANGED inst
  PROVE  Named'
<1>1. ASSUME NEW m \in DOMAIN inst, NEW k \in Nat \ {0}, Append(m, k) \in DOMAIN inst,
             k \notin DOMAIN Imports(m)
      PROVE  m \in begun' /\ k <= Len(Imports(m)) + at'[m]
  <2>1. m \in begun /\ k <= Len(Imports(m)) + at[m]
    BY <1>1 DEF Named
  <2>2. m \in begun' /\ at[m] <= at'[m] /\ at[m] \in Nat /\ at'[m] \in Nat
    BY <2>1 DEF Onward, TypeOK
  <2>3. Len(Imports(m)) \in Nat
    BY Sources
  <2> QED
    BY <2>1, <2>2, <2>3
<1>2. \A m \in DOMAIN inst : Imports(m)' = Imports(m)
  BY DEF Imports
<1> QED
  BY <1>1, <1>2 DEF Named

-----------------------------------------------------------------------------
(* Lists of what is to be done.                                            *)

\* What two lists have, one behind the other.
LEMMA Joined ==
  ASSUME NEW S, NEW s \in Seq(S), NEW t \in Seq(S)
  PROVE  s \o t \in Seq(S) /\ Range(s \o t) = Range(s) \cup Range(t)
<1>1. /\ Len(s) \in Nat /\ DOMAIN s = 1..Len(s)
      /\ Len(t) \in Nat /\ DOMAIN t = 1..Len(t)
  BY LenProperties
<1>2. PICK a \in Nat, b \in Nat : a = Len(s) /\ b = Len(t)
  BY <1>1
<1>3. /\ s \o t \in Seq(S) /\ DOMAIN (s \o t) = 1..(a + b)
      /\ \A i \in 1..(a + b) : (s \o t)[i] = IF i <= a THEN s[i] ELSE t[i - a]
  BY <1>2, ConcatProperties, LenProperties
<1>4. Range(s \o t) = Range(s) \cup Range(t)
  <2>1. ASSUME NEW i \in 1..(a + b)
        PROVE  (s \o t)[i] \in Range(s) \cup Range(t)
    <3>1. CASE i <= a
      <4>1. i \in 1..a
        BY <2>1, <3>1
      <4> QED
        BY <1>1, <1>2, <1>3, <3>1, <4>1 DEF Range
    <3>2. CASE ~(i <= a)
      <4>1. i - a \in 1..b
        BY <2>1, <3>2
      <4>2. (s \o t)[i] = t[i - a]
        BY <1>3, <2>1, <3>2
      <4> QED
        BY <1>1, <1>2, <4>1, <4>2 DEF Range
    <3> QED
      BY <3>1, <3>2
  <2>2. ASSUME NEW i \in 1..a
        PROVE  s[i] \in Range(s \o t)
    <3>1. i \in 1..(a + b) /\ i <= a
      BY <2>2
    <3> QED
      BY <1>3, <3>1 DEF Range
  <2>3. ASSUME NEW i \in 1..b
        PROVE  t[i] \in Range(s \o t)
    <3>1. i + a \in 1..(a + b) /\ ~(i + a <= a) /\ (i + a) - a = i
      BY <2>3
    <3>2. (s \o t)[i + a] = t[i]
      BY <1>3, <3>1
    <3> QED
      BY <1>3, <3>1, <3>2 DEF Range
  <2>4. Range(s \o t) \subseteq Range(s) \cup Range(t)
    BY <1>3, <2>1 DEF Range
  <2>5. Range(s) \subseteq Range(s \o t)
    BY <1>1, <1>2, <2>2 DEF Range
  <2>6. Range(t) \subseteq Range(s \o t)
    BY <1>1, <1>2, <2>3 DEF Range
  <2> QED
    BY <2>4, <2>5, <2>6
<1> QED
  BY <1>3, <1>4

\* What a list has, and has without its head.
LEMMA Elements ==
  ASSUME NEW S, NEW s \in Seq(S)
  PROVE  /\ Range(s) \subseteq S /\ Range(<< >>) = {}
         /\ s # << >> => /\ Head(s) \in S /\ Tail(s) \in Seq(S)
                         /\ Range(s) = {Head(s)} \cup Range(Tail(s))
<1>1. /\ Len(s) \in Nat /\ DOMAIN s = 1..Len(s) /\ \A i \in 1..Len(s) : s[i] \in S
  BY LenProperties
<1>2. PICK a \in Nat : a = Len(s)
  BY <1>1
<1>3. Range(s) \subseteq S /\ Range(<< >>) = {}
  BY <1>1 DEF Range
<1>4. ASSUME s # << >>
      PROVE  /\ Head(s) \in S /\ Tail(s) \in Seq(S)
             /\ Range(s) = {Head(s)} \cup Range(Tail(s))
  <2>1. /\ Head(s) \in S /\ Tail(s) \in Seq(S) /\ Head(s) = s[1]
        /\ DOMAIN Tail(s) = 1..(a - 1) /\ a # 0
        /\ \A i \in 1..(a - 1) : Tail(s)[i] = s[i + 1]
    <3>1. /\ Head(s) \in S /\ Tail(s) \in Seq(S) /\ Head(s) = s[1]
          /\ Len(Tail(s)) = Len(s) - 1 /\ Len(s) # 0
          /\ \A i \in 1..Len(Tail(s)) : Tail(s)[i] = s[i + 1]
      BY <1>4, HeadTailProperties, EmptySeq
    <3> QED
      BY <1>2, <3>1, LenProperties
  <2>2. ASSUME NEW i \in 1..a
        PROVE  s[i] \in {Head(s)} \cup Range(Tail(s))
    <3>1. CASE i = 1
      BY <2>1, <3>1
    <3>2. CASE i # 1
      <4>1. i - 1 \in 1..(a - 1) /\ (i - 1) + 1 = i
        BY <2>2, <3>2
      <4>2. Tail(s)[i - 1] = s[i]
        BY <2>1, <4>1
      <4> QED
        BY <2>1, <4>1, <4>2 DEF Range
    <3> QED
      BY <3>1, <3>2
  <2>3. ASSUME NEW i \in 1..(a - 1)
        PROVE  Tail(s)[i] \in Range(s)
    <3>1. i + 1 \in 1..a
      BY <2>3
    <3> QED
      BY <1>1, <1>2, <2>1, <2>3, <3>1 DEF Range
  <2>4. Head(s) \in Range(s)
    <3>1. 1 \in 1..a
      BY <2>1
    <3> QED
      BY <1>1, <1>2, <2>1, <3>1 DEF Range
  <2>5. Range(Tail(s)) \subseteq Range(s)
    BY <2>1, <2>3 DEF Range
  <2>6. Range(s) \subseteq {Head(s)} \cup Range(Tail(s))
    BY <1>1, <1>2, <2>2 DEF Range
  <2> QED
    BY <2>1, <2>4, <2>5, <2>6
<1> QED
  BY <1>3, <1>4

\* A list of one.
LEMMA OneElement ==
  ASSUME NEW S, NEW x \in S
  PROVE  <<x>> \in Seq(S) /\ Range(<<x>>) = {x}
<1>1. <<x>> \in Seq(S) /\ DOMAIN <<x>> = {1} /\ <<x>>[1] = x
  OBVIOUS
<1> QED
  BY <1>1 DEF Range

\* The imports of an instance.
LEMMA KidsOf ==
  ASSUME TypeOK, NEW m \in DOMAIN inst
  PROVE  /\ Kids(m) \in Seq(Id)
         /\ Range(Kids(m)) = {Append(m, k) : k \in DOMAIN Imports(m)}
<1>1. PICK l \in Nat : DOMAIN Imports(m) = 1..l /\ m \in Id
  BY Sources
<1>2. Kids(m) = [k \in 1..l |-> Append(m, k)]
  BY <1>1 DEF Kids
<1>3. \A k \in 1..l : Append(m, k) \in Id
  BY <1>1, KidNames
<1>4. Kids(m) \in [1..l -> Id]
  BY <1>2, <1>3
<1>5. Kids(m) \in Seq(Id)
  BY <1>4, SeqDef
<1> QED
  BY <1>1, <1>2, <1>5 DEF Range

\* A load.
Graph == [root: Id, phase: {"link", "evaluate", "drain"}, todo: Seq(Id)]

\* The load in progress, and what it has still to do.
LEMMA TopOfStack ==
  ASSUME TypeOK, Stack, loads # << >>
  PROVE  /\ Len(loads) \in Nat \ {0} /\ Len(loads) \in DOMAIN loads
         /\ DOMAIN loads = 1..Len(loads)
         /\ Top \in Graph /\ Top.todo \in Seq(Id)
         /\ Top.root \in DOMAIN inst /\ Range(Top.todo) \subseteq DOMAIN inst
         /\ Top.todo # << >> => Head(Top.todo) \in DOMAIN inst
                                /\ Head(Top.todo) \in Range(Top.todo)
<1>1. loads \in Seq(Graph)
  BY DEF TypeOK, Graph
<1>2. Len(loads) \in Nat \ {0} /\ Len(loads) \in DOMAIN loads /\ DOMAIN loads = 1..Len(loads)
  BY <1>1, Shortened, LenProperties
<1>3. Top \in Graph
  BY <1>1, <1>2, ElementOfSeq DEF Top
<1>4. Top.todo \in Seq(Id)
  BY <1>3 DEF Graph
<1>5. Top.root \in DOMAIN inst /\ Range(Top.todo) \subseteq DOMAIN inst
  BY <1>2 DEF Stack, Top
<1>6. Top.todo # << >> => Head(Top.todo) \in Range(Top.todo)
  BY <1>4, Elements
<1> QED
  BY <1>2, <1>3, <1>4, <1>5, <1>6

-----------------------------------------------------------------------------
(* Trees that grow.                                                        *)

\* A new instance comes into the trees of all it is an import of, and no other does.
LEMMA TreeGrows ==
  ASSUME TypeOK, Named, TypeOK', Named', NEW x, Grown(x), NEW r \in DOMAIN inst
  PROVE  Tree(r)' = Tree(r) \cup (IF InTree(r, x) THEN {x} ELSE {})
<1>1. /\ r \in Id /\ r # << >> /\ x \in Id /\ DOMAIN inst \subseteq Id
      /\ DOMAIN inst' = DOMAIN inst \cup {x} /\ x \notin DOMAIN inst
  BY DEF Grown, TypeOK, Named
<1>2. ASSUME NEW n \in DOMAIN inst
      PROVE  InTree(r, n)' <=> InTree(r, n)
  <2>1. n \in Id /\ Len(n) \in Nat
    BY <1>1, LenProperties DEF Id
  <2>2. \A k \in 1..(Len(n) - 1) : k \in 1..Len(n)
    BY <2>1
  <2>3. \A k \in 1..(Len(n) - 1) : SubSeq(n, 1, k) \in DOMAIN inst
    BY <2>2 DEF Named
  <2> QED
    BY <1>1, <2>1, <2>3, SamePlace
<1>3. InTree(r, x)' <=> InTree(r, x)
  <2>1. PICK l \in Nat \ {0} : l = Len(x)
    BY <1>1, Shortened DEF Grown, Id
  <2>2. ASSUME NEW k \in 1..(Len(x) - 1)
        PROVE  SubSeq(x, 1, k) \in DOMAIN inst
    <3>1. k \in 1..l /\ k # l
      BY <2>1, <2>2
    <3>2. SubSeq(x, 1, k) \in DOMAIN inst'
      BY <1>1, <2>1, <3>1 DEF Named
    <3>3. SubSeq(x, 1, k) # x
      <4>1. \A i \in 1..k : x[i] \in Nat \ {0}
        BY <1>1, <2>1, <3>1, ElementOfSeq DEF Id
      <4>2. Len(SubSeq(x, 1, k)) = k
        BY <3>1, <4>1, SubSeqProperties
      <4> QED
        BY <2>1, <3>1, <4>2
    <3> QED
      BY <1>1, <3>2, <3>3
  <2> QED
    BY <1>1, <2>2, SamePlace
<1>4. Tree(r)' = {n \in DOMAIN inst' : InTree(r, n)'}
  BY DEF Tree
<1> QED
  BY <1>1, <1>2, <1>3, <1>4 DEF Tree

\* The tree of a new instance has nothing else in it.
LEMMA FreshTree ==
  ASSUME TypeOK, Named, NEW x, Grown(x)
  PROVE  Tree(x)' = {x}
<1>1. PICK l \in Nat \ {0} : l = Len(x) /\ SubSeq(x, 1, l) = x
  BY SubSeqFull, Shortened DEF Grown, Id
<1>2. l..(l - 1) = {}
  BY <1>1
<1>3. InTree(x, x)'
  BY <1>1, <1>2 DEF InTree
<1>4. ASSUME NEW n \in DOMAIN inst
      PROVE  ~InTree(x, n)'
  <2> SUFFICES ASSUME Len(x) <= Len(n), SubSeq(n, 1, Len(x)) = x PROVE FALSE
    BY DEF InTree
  <2>1. Len(n) \in Nat
    BY LenProperties DEF TypeOK, Id
  <2>2. Len(x) \in 1..Len(n)
    BY <1>1, <2>1
  <2>3. SubSeq(n, 1, Len(x)) \in DOMAIN inst
    BY <2>2 DEF Named
  <2> QED
    BY <2>3 DEF Grown
<1>5. Tree(x)' = {n \in DOMAIN inst' : InTree(x, n)'}
  BY DEF Tree
<1> QED
  BY <1>3, <1>4, <1>5 DEF Grown

-----------------------------------------------------------------------------
(* Every step keeps the invariant.                                         *)

\* ResolveModuleCallback makes the next import of a module that is being linked.
LEMMA ResolveKeeps ==
  ASSUME LInv, ResolveModuleCallback
  PROVE  LInv' /\ \E x : Grown(x)
<1>1. TypeOK /\ Named /\ Graphs /\ Stack /\ Ended
  BY DEF LInv
<1>2. /\ status = "running" /\ loads # << >> /\ Top.phase = "link" /\ Top.todo # << >>
      /\ UNCHANGED <<loads, at, jobs, ran, threw, promise, world>>
  BY DEF ResolveModuleCallback, Working
<1>3. PICK m \in DOMAIN inst, r \in DOMAIN inst :
        m = Head(Top.todo) /\ m \in Range(Top.todo) /\ r = Top.root
  BY <1>1, <1>2, TopOfStack
<1>4. PICK k :
        /\ k = Cardinality({j \in DOMAIN Imports(m) : Append(m, j) \in DOMAIN inst}) + 1
        /\ k <= Len(Imports(m))
        /\ LoadModule(Append(m, k), <<folder, Imports(m)[k].name>>)
  BY <1>3 DEF ResolveModuleCallback
<1>5. /\ k \in DOMAIN Imports(m) /\ k \in Nat \ {0} /\ Append(m, k) \notin DOMAIN inst
      /\ \A j \in 1..(k - 1) : Append(m, j) \in DOMAIN inst
  BY <1>1, <1>4, NextImportIsNew
<1>6. PICK x \in Id : x = Append(m, k) /\ x # << >> /\ Importer(x) = m
  <2>1. m \in Id
    BY <1>1 DEF TypeOK
  <2>2. Append(m, k) \in Id /\ Append(m, k) # << >>
    BY <1>5, <2>1, KidNames
  <2>3. Importer(Append(m, k)) = m
    BY <1>5, <2>1, ImporterOfKid
  <2> QED
    BY <2>2, <2>3
<1>7. <<folder, Imports(m)[k].name>> \in Paths
  <2>1. Imports(m)[k] \in [name: Names, named: BOOLEAN]
    BY <1>1, <1>5, Sources, ElementOfSeq
  <2> QED
    BY <1>1, <2>1 DEF TypeOK, Paths
<1>8. /\ DOMAIN inst' = DOMAIN inst \cup {x} /\ \A n \in DOMAIN inst : inst'[n] = inst[n]
      /\ inst' \in [DOMAIN inst' -> [path: Paths, code: Contents \cup {Empty}]]
      /\ status' \in {status, "exit 1"}
      /\ status' = "running" => inst'[x].code.valid
  BY <1>1, <1>4, <1>5, <1>6, <1>7, Loaded
<1>9. Grown(x)
  BY <1>5, <1>6, <1>8 DEF Grown
<1>10. TypeOK'
  <2>1. begun' = begun
    BY <1>2 DEF begun
  <2> QED
    BY <1>1, <1>2, <1>6, <1>8, <2>1 DEF TypeOK, world
<1>11. Onward
  <2>1. begun' = begun /\ at' = at
    BY <1>2 DEF begun
  <2>2. \A n \in begun : at[n] \in Nat
    BY <1>1 DEF TypeOK
  <2> QED
    BY <2>1, <2>2 DEF Onward
<1>12. Named'
  BY <1>1, <1>5, <1>6, <1>9, <1>10, <1>11, NamedGrows
<1>13. Graphs'
  <2>1. Top' = Top /\ begun' = begun /\ Linking /\ Linking'
    BY <1>2 DEF Top, begun, Linking
  <2>2. m \in Tree(r)
    BY <1>1, <1>3, <2>1 DEF Graphs
  <2>3. InTree(r, x)
    BY <1>1, <1>5, <1>6, <2>2, KidInTree DEF Tree, TypeOK
  <2>4. Tree(r)' = Tree(r) \cup {x}
    BY <1>1, <1>9, <1>10, <1>12, <2>3, TreeGrows
  <2>5. Tree(Top.root)' = Tree(r)'
    BY <1>3, <2>1 DEF Tree, InTree
  <2>6. status' = "running" => \A n \in DOMAIN inst' : inst'[n].code.valid
    BY <1>1, <1>2, <1>8 DEF Graphs
  <2>7. \A n \in DOMAIN inst' : Linked(n)' \/ n \in Tree(r)'
    BY <1>1, <1>3, <1>8, <1>9, <2>4, StaysLinked DEF Graphs
  <2>8. begun' \cap Tree(r)' = {}
    <3>1. x \notin begun
      BY <1>1, <1>9 DEF Grown, TypeOK
    <3> QED
      BY <1>1, <1>3, <2>1, <2>4, <3>1 DEF Graphs
  <2>9. Range(Top.todo)' \subseteq Tree(r)'
    BY <1>1, <1>3, <2>1, <2>4 DEF Graphs, Range
  <2>10. ASSUME NEW n \in Tree(r)'
         PROVE  \/ Resolved(n)' \/ n \in Range(Top.todo)'
                \/ Top'.todo # << >> /\ n # r /\ Importer(n) = Head(Top'.todo)
    <3>1. CASE n \in Tree(r)
      <4>1. n \in DOMAIN inst
        BY <3>1 DEF Tree
      <4> QED
        BY <1>1, <1>3, <1>9, <2>1, <3>1, <4>1, StaysLinked DEF Graphs, Range
    <3>2. CASE n = x
      BY <1>2, <1>3, <1>6, <1>9, <2>1, <3>2 DEF Grown
    <3> QED
      BY <2>4, <3>1, <3>2
  <2>11. ASSUME NEW n \in DOMAIN inst', NEW j \in DOMAIN Imports(n)', r = Append(n, j)
         PROVE  FALSE
    <3>1. CASE n \in DOMAIN inst
      <4>1. j \in DOMAIN Imports(n)
        BY <1>9, <2>11, <3>1, StaysLinked
      <4> QED
        BY <1>1, <1>3, <2>1, <2>11, <3>1, <4>1 DEF Graphs
    <3>2. CASE n = x
      <4>1. j \in Nat \ {0}
        <5>1. PICK c \in Contents \cup {Empty} : c = inst'[x].code
          BY <1>8
        <5>2. j \in DOMAIN c.imports
          BY <2>11, <3>2, <5>1 DEF Imports
        <5>3. PICK l \in Nat : DOMAIN c.imports = 1..l
          BY Code
        <5> QED
          BY <5>2, <5>3
      <4> QED
        BY <1>1, <1>6, <1>9, <2>11, <3>2, <4>1, ImporterThere DEF Grown
    <3> QED
      BY <1>8, <3>1, <3>2
  <2> QED
    BY <1>3, <2>1, <2>5, <2>6, <2>7, <2>8, <2>9, <2>10, <2>11 DEF Graphs
<1>14. Stack'
  BY <1>1, <1>2, <1>8 DEF Stack
<1>15. Ended'
  <2>1. \A n \in ran \cup threw : n \in DOMAIN inst
    BY <1>1 DEF TypeOK
  <2> QED
    BY <1>1, <1>2, <1>8, <2>1 DEF Ended
<1> QED
  BY <1>9, <1>10, <1>12, <1>13, <1>14, <1>15 DEF LInv

\* A load begins, where nothing is being linked, of an instance that nothing imports.
LEMMA LoadKeeps ==
  ASSUME LInv, status = "running", ~Linking,
         NEW x \in Id, x # << >>, x \notin DOMAIN inst, NEW q \in Paths, Load(x, q),
         begun' = begun, at' \in [begun -> Nat],
         UNCHANGED <<jobs, ran, threw, promise, world>>,
         \A m \in DOMAIN inst : \A k \in DOMAIN Imports(m) : x # Append(m, k)
  PROVE  Grown(x) /\ TypeOK' /\ (Named' => LInv')
<1>1. TypeOK /\ Named /\ Graphs /\ Stack /\ Ended
  BY DEF LInv
<1>2. /\ DOMAIN inst' = DOMAIN inst \cup {x} /\ \A n \in DOMAIN inst : inst'[n] = inst[n]
      /\ inst' \in [DOMAIN inst' -> [path: Paths, code: Contents \cup {Empty}]]
      /\ status' \in {status, "exit 1"}
      /\ status' = "running" => inst'[x].code.valid
  BY <1>1, Loaded DEF Load
<1>3. Grown(x)
  BY <1>2 DEF Grown
<1> DEFINE new == [root |-> x, phase |-> "link", todo |-> <<x>>]
<1>4. <<x>> \in Seq(Id) /\ Range(<<x>>) = {x}
  BY OneElement
<1>5. new \in Graph
  BY <1>4 DEF Graph
<1>6. loads \in Seq(Graph) /\ Len(loads) \in Nat /\ DOMAIN loads = 1..Len(loads)
  BY <1>1, LenProperties DEF TypeOK, Graph
<1>7. PICK l \in Nat : l = Len(loads)
  BY <1>6
<1>8. /\ loads' \in Seq(Graph) /\ loads' # << >> /\ DOMAIN loads' = 1..(l + 1)
      /\ Len(loads') = l + 1 /\ \A i \in 1..l : loads'[i] = loads[i]
      /\ loads'[l + 1] = new
  <2>1. loads' = Append(loads, new)
    BY DEF Load
  <2>2. /\ Append(loads, new) \in Seq(Graph) /\ Append(loads, new) # << >>
        /\ Len(Append(loads, new)) = l + 1
        /\ \A i \in 1..l : Append(loads, new)[i] = loads[i]
        /\ Append(loads, new)[l + 1] = new
    BY <1>5, <1>6, <1>7, AppendProperties
  <2>3. DOMAIN Append(loads, new) = 1..(l + 1)
    BY <2>2, LenProperties
  <2> QED
    BY <2>1, <2>2, <2>3
<1>9. TypeOK'
  <2>1. DOMAIN at' = begun
    OBVIOUS
  <2> QED
    BY <1>1, <1>2, <1>8, <2>1 DEF TypeOK, Graph, world, begun
<1>10. ASSUME Named'
       PROVE  LInv'
  <2>1. Top' = new /\ Linking'
    BY <1>8 DEF Top, Linking
  <2>2. Tree(x)' = {x}
    BY <1>1, <1>3, FreshTree
  <2>3. Tree(Top.root)' = Tree(x)'
    BY <2>1 DEF Tree, InTree
  <2>4. Graphs'
    <3>1. status' = "running" => \A n \in DOMAIN inst' : inst'[n].code.valid
      BY <1>1, <1>2 DEF Graphs
    <3>2. \A n \in DOMAIN inst' : Linked(n)' \/ n \in Tree(x)'
      BY <1>1, <1>2, <1>3, <2>2, StaysLinked DEF Graphs
    <3>3. begun' \cap Tree(x)' = {}
      BY <1>1, <2>2 DEF TypeOK
    <3>4. Range(Top.todo)' = {x}
      BY <1>4, <2>1 DEF Range
    <3>5. ASSUME NEW n \in DOMAIN inst', NEW j \in DOMAIN Imports(n)', x = Append(n, j)
          PROVE  FALSE
      <4>1. CASE n \in DOMAIN inst
        <5>1. j \in DOMAIN Imports(n)
          BY <1>3, <3>5, <4>1, StaysLinked
        <5> QED
          BY <3>5, <4>1, <5>1
      <4>2. CASE n = x
        <5>1. PICK c \in Contents \cup {Empty} : c = inst'[x].code
          BY <1>2
        <5>2. j \in DOMAIN c.imports
          BY <3>5, <4>2, <5>1 DEF Imports
        <5>3. PICK h \in Nat : DOMAIN c.imports = 1..h
          BY Code
        <5>4. j \in Nat \ {0}
          BY <5>2, <5>3
        <5>5. Len(Append(x, j)) = Len(x) + 1 /\ Len(x) \in Nat
          BY <5>4, KidNames
        <5> QED
          BY <3>5, <4>2, <5>5
      <4> QED
        BY <1>2, <4>1, <4>2
    <3> QED
      BY <2>1, <2>2, <2>3, <3>1, <3>2, <3>3, <3>4, <3>5 DEF Graphs
  <2>5. Stack'
    <3>1. ASSUME NEW i \in 1..l
          PROVE  /\ loads'[i].phase # "link"
                 /\ loads'[i].root \in DOMAIN inst' /\ Range(loads'[i].todo) \subseteq DOMAIN inst'
      <4>1. i \in DOMAIN loads /\ loads'[i] = loads[i]
        BY <1>6, <1>7, <1>8
      <4>2. loads[i].root \in DOMAIN inst /\ Range(loads[i].todo) \subseteq DOMAIN inst
        BY <1>1, <4>1 DEF Stack
      <4>3. loads[i].phase # "link"
        <5>1. CASE i = l
          <6>1. loads # << >>
            BY <1>6, <1>7, <3>1
          <6> QED
            BY <1>7, <5>1, <6>1 DEF Linking, Top
        <5>2. CASE i # l
          BY <1>1, <1>7, <3>1, <4>1, <5>2 DEF Stack
        <5> QED
          BY <5>1, <5>2
      <4> QED
        BY <1>2, <4>1, <4>2, <4>3
    <3>2. loads'[l + 1].root \in DOMAIN inst' /\ Range(loads'[l + 1].todo) \subseteq DOMAIN inst'
      <4>1. new.root = x /\ new.todo = <<x>> /\ x \in DOMAIN inst'
        BY <1>2
      <4>2. loads'[l + 1].root = x /\ loads'[l + 1].todo = <<x>>
        BY <1>8, <4>1
      <4> QED
        BY <1>4, <4>1, <4>2
    <3>3. ASSUME NEW i \in DOMAIN loads'
          PROVE  /\ i < Len(loads') => loads'[i].phase # "link"
                 /\ loads'[i].root \in DOMAIN inst' /\ Range(loads'[i].todo) \subseteq DOMAIN inst'
      <4>1. i \in 1..l \/ i = l + 1
        BY <1>8, <3>3
      <4> QED
        BY <1>8, <3>1, <3>2, <4>1
    <3> QED
      BY <1>8, <3>3 DEF Stack
  <2>6. Ended'
    <3>1. \A n \in ran \cup threw : n \in DOMAIN inst
      BY <1>1 DEF TypeOK
    <3> QED
      BY <1>1, <1>2, <3>1 DEF Ended
  <2> QED
    BY <1>9, <1>10, <2>4, <2>5, <2>6 DEF LInv
<1> QED
  BY <1>3, <1>9, <1>10

\* The program is the first instance.
LEMMA StartKeeps ==
  ASSUME LInv, Start
  PROVE  LInv' /\ \E x : Grown(x)
<1>1. TypeOK /\ Stack /\ inst = << >> /\ DOMAIN inst = {} /\ status = "running" /\ ~Linking
  BY DEF LInv, Stack, Start, Linking
<1>2. PICK x \in Id : x = <<1>> /\ x # << >> /\ x \notin DOMAIN inst /\ Len(x) = 1
  <2>1. <<1>> \in Id /\ <<1>> # << >> /\ Len(<<1>>) = 1
    BY DEF Id
  <2> QED
    BY <1>1, <2>1
<1>3. <<Cwd, Program>> \in Paths
  BY LoaderAssumption DEF Paths
<1>4. Load(x, <<Cwd, Program>>) /\ UNCHANGED <<at, jobs, ran, threw, promise, world>>
  BY <1>2 DEF Start
<1>5. begun' = begun /\ at' \in [begun -> Nat]
  BY <1>1, <1>4 DEF begun, TypeOK
<1>6. Grown(x) /\ TypeOK' /\ (Named' => LInv')
  BY <1>1, <1>2, <1>3, <1>4, <1>5, LoadKeeps
<1>7. DOMAIN inst' = {x}
  BY <1>1, <1>6 DEF Grown
<1>8. Named'
  <2>1. \A k \in 1..Len(x) : SubSeq(x, 1, k) = x
    <3>1. SubSeq(x, 1, Len(x)) = x
      BY SubSeqFull DEF Id
    <3>2. \A k \in 1..Len(x) : k = Len(x)
      BY <1>2
    <3> QED
      BY <3>1, <3>2
  <2>2. \A k \in Nat \ {0} : Append(x, k) # x
    BY KidNames
  <2> QED
    BY <1>2, <1>7, <2>1, <2>2 DEF Named
<1> QED
  BY <1>6, <1>8

\* A load that is evaluated is not one that is linked.
LEMMA NotLinking ==
  ASSUME Evaluating
  PROVE  status = "running" /\ loads # << >> /\ ~Linking
BY DEF Evaluating, Linking

\* ResolveDynamicModuleCallback makes an instance behind all that its caller asked for.
LEMMA ResolveDynamicKeeps ==
  ASSUME LInv, ResolveDynamicModuleCallback
  PROVE  LInv' /\ \E x : Grown(x)
<1>1. TypeOK /\ Named
  BY DEF LInv
<1>2. PICK m \in begun :
        /\ InBody(m) /\ Next1(m) <= Len(Body(m)) /\ Body(m)[Next1(m)] # Await
        /\ at' = [at EXCEPT ![m] = @ + 1]
        /\ Load(Append(m, Len(Imports(m)) + Next1(m)), <<Cwd, Body(m)[Next1(m)]>>)
        /\ UNCHANGED <<jobs, ran, threw, promise, world>>
  BY DEF ResolveDynamicModuleCallback
<1>3. status = "running" /\ loads # << >> /\ ~Linking
  BY <1>2, NotLinking DEF InBody
<1>4. m \in DOMAIN inst /\ m \in Id /\ at[m] \in Nat
  BY <1>1 DEF TypeOK
<1>5. PICK l \in Nat, k \in Nat \ {0} :
        l = Len(Imports(m)) /\ DOMAIN Imports(m) = 1..l /\ k = l + Next1(m) /\ k > l
  <2>1. PICK l \in Nat, i \in Nat \ {0} :
          l = Len(Imports(m)) /\ DOMAIN Imports(m) = 1..l /\ i = Next1(m)
    <3>1. Next1(m) \in Nat \ {0}
      BY <1>4 DEF Next1
    <3> QED
      BY <1>1, <1>4, <3>1, Sources
  <2>2. l + i \in Nat \ {0} /\ l + i > l
    OBVIOUS
  <2> QED
    BY <2>1, <2>2
<1>6. PICK x \in Id : x = Append(m, k) /\ x # << >>
  <2>1. Append(m, k) \in Id /\ Append(m, k) # << >>
    BY <1>4, KidNames
  <2> QED
    BY <2>1
<1>7. x \notin DOMAIN inst
  <2> SUFFICES ASSUME x \in DOMAIN inst PROVE FALSE
    OBVIOUS
  <2>1. k \notin DOMAIN Imports(m)
    BY <1>5
  <2>2. k <= Len(Imports(m)) + at[m]
    BY <1>1, <1>4, <1>6, <2>1 DEF Named
  <2> QED
    BY <1>4, <1>5, <2>2 DEF Next1
<1>8. <<Cwd, Body(m)[Next1(m)]>> \in Paths
  <2>1. Body(m) \in Seq(Names \cup {Await}) /\ Next1(m) \in Nat \ {0}
    BY <1>1, <1>4, Sources DEF Next1
  <2>2. Next1(m) \in 1..Len(Body(m))
    BY <1>2, <2>1
  <2>3. Body(m)[Next1(m)] \in Names
    BY <1>2, <2>1, <2>2, ElementOfSeq
  <2> QED
    BY <2>3, LoaderAssumption DEF Paths
<1>9. /\ begun' = begun /\ at' \in [begun -> Nat] /\ at'[m] = at[m] + 1
      /\ \A n \in begun : at[n] <= at'[n]
  <2>1. at \in [begun -> Nat]
    BY <1>1 DEF TypeOK
  <2>2. \A n \in begun : at[n] \in Nat /\ at'[n] = IF n = m THEN at[n] + 1 ELSE at[n]
    BY <1>2, <2>1
  <2>3. at' \in [begun -> Nat]
    BY <1>2, <1>4, <2>1
  <2> QED
    BY <2>2, <2>3 DEF begun
<1>10. ASSUME NEW n \in DOMAIN inst, NEW j \in DOMAIN Imports(n), x = Append(n, j)
       PROVE  FALSE
  <2>1. n \in Id /\ j \in Nat \ {0}
    BY <1>1, Sources
  <2>2. n = m /\ j = k
    <3>1. Append(n, j) = Append(m, k)
      BY <1>6, <1>10
    <3> QED
      BY <1>4, <2>1, <3>1, KidsDiffer
  <2> QED
    BY <1>5, <1>10, <2>2
<1>11. Load(x, <<Cwd, Body(m)[Next1(m)]>>)
  BY <1>2, <1>5, <1>6
<1>12. Grown(x) /\ TypeOK' /\ (Named' => LInv')
  BY <1>2, <1>3, <1>6, <1>7, <1>8, <1>9, <1>10, <1>11, LoadKeeps
<1>13. Named'
  <2>1. Onward
    BY <1>9 DEF Onward
  <2>2. k \notin DOMAIN Imports(m) /\ m \in begun' /\ k <= Len(Imports(m)) + at'[m]
    BY <1>4, <1>5, <1>9 DEF Next1
  <2> QED
    BY <1>1, <1>4, <1>6, <1>12, <2>1, <2>2, NamedGrows
<1> QED
  BY <1>12, <1>13

\* What instances are does not change where none is made.
LEMMA SameCode ==
  ASSUME UNCHANGED inst
  PROVE  /\ \A m : Imports(m)' = Imports(m) /\ Body(m)' = Body(m)
         /\ \A m : Resolved(m)' <=> Resolved(m)
         /\ \A m : Linked(m)' <=> Linked(m)
         /\ \A r : Tree(r)' = Tree(r)
<1>1. \A m : Imports(m)' = Imports(m) /\ Body(m)' = Body(m)
  BY DEF Imports, Body
<1>2. \A m : Resolved(m)' <=> Resolved(m)
  BY <1>1 DEF Resolved
<1>3. \A m : NamesResolve(m)' <=> NamesResolve(m)
  BY <1>1 DEF NamesResolve
<1>4. \A r, n : InTree(r, n)' <=> InTree(r, n)
  BY <1>1 DEF InTree
<1> QED
  BY <1>1, <1>2, <1>3, <1>4 DEF Linked, Tree

\* A step that leaves the loads and the instances alone.
LEMMA SameProgram ==
  ASSUME LInv, TypeOK', UNCHANGED <<inst, loads, at, ran, threw>>,
         status' = "running" => status = "running"
  PROVE  LInv'
<1>1. TypeOK /\ Named /\ Graphs /\ Stack /\ Ended
  BY DEF LInv
<1>2. Onward
  <2>1. \A n \in begun : at[n] \in Nat
    BY <1>1 DEF TypeOK
  <2> QED
    BY <2>1 DEF Onward, begun
<1>3. Named'
  BY <1>1, <1>2, NamedStays
<1>4. Graphs'
  <2>1. Top' = Top /\ (Linking' <=> Linking) /\ begun' = begun
    BY DEF Top, Linking, begun
  <2>2. Tree(Top.root)' = Tree(Top.root)
    BY <2>1 DEF Tree, InTree, Imports
  <2> QED
    BY <1>1, <2>1, <2>2, SameCode DEF Graphs, Range
<1>5. Stack' /\ Ended'
  BY <1>1 DEF Stack, Ended, Range
<1> QED
  BY <1>3, <1>4, <1>5 DEF LInv

\* A step that changes what the load in progress has to do.
LEMMA TopSet ==
  ASSUME TypeOK, Stack, loads # << >>, NEW l \in Graph, SetTop(l), UNCHANGED inst,
         l.root = Top.root, Range(l.todo) \subseteq DOMAIN inst
  PROVE  /\ loads' \in Seq(Graph) /\ loads' # << >> /\ Len(loads') = Len(loads)
         /\ Top' = l /\ Stack'
<1>1. loads \in Seq(Graph) /\ Len(loads) \in Nat \ {0} /\ DOMAIN loads = 1..Len(loads)
  BY TopOfStack DEF TypeOK, Graph
<1>2. PICK n \in Nat \ {0} : n = Len(loads)
  BY <1>1
<1>3. loads' = [loads EXCEPT ![n] = l] /\ n \in 1..Len(loads)
  BY <1>1, <1>2 DEF SetTop
<1>4. loads' \in Seq(Graph) /\ Len(loads') = n
  BY <1>1, <1>2, <1>3, ExceptSeq
<1>5. DOMAIN loads' = 1..n /\ loads'[n] = l /\ \A i \in 1..n : i # n => loads'[i] = loads[i]
  BY <1>1, <1>2, <1>3
<1>6. loads' # << >>
  BY <1>2, <1>4, EmptySeq
<1>7. Top' = l
  BY <1>4, <1>5 DEF Top
<1>8. ASSUME NEW i \in DOMAIN loads'
      PROVE  /\ i < Len(loads') => loads'[i].phase # "link"
             /\ loads'[i].root \in DOMAIN inst' /\ Range(loads'[i].todo) \subseteq DOMAIN inst'
  <2>1. CASE i = n
    BY <1>4, <1>5, <2>1, TopOfStack
  <2>2. CASE i # n
    <3>1. loads'[i] = loads[i] /\ i \in DOMAIN loads
      BY <1>1, <1>2, <1>5, <1>8, <2>2
    <3> QED
      BY <1>2, <1>4, <3>1 DEF Stack
  <2> QED
    BY <2>1, <2>2
<1> QED
  BY <1>2, <1>4, <1>6, <1>7, <1>8 DEF Stack

\* The same, where the load stays in its phase.
LEMMA TodoSet ==
  ASSUME TypeOK, Stack, loads # << >>, NEW ms \in Seq(Id), SetTodo(ms), UNCHANGED inst,
         Range(ms) \subseteq DOMAIN inst
  PROVE  /\ loads' \in Seq(Graph) /\ loads' # << >> /\ Len(loads') = Len(loads) /\ Stack'
         /\ Top'.root = Top.root /\ Top'.phase = Top.phase /\ Top'.todo = ms
<1>1. Top \in Graph
  BY TopOfStack
<1>2. PICK l \in Graph :
        /\ l = [Top EXCEPT !.todo = ms]
        /\ l.root = Top.root /\ l.phase = Top.phase /\ l.todo = ms
  <2>1. /\ Top.root \in Id /\ Top.phase \in {"link", "evaluate", "drain"}
        /\ Top = [root |-> Top.root, phase |-> Top.phase, todo |-> Top.todo]
    BY <1>1 DEF Graph
  <2>2. PICK l \in Graph : l = [root |-> Top.root, phase |-> Top.phase, todo |-> ms]
    BY <2>1 DEF Graph
  <2>3. [Top EXCEPT !.todo = ms] = l
    BY <2>1, <2>2
  <2> QED
    BY <2>2, <2>3
<1>3. SetTop(l)
  BY <1>2 DEF SetTodo
<1> QED
  BY <1>2, <1>3, TopSet

\* Linking goes on from a module to its imports.
LEMMA LinkImportsKeeps ==
  ASSUME LInv, LinkImports
  PROVE  LInv'
<1>1. TypeOK /\ Named /\ Graphs /\ Stack /\ Ended
  BY DEF LInv
<1>2. /\ status = "running" /\ loads # << >> /\ Top.phase = "link" /\ Top.todo # << >>
      /\ Linking /\ UNCHANGED <<inst, at, jobs, ran, threw, promise, world>>
  BY DEF LinkImports, Working, Linking
<1>3. PICK m \in DOMAIN inst, r \in DOMAIN inst :
        m = Head(Top.todo) /\ m \in Range(Top.todo) /\ r = Top.root
  BY <1>1, <1>2, TopOfStack
<1>4. CASE status' = "exit 1" /\ UNCHANGED loads
  <2>1. TypeOK'
    BY <1>1, <1>2, <1>4 DEF TypeOK, begun, world
  <2> QED
    BY <1>2, <1>4, <2>1, SameProgram
<1>5. CASE /\ \A k \in DOMAIN Imports(m) : Append(m, k) \in DOMAIN inst
           /\ SetTodo(Kids(m) \o Tail(Top.todo))
           /\ UNCHANGED status
  <2>1. /\ Kids(m) \in Seq(Id) /\ Range(Kids(m)) = {Append(m, k) : k \in DOMAIN Imports(m)}
        /\ Range(Kids(m)) \subseteq DOMAIN inst
    <3>1. Kids(m) \in Seq(Id) /\ Range(Kids(m)) = {Append(m, k) : k \in DOMAIN Imports(m)}
      BY <1>1, KidsOf
    <3> QED
      BY <1>5, <3>1
  <2>2. /\ Top.todo \in Seq(Id) /\ Tail(Top.todo) \in Seq(Id)
        /\ Range(Top.todo) = {m} \cup Range(Tail(Top.todo))
        /\ Range(Top.todo) \subseteq DOMAIN inst
    BY <1>1, <1>2, <1>3, TopOfStack, Elements
  <2>3. PICK ms \in Seq(Id) :
          /\ ms = Kids(m) \o Tail(Top.todo)
          /\ Range(ms) = Range(Kids(m)) \cup Range(Tail(Top.todo))
    <3>1. PICK ks \in Seq(Id), ts \in Seq(Id) : ks = Kids(m) /\ ts = Tail(Top.todo)
      BY <2>1, <2>2
    <3>2. ks \o ts \in Seq(Id) /\ Range(ks \o ts) = Range(ks) \cup Range(ts)
      BY Joined
    <3> QED
      BY <3>1, <3>2
  <2>4. /\ loads' \in Seq(Graph) /\ loads' # << >> /\ Stack'
        /\ Top'.root = r /\ Top'.phase = "link" /\ Top'.todo = ms
    <3>1. SetTodo(ms)
      BY <1>5, <2>3
    <3> QED
      BY <1>1, <1>2, <1>3, <2>1, <2>2, <2>3, <3>1, TodoSet
  <2>5. TypeOK'
    BY <1>1, <1>2, <1>5, <2>4 DEF TypeOK, Graph, begun, world
  <2>6. Onward
    <3>1. \A n \in begun : at[n] \in Nat
      BY <1>1 DEF TypeOK
    <3> QED
      BY <1>2, <3>1 DEF Onward, begun
  <2>7. Named'
    BY <1>1, <1>2, <2>5, <2>6, NamedStays
  <2>8. Graphs'
    <3>1. Linking' /\ begun' = begun
      BY <1>2, <2>4 DEF Linking, begun
    <3>2. Tree(Top.root)' = Tree(r)
      BY <1>2, <2>4 DEF Tree, InTree, Imports
    <3>3. m \in Tree(r)
      BY <1>1, <1>2, <1>3 DEF Graphs
    <3>4. Range(ms) \subseteq Tree(r)
      <4>1. \A k \in DOMAIN Imports(m) : k \in Nat \ {0}
        BY <1>1, Sources
      <4>2. \A k \in DOMAIN Imports(m) : InTree(r, Append(m, k))
        BY <1>1, <3>3, <4>1, KidInTree DEF Tree, TypeOK
      <4>3. Range(Kids(m)) \subseteq Tree(r)
        BY <1>5, <2>1, <4>2 DEF Tree
      <4> QED
        BY <1>1, <1>2, <1>3, <2>2, <2>3, <4>3 DEF Graphs
    <3>5. ASSUME NEW n \in Tree(r)
          PROVE  Resolved(n) \/ n \in Range(ms)
      <4>1. CASE Resolved(n)
        BY <4>1
      <4>2. CASE n \in Range(Top.todo)
        <5>1. CASE n = m
          BY <1>5, <5>1 DEF Resolved
        <5>2. CASE n # m
          BY <2>2, <2>3, <4>2, <5>2
        <5> QED
          BY <5>1, <5>2
      <4>3. CASE n # r /\ Importer(n) = m
        <5>1. n \in Id /\ r \in Id /\ InTree(r, n)
          BY <1>1 DEF Tree, TypeOK
        <5>2. n # << >> /\ n[Len(n)] \in DOMAIN Imports(m)
          BY <4>3, <5>1, InTreeByImport
        <5>3. n = Append(m, n[Len(n)])
          BY <4>3, <5>1, <5>2, NameOfKid
        <5> QED
          BY <2>1, <2>3, <5>2, <5>3
      <4> QED
        BY <1>1, <1>2, <1>3, <4>1, <4>2, <4>3 DEF Graphs
    <3>6. /\ begun \cap Tree(r) = {}
          /\ \A n \in DOMAIN inst : \A k \in DOMAIN Imports(n) : r # Append(n, k)
          /\ \A n \in DOMAIN inst : Linked(n) \/ n \in Tree(r)
          /\ \A n \in DOMAIN inst : inst[n].code.valid
      BY <1>1, <1>2, <1>3 DEF Graphs
    <3>7. Range(Top.todo)' = Range(ms)
      BY <2>4 DEF Range
    <3> QED
      BY <1>2, <1>5, <2>4, <3>1, <3>2, <3>4, <3>5, <3>6, <3>7, SameCode DEF Graphs
  <2>9. Ended'
    BY <1>1, <1>2 DEF Ended
  <2> QED
    BY <2>4, <2>5, <2>7, <2>8, <2>9 DEF LInv
<1> QED
  BY <1>3, <1>4, <1>5 DEF LinkImports

\* Where nothing is being linked, before and after a step, all instances are linked.
LEMMA AllLinked ==
  ASSUME Graphs, ~Linking
  PROVE  \A m \in DOMAIN inst : Linked(m)
BY DEF Graphs

\* A step of evaluation that makes no instance.
LEMMA EvaluationKeeps ==
  ASSUME LInv, \A m \in DOMAIN inst : Linked(m), UNCHANGED inst, TypeOK', Onward,
         ~Linking', Stack', Ended'
  PROVE  LInv'
<1>1. TypeOK /\ Named
  BY DEF LInv
<1>2. Named'
  BY <1>1, NamedStays
<1>3. \A m \in DOMAIN inst' : Linked(m)' /\ inst'[m].code.valid
  BY SameCode DEF Linked
<1>4. Graphs'
  BY <1>3 DEF Graphs
<1> QED
  BY <1>2, <1>4 DEF LInv

\* Linking ends with all of the graph linked, or ends the process.
LEMMA FinishLinkingKeeps ==
  ASSUME LInv, FinishLinking
  PROVE  LInv'
<1>1. TypeOK /\ Named /\ Graphs /\ Stack /\ Ended
  BY DEF LInv
<1>2. /\ status = "running" /\ loads # << >> /\ Top.phase = "link" /\ Top.todo = << >>
      /\ Linking /\ UNCHANGED <<inst, at, jobs, ran, threw, promise, world>>
  BY DEF FinishLinking, Working, Linking
<1>3. PICK r \in DOMAIN inst : r = Top.root /\ r \in Id
  BY <1>1, <1>2, TopOfStack DEF TypeOK
<1>4. CASE status' = "exit 1" /\ UNCHANGED loads
  <2>1. TypeOK'
    BY <1>1, <1>2, <1>4 DEF TypeOK, begun, world
  <2> QED
    BY <1>2, <1>4, <2>1, SameProgram
<1>5. CASE /\ \A m \in Tree(Top.root) : NamesResolve(m)
           /\ SetTop([Top EXCEPT !.phase = "evaluate", !.todo = <<Top.root>>])
           /\ UNCHANGED status
  <2>1. <<r>> \in Seq(Id) /\ Range(<<r>>) = {r}
    BY <1>3, OneElement
  <2>2. PICK g \in Graph, t \in Seq(Id) : g = Top /\ t = <<r>> /\ g.root = r
    BY <1>1, <1>2, <1>3, <2>1, TopOfStack
  <2>3. PICK l \in Graph :
          /\ l = [g EXCEPT !.phase = "evaluate", !.todo = t]
          /\ l.root = g.root /\ l.phase = "evaluate" /\ l.todo = t
    <3>1. [g EXCEPT !.phase = "evaluate", !.todo = t] \in Graph
      BY DEF Graph
    <3>2. PICK l \in Graph : l = [g EXCEPT !.phase = "evaluate", !.todo = t]
      BY <3>1
    <3>3. l.root = g.root /\ l.phase = "evaluate" /\ l.todo = t
      BY <3>2 DEF Graph
    <3> QED
      BY <3>2, <3>3
  <2>4. /\ loads' \in Seq(Graph) /\ loads' # << >> /\ Top' = l /\ Stack'
    <3>1. SetTop(l) /\ l.root = Top.root /\ Range(l.todo) \subseteq DOMAIN inst
      BY <1>3, <1>5, <2>1, <2>2, <2>3
    <3> QED
      BY <1>1, <1>2, <3>1, TopSet
  <2>5. ~Linking'
    BY <2>3, <2>4 DEF Linking
  <2>6. TypeOK'
    BY <1>1, <1>2, <1>5, <2>4 DEF TypeOK, Graph, begun, world
  <2>7. Onward
    <3>1. \A n \in begun : at[n] \in Nat
      BY <1>1 DEF TypeOK
    <3> QED
      BY <1>2, <3>1 DEF Onward, begun
  <2>8. \A m \in DOMAIN inst : Linked(m)
    <3>1. Range(<< >>) = {}
      BY DEF Range
    <3>2. ASSUME NEW m \in DOMAIN inst, m \in Tree(r)
          PROVE  Linked(m)
      <4>1. Resolved(m)
        BY <1>1, <1>2, <1>3, <3>1, <3>2 DEF Graphs
      <4>2. NamesResolve(m) /\ inst[m].code.valid
        BY <1>1, <1>2, <1>3, <1>5, <3>2 DEF Graphs
      <4> QED
        BY <4>1, <4>2 DEF Linked
    <3> QED
      BY <1>1, <1>3, <3>2 DEF Graphs
  <2>9. Ended'
    BY <1>1, <1>2 DEF Ended
  <2> QED
    BY <1>2, <2>4, <2>5, <2>6, <2>7, <2>8, <2>9, EvaluationKeeps
<1> QED
  BY <1>4, <1>5 DEF FinishLinking

\* Evaluation goes on with another list of modules to enter.
LEMMA TodoKeeps ==
  ASSUME LInv, Evaluating, NEW ms \in Seq(Id), Range(ms) \subseteq DOMAIN inst, SetTodo(ms),
         UNCHANGED <<inst, promise, status, world>>, Onward,
         begun' \subseteq DOMAIN inst, at' \in [begun' -> Nat], jobs' \in Seq(begun'),
         ran' \subseteq begun', threw' \subseteq begun', ran' \cap threw' = {}, Ended'
  PROVE  LInv'
<1>1. TypeOK /\ Graphs /\ Stack /\ ~Linking /\ loads # << >>
  BY NotLinking DEF LInv
<1>2. /\ loads' \in Seq(Graph) /\ loads' # << >> /\ Stack' /\ Top'.phase = Top.phase
  BY <1>1, TodoSet
<1>3. ~Linking'
  BY <1>1, <1>2 DEF Linking
<1>4. TypeOK'
  BY <1>1, <1>2 DEF TypeOK, Graph, world
<1> QED
  BY <1>1, <1>2, <1>3, <1>4, AllLinked, EvaluationKeeps

\* A list of some is a list of more.
LEMMA ListOfMore ==
  ASSUME NEW S, NEW T, S \subseteq T, NEW s \in Seq(S)
  PROVE  s \in Seq(T)
<1>1. Len(s) \in Nat /\ s \in [1..Len(s) -> S]
  BY LenProperties
<1>2. s \in [1..Len(s) -> T]
  BY <1>1
<1> QED
  BY <1>1, <1>2, SeqDef

\* What is known wherever evaluation goes on.
LEMMA WhileEvaluating ==
  ASSUME LInv, Evaluating
  PROVE  /\ begun \subseteq DOMAIN inst /\ DOMAIN inst \subseteq Id /\ at \in [begun -> Nat]
         /\ jobs \in Seq(begun) /\ ran \subseteq begun /\ threw \subseteq begun
         /\ ran \cap threw = {} /\ Ended
         /\ Top.todo \in Seq(Id) /\ Range(Top.todo) \subseteq DOMAIN inst
         /\ Top.todo # << >> =>
              /\ Head(Top.todo) \in DOMAIN inst
              /\ Tail(Top.todo) \in Seq(Id) /\ Range(Tail(Top.todo)) \subseteq DOMAIN inst
<1>1. TypeOK /\ Stack /\ Ended /\ loads # << >>
  BY NotLinking DEF LInv
<1>2. /\ Top.todo \in Seq(Id) /\ Range(Top.todo) \subseteq DOMAIN inst
      /\ Top.todo # << >> => Head(Top.todo) \in DOMAIN inst
  BY <1>1, TopOfStack
<1>3. ASSUME Top.todo # << >>
      PROVE  Tail(Top.todo) \in Seq(Id) /\ Range(Tail(Top.todo)) \subseteq DOMAIN inst
  BY <1>2, <1>3, Elements
<1> QED
  BY <1>1, <1>2, <1>3 DEF TypeOK

\* Where at does not change evaluation goes on.
LEMMA OnwardIfSame ==
  ASSUME LInv, UNCHANGED at
  PROVE  Onward /\ begun' = begun
<1>1. \A n \in begun : at[n] \in Nat
  BY DEF LInv, TypeOK
<1> QED
  BY <1>1 DEF Onward, begun

\* A module is entered, and its imports before its body.
LEMMA EvaluateImportsKeeps ==
  ASSUME LInv, EvaluateImports
  PROVE  LInv'
<1>1. /\ Evaluating /\ Top.todo # << >> /\ SetTodo(Kids(Head(Top.todo)) \o Top.todo)
      /\ UNCHANGED <<inst, jobs, ran, threw, promise, status, world>>
  BY DEF EvaluateImports
<1>2. PICK m \in DOMAIN inst :
        /\ m = Head(Top.todo) /\ m \notin begun
        /\ at' = [x \in begun \cup {m} |-> IF x \in begun THEN at[x] ELSE 0]
  BY <1>1, WhileEvaluating DEF EvaluateImports
<1>3. /\ begun \subseteq DOMAIN inst /\ at \in [begun -> Nat] /\ jobs \in Seq(begun)
      /\ ran \subseteq begun /\ threw \subseteq begun /\ ran \cap threw = {} /\ Ended
      /\ Top.todo \in Seq(Id) /\ Range(Top.todo) \subseteq DOMAIN inst
  BY <1>1, WhileEvaluating
<1>4. begun' = begun \cup {m} /\ at' \in [begun' -> Nat] /\ Onward
  BY <1>2, <1>3 DEF begun, Onward
<1>5. jobs' \in Seq(begun')
  BY <1>1, <1>3, <1>4, ListOfMore
<1>6. PICK ks \in Seq(Id) : ks = Kids(m) /\ Range(ks) \subseteq DOMAIN inst
  <2>1. Resolved(m)
    BY <1>1, NotLinking, AllLinked DEF LInv, Linked
  <2>2. Kids(m) \in Seq(Id) /\ Range(Kids(m)) = {Append(m, k) : k \in DOMAIN Imports(m)}
    BY KidsOf DEF LInv
  <2> QED
    BY <2>1, <2>2 DEF Resolved
<1>7. PICK ts \in Seq(Id) : ts = Top.todo
  BY <1>3
<1>8. ks \o ts \in Seq(Id) /\ Range(ks \o ts) = Range(ks) \cup Range(ts)
  BY Joined
<1>9. PICK ms \in Seq(Id) : ms = ks \o ts /\ Range(ms) \subseteq DOMAIN inst
  BY <1>3, <1>6, <1>7, <1>8
<1>10. SetTodo(ms)
  BY <1>1, <1>2, <1>6, <1>7, <1>9
<1>11. Ended'
  BY <1>1, <1>3 DEF Ended
<1> QED
  BY <1>1, <1>3, <1>4, <1>5, <1>9, <1>10, <1>11, TodoKeeps

\* A module is left to wait.
LEMMA AwaitImportsKeeps ==
  ASSUME LInv, AwaitImports
  PROVE  LInv'
<1>1. /\ Evaluating /\ Top.todo # << >> /\ SetTodo(Tail(Top.todo))
      /\ UNCHANGED <<inst, at, jobs, ran, threw, promise, status, world>>
  BY DEF AwaitImports
<1>2. /\ begun \subseteq DOMAIN inst /\ at \in [begun -> Nat] /\ jobs \in Seq(begun)
      /\ ran \subseteq begun /\ threw \subseteq begun /\ ran \cap threw = {} /\ Ended
      /\ Tail(Top.todo) \in Seq(Id) /\ Range(Tail(Top.todo)) \subseteq DOMAIN inst
  BY <1>1, WhileEvaluating
<1>3. Onward /\ begun' = begun
  BY <1>1, OnwardIfSame
<1>4. Ended'
  BY <1>1, <1>2 DEF Ended
<1> QED
  BY <1>1, <1>2, <1>3, <1>4, TodoKeeps

\* A body is left suspended.
LEMMA SuspendKeeps ==
  ASSUME LInv, Suspend
  PROVE  LInv'
<1>1. PICK m \in begun :
        /\ InBody(m) /\ at' = [at EXCEPT ![m] = @ + 1] /\ jobs' = Append(jobs, m)
        /\ SetTodo(Tail(Top.todo))
        /\ UNCHANGED <<inst, ran, threw, promise, status, world>>
  BY DEF Suspend
<1>2. Evaluating /\ Top.todo # << >>
  BY <1>1 DEF InBody
<1>3. /\ begun \subseteq DOMAIN inst /\ at \in [begun -> Nat] /\ jobs \in Seq(begun)
      /\ ran \subseteq begun /\ threw \subseteq begun /\ ran \cap threw = {} /\ Ended
      /\ Tail(Top.todo) \in Seq(Id) /\ Range(Tail(Top.todo)) \subseteq DOMAIN inst
  BY <1>2, WhileEvaluating
<1>4. begun' = begun /\ at' \in [begun -> Nat]
  BY <1>1, <1>3 DEF begun
<1>5. Onward
  <2>1. \A n \in begun : at[n] \in Nat /\ at'[n] = IF n = m THEN at[n] + 1 ELSE at[n]
    BY <1>1, <1>3
  <2> QED
    BY <1>4, <2>1 DEF Onward
<1>6. jobs' \in Seq(begun')
  <2>1. Append(jobs, m) \in Seq(begun)
    BY <1>1, <1>3, AppendProperties
  <2> QED
    BY <1>1, <1>4, <2>1
<1>7. Ended'
  BY <1>1, <1>3 DEF Ended
<1> QED
  BY <1>1, <1>2, <1>3, <1>4, <1>5, <1>6, <1>7, TodoKeeps

\* What waits for a module is an instance that has begun.
LEMMA WaitingType ==
  ASSUME LInv, NEW m \in Id
  PROVE  Waiting(m) \in Seq(Id) /\ Range(Waiting(m)) \subseteq begun
<1>1. begun \subseteq Id
  BY DEF LInv, TypeOK
<1>2. << >> \in Seq(Id) /\ Range(<< >>) = {}
  BY DEF Range
<1>3. CASE WaitsFor(m, Importer(m))
  <2>1. PICK up \in Id : up = Importer(m) /\ up \in begun
    BY <1>1, <1>3 DEF WaitsFor
  <2>2. <<up>> \in Seq(Id) /\ Range(<<up>>) = {up}
    BY OneElement
  <2> QED
    BY <1>3, <2>1, <2>2 DEF Waiting
<1>4. CASE ~WaitsFor(m, Importer(m))
  BY <1>2, <1>4 DEF Waiting
<1> QED
  BY <1>3, <1>4

\* A body that ends did not throw.
LEMMA FinishBodyKeeps ==
  ASSUME LInv, FinishBody
  PROVE  LInv'
<1>1. PICK m \in begun :
        /\ InBody(m) /\ HasRoom(m) /\ ~inst[m].code.throws
        /\ ran' = ran \cup {m}
        /\ jobs' = IF Awaits(m) THEN Append(jobs, m) ELSE jobs
        /\ SetTodo(Tail(Top.todo) \o
                   (IF Top.phase = "drain" /\ ~Awaits(m) THEN Waiting(m) ELSE << >>))
        /\ UNCHANGED <<inst, at, threw, promise, status, world>>
  BY DEF FinishBody
<1>2. Evaluating /\ Top.todo # << >>
  BY <1>1 DEF InBody
<1>3. /\ begun \subseteq DOMAIN inst /\ DOMAIN inst \subseteq Id
      /\ at \in [begun -> Nat] /\ jobs \in Seq(begun)
      /\ ran \subseteq begun /\ threw \subseteq begun /\ ran \cap threw = {} /\ Ended
      /\ Tail(Top.todo) \in Seq(Id) /\ Range(Tail(Top.todo)) \subseteq DOMAIN inst
  BY <1>2, WhileEvaluating
<1>4. Onward /\ begun' = begun
  BY <1>1, OnwardIfSame
<1>5. jobs' \in Seq(begun')
  <2>1. Append(jobs, m) \in Seq(begun)
    BY <1>1, <1>3, AppendProperties
  <2> QED
    BY <1>1, <1>3, <1>4, <2>1
<1>6. PICK ts \in Seq(Id) : ts = Tail(Top.todo) /\ Range(ts) \subseteq DOMAIN inst
  BY <1>3
<1>7. PICK ws \in Seq(Id) :
        /\ ws = IF Top.phase = "drain" /\ ~Awaits(m) THEN Waiting(m) ELSE << >>
        /\ Range(ws) \subseteq DOMAIN inst
  <2>1. Waiting(m) \in Seq(Id) /\ Range(Waiting(m)) \subseteq DOMAIN inst
    BY <1>1, <1>3, WaitingType
  <2>2. << >> \in Seq(Id) /\ Range(<< >>) \subseteq DOMAIN inst
    BY DEF Range
  <2> QED
    BY <2>1, <2>2
<1>8. ts \o ws \in Seq(Id) /\ Range(ts \o ws) = Range(ts) \cup Range(ws)
  BY Joined
<1>9. PICK ms \in Seq(Id) : ms = ts \o ws /\ Range(ms) \subseteq DOMAIN inst
  BY <1>6, <1>7, <1>8
<1>10. SetTodo(ms)
  BY <1>1, <1>6, <1>7, <1>9
<1>11. Ended' /\ ran' \cap threw' = {}
  BY <1>1, <1>3 DEF Ended, HasRoom
<1>12. ran' \subseteq begun' /\ threw' \subseteq begun'
  BY <1>1, <1>3, <1>4
<1> QED
  BY <1>1, <1>2, <1>3, <1>4, <1>5, <1>9, <1>10, <1>11, <1>12, TodoKeeps

\* A body that throws did not end.
LEMMA ThrowKeeps ==
  ASSUME LInv, Throw
  PROVE  LInv'
<1>1. PICK m \in begun :
        /\ InBody(m) /\ (~HasRoom(m) \/ inst[m].code.throws)
        /\ threw' = threw \cup {m} /\ SetTodo(<< >>)
        /\ UNCHANGED <<inst, at, jobs, ran, promise, status, world>>
  BY DEF Throw
<1>2. Evaluating
  BY <1>1 DEF InBody, Throw
<1>3. /\ begun \subseteq DOMAIN inst /\ at \in [begun -> Nat] /\ jobs \in Seq(begun)
      /\ ran \subseteq begun /\ threw \subseteq begun /\ ran \cap threw = {} /\ Ended
  BY <1>2, WhileEvaluating
<1>4. Onward /\ begun' = begun
  BY <1>1, OnwardIfSame
<1>5. << >> \in Seq(Id) /\ Range(<< >>) \subseteq DOMAIN inst
  BY DEF Range
<1>6. Ended' /\ ran' \cap threw' = {}
  BY <1>1, <1>3 DEF Ended, HasRoom
<1>7. ran' \subseteq begun' /\ threw' \subseteq begun'
  BY <1>1, <1>3, <1>4
<1> QED
  BY <1>1, <1>2, <1>3, <1>4, <1>5, <1>6, <1>7, TodoKeeps

\* A microtask goes on with a module, or with what waits for one.
LEMMA RunMicrotaskKeeps ==
  ASSUME LInv, RunMicrotask
  PROVE  LInv'
<1>1. /\ Evaluating /\ jobs # << >> /\ jobs' = Tail(jobs)
      /\ UNCHANGED <<inst, at, ran, threw, promise, status, world>>
  BY DEF RunMicrotask
<1>2. /\ TypeOK /\ Graphs /\ Stack /\ ~Linking /\ loads # << >>
      /\ begun \subseteq DOMAIN inst /\ DOMAIN inst \subseteq Id
      /\ at \in [begun -> Nat] /\ jobs \in Seq(begun)
      /\ ran \subseteq begun /\ threw \subseteq begun /\ ran \cap threw = {} /\ Ended
  BY <1>1, WhileEvaluating, NotLinking DEF LInv
<1>3. PICK m \in begun : m = Head(jobs) /\ Tail(jobs) \in Seq(begun)
  BY <1>1, <1>2, HeadTailProperties
<1>4. Onward /\ begun' = begun
  BY <1>1, OnwardIfSame
<1>5. PICK t \in Seq(Id) :
        t = (IF m \in ran THEN Waiting(m) ELSE <<m>>) /\ Range(t) \subseteq DOMAIN inst
  <2>1. m \in Id
    BY <1>2
  <2>2. <<m>> \in Seq(Id) /\ Range(<<m>>) = {m}
    BY <2>1, OneElement
  <2>3. Waiting(m) \in Seq(Id) /\ Range(Waiting(m)) \subseteq begun
    BY <2>1, WaitingType
  <2> QED
    BY <1>2, <2>2, <2>3
<1>6. PICK g \in Graph : g = Top
  BY <1>2, TopOfStack
<1>7. PICK l \in Graph :
        /\ l = [g EXCEPT !.phase = "drain", !.todo = t]
        /\ l.root = g.root /\ l.phase = "drain" /\ l.todo = t
  <2>1. [g EXCEPT !.phase = "drain", !.todo = t] \in Graph
    BY DEF Graph
  <2>2. PICK l \in Graph : l = [g EXCEPT !.phase = "drain", !.todo = t]
    BY <2>1
  <2>3. l.root = g.root /\ l.phase = "drain" /\ l.todo = t
    BY <2>2 DEF Graph
  <2> QED
    BY <2>2, <2>3
<1>8. SetTop(l)
  BY <1>3, <1>5, <1>6, <1>7 DEF RunMicrotask
<1>9. loads' \in Seq(Graph) /\ loads' # << >> /\ Top' = l /\ Stack'
  BY <1>1, <1>2, <1>5, <1>6, <1>7, <1>8, TopSet
<1>10. ~Linking'
  BY <1>7, <1>9 DEF Linking
<1>11. TypeOK'
  BY <1>1, <1>2, <1>3, <1>4, <1>9 DEF TypeOK, Graph, world
<1>12. Ended'
  BY <1>1, <1>2 DEF Ended
<1> QED
  BY <1>1, <1>2, <1>4, <1>9, <1>10, <1>11, <1>12, AllLinked, EvaluationKeeps

\* A load that ends leaves those that wait for it.
LEMMA FinishEvaluationKeeps ==
  ASSUME LInv, FinishEvaluation
  PROVE  LInv'
<1>1. Evaluating /\ Return /\ UNCHANGED <<inst, at, jobs, ran, threw, world>>
  BY DEF FinishEvaluation
<1>2. TypeOK /\ Graphs /\ Stack /\ Ended /\ ~Linking /\ loads # << >>
  BY <1>1, NotLinking DEF LInv
<1>3. Onward /\ begun' = begun
  BY <1>1, OnwardIfSame
<1>4. loads \in Seq(Graph) /\ Top.root \in DOMAIN inst /\ DOMAIN loads = 1..Len(loads)
  BY <1>2, TopOfStack DEF TypeOK, Graph
<1>5. /\ Len(loads) \in Nat \ {0} /\ loads' \in Seq(Graph) /\ Len(loads') = Len(loads) - 1
      /\ \A i \in DOMAIN loads' : i \in DOMAIN loads /\ loads'[i] = loads[i]
  BY <1>1, <1>2, <1>4, Shortened DEF Return
<1>6. PICK n \in Nat : Len(loads) = n + 1 /\ Len(loads') = n /\ DOMAIN loads' = 1..n
  <2>1. DOMAIN loads' = 1..Len(loads')
    BY <1>5, LenProperties
  <2>2. Len(loads) - 1 \in Nat /\ Len(loads) = (Len(loads) - 1) + 1
    BY <1>5
  <2> QED
    BY <1>5, <2>1, <2>2
<1>7. ASSUME NEW i \in DOMAIN loads'
      PROVE  /\ loads'[i].phase # "link"
             /\ loads'[i].root \in DOMAIN inst' /\ Range(loads'[i].todo) \subseteq DOMAIN inst'
  <2>1. i \in DOMAIN loads /\ loads'[i] = loads[i] /\ i < Len(loads)
    BY <1>5, <1>6, <1>7
  <2> QED
    BY <1>1, <1>2, <2>1 DEF Stack
<1>8. ~Linking'
  <2> SUFFICES ASSUME loads' # << >> PROVE Top'.phase # "link"
    BY DEF Linking
  <2>1. Len(loads') \in DOMAIN loads'
    BY <1>5, Shortened
  <2> QED
    BY <1>7, <2>1 DEF Top
<1>9. Stack'
  <2>1. loads' = << >> => status' # "running"
    <3>1. Len(<< >>) = 0
      OBVIOUS
    <3>2. loads' = << >> => Len(loads) = 1
      BY <1>6, <3>1
    <3> QED
      BY <1>1, <3>2 DEF Return
  <2> QED
    BY <1>7, <2>1 DEF Stack
<1>10. TypeOK'
  <2>1. /\ DOMAIN promise' \subseteq DOMAIN inst
        /\ promise' \in [DOMAIN promise' -> {"fulfilled", "rejected"}]
    <3>1. /\ DOMAIN promise \subseteq DOMAIN inst
          /\ promise \in [DOMAIN promise -> {"fulfilled", "rejected"}]
      BY <1>2 DEF TypeOK
    <3>2. CASE UNCHANGED promise
      BY <3>1, <3>2
    <3>3. CASE promise' = [x \in DOMAIN promise \cup {Top.root} |->
                             IF x = Top.root THEN "fulfilled" ELSE promise[x]]
      BY <1>4, <3>1, <3>3
    <3> QED
      BY <1>1, <3>2, <3>3 DEF Return
  <2>2. status' \in {"running", "exit 0", "exit 1", "aborted"}
    BY <1>1, <1>2 DEF Return, TypeOK
  <2> QED
    BY <1>1, <1>2, <1>3, <1>5, <2>1, <2>2 DEF TypeOK, Graph, world
<1>11. Ended'
  BY <1>1, <1>2 DEF Ended
<1> QED
  BY <1>1, <1>2, <1>3, <1>8, <1>9, <1>10, <1>11, AllLinked, EvaluationKeeps

\* Edits, and the end of the heap, leave the loads alone.
LEMMA EditsKeep ==
  ASSUME LInv,
         \/ OutOfMemory
         \/ \E p \in Paths, c \in Contents : EditFile(p, c)
         \/ \E f \in Folders : EditFolder(f)
  PROVE  LInv'
<1>1. TypeOK
  BY DEF LInv
<1>2. CASE OutOfMemory
  <2>1. status' = "aborted" /\ UNCHANGED <<inst, loads, at, jobs, ran, threw, promise, world>>
    BY <1>2 DEF OutOfMemory
  <2>2. TypeOK'
    BY <1>1, <2>1 DEF TypeOK, begun, world
  <2> QED
    BY <2>1, <2>2, SameProgram
<1>3. ASSUME NEW p \in Paths, NEW c \in Contents, EditFile(p, c)
      PROVE  LInv'
  <2>1. edits' \in 0..MaxEdits /\ UNCHANGED <<folder, program>>
    BY <1>1, <1>3, LoaderAssumption DEF EditFile, TypeOK
  <2>2. DOMAIN files' \subseteq Paths /\ files' \in [DOMAIN files' -> Contents]
    BY <1>1, <1>3 DEF EditFile, TypeOK
  <2>3. TypeOK'
    BY <1>1, <2>1, <2>2 DEF TypeOK, begun, program
  <2> QED
    BY <2>1, <2>3, SameProgram DEF program
<1>4. ASSUME NEW f \in Folders, EditFolder(f)
      PROVE  LInv'
  <2>1. edits' \in 0..MaxEdits /\ folder' \in Folders /\ UNCHANGED <<files, program>>
    BY <1>1, <1>4, LoaderAssumption DEF EditFolder, TypeOK
  <2>2. TypeOK'
    BY <1>1, <2>1 DEF TypeOK, begun, program
  <2> QED
    BY <2>1, <2>2, SameProgram DEF program
<1> QED
  BY <1>2, <1>3, <1>4

-----------------------------------------------------------------------------
(* The invariant, and what follows from it.                                *)

\* The invariant holds before the program is loaded.
LEMMA InitHolds ==
  ASSUME Init
  PROVE  LInv
<1>1. /\ inst = << >> /\ loads = << >> /\ at = << >> /\ jobs = << >> /\ promise = << >>
      /\ ran = {} /\ threw = {} /\ status = "running" /\ edits = 0
      /\ DOMAIN files \subseteq Paths /\ files \in [DOMAIN files -> Contents]
      /\ folder \in Folders
  BY LoaderAssumption DEF Init
<1>2. DOMAIN << >> = {}
  OBVIOUS
<1>3. 0 \in 0..MaxEdits
  BY LoaderAssumption
<1>4. TypeOK
  <2>1. << >> \in Seq(begun) /\ << >> \in Seq(Graph)
    OBVIOUS
  <2> QED
    BY <1>1, <1>2, <1>3, <2>1 DEF TypeOK, begun, Graph
<1>5. Named /\ Graphs /\ Stack /\ Ended
  BY <1>1, <1>2 DEF Named, Graphs, Stack, Ended, Linking
<1> QED
  BY <1>4, <1>5 DEF LInv

\* Every step keeps the invariant, and no instance is ever made anew.
LEMMA StepKeeps ==
  ASSUME LInv, [Next]_vars
  PROVE  LInv' /\ \A m \in DOMAIN inst : m \in DOMAIN inst' /\ inst'[m] = inst[m]
<1>1. CASE Start \/ ResolveModuleCallback \/ ResolveDynamicModuleCallback
  <2>1. LInv' /\ \E x : Grown(x)
    BY <1>1, StartKeeps, ResolveKeeps, ResolveDynamicKeeps
  <2> QED
    BY <2>1 DEF Grown
<1>2. CASE LinkImports \/ FinishLinking \/ EvaluateImports \/ AwaitImports \/ Suspend
  <2>1. LInv'
    BY <1>2, LinkImportsKeeps, FinishLinkingKeeps, EvaluateImportsKeeps,
       AwaitImportsKeeps, SuspendKeeps
  <2>2. UNCHANGED inst
    BY <1>2 DEF LinkImports, FinishLinking, EvaluateImports, AwaitImports, Suspend
  <2> QED
    BY <2>1, <2>2
<1>3. CASE FinishBody \/ Throw \/ RunMicrotask \/ FinishEvaluation
  <2>1. LInv'
    BY <1>3, FinishBodyKeeps, ThrowKeeps, RunMicrotaskKeeps, FinishEvaluationKeeps
  <2>2. UNCHANGED inst
    BY <1>3 DEF FinishBody, Throw, RunMicrotask, FinishEvaluation
  <2> QED
    BY <2>1, <2>2
<1>4. CASE \/ OutOfMemory
           \/ \E p \in Paths, c \in Contents : EditFile(p, c)
           \/ \E f \in Folders : EditFolder(f)
  <2>1. LInv'
    BY <1>4, EditsKeep
  <2>2. UNCHANGED inst
    BY <1>4 DEF OutOfMemory, EditFile, EditFolder, program
  <2> QED
    BY <2>1, <2>2
<1>5. CASE UNCHANGED vars
  <2>1. UNCHANGED <<files, folder, inst, loads, at, jobs, ran, threw, promise, status, edits>>
    BY <1>5 DEF vars
  <2>2. TypeOK'
    BY <2>1 DEF LInv, TypeOK, begun
  <2> QED
    BY <2>1, <2>2, SameProgram
<1> QED
  BY <1>1, <1>2, <1>3, <1>4, <1>5 DEF Next, Step

\* The invariant holds always.
LEMMA InvHolds == Spec => []LInv
<1>1. Init => LInv
  BY InitHolds
<1>2. LInv /\ [Next]_vars => LInv'
  BY StepKeeps
<1> QED
  BY <1>1, <1>2, PTL DEF Spec

\* The loader's variables keep their types: every list of modules to enter and every
\* microtask names an instance that exists, no body both ends and throws, and a
\* promise is kept for no module that was not made (winx_modules.cpp:7-109).
THEOREM TypesHold == Spec => []TypeOK
<1>1. LInv => TypeOK
  BY DEF LInv
<1> QED
  BY <1>1, InvHolds, PTL

\* When a module begins, all it imports is loaded, compiled and linked, however
\* deep the graph, whoever edits files meanwhile, and whatever loads around it
\* (winx_modules.cpp:20-37).
THEOREM OnlyWholeGraphsRun == Spec => []RunsOnlyWholeGraphs
<1>1. ASSUME LInv, NEW m \in begun, NEW n \in Tree(m)
      PROVE  Linked(n)
  <2>1. TypeOK /\ Named /\ Graphs /\ Stack
    BY <1>1 DEF LInv
  <2>2. m \in DOMAIN inst /\ n \in DOMAIN inst /\ m \in Id /\ n \in Id /\ InTree(m, n)
    BY <1>1, <2>1 DEF TypeOK, Tree
  <2> SUFFICES ASSUME Linking, n \in Tree(Top.root) PROVE FALSE
    BY <2>1, <2>2 DEF Graphs
  <2>3. PICK r \in DOMAIN inst : r = Top.root /\ r \in Id /\ InTree(r, n)
    BY <2>1, TopOfStack DEF Linking, Tree, TypeOK
  <2>4. /\ begun \cap Tree(r) = {}
        /\ \A h \in DOMAIN inst : \A k \in DOMAIN Imports(h) : r # Append(h, k)
    BY <2>1, <2>3 DEF Graphs
  <2>5. PICK a \in Nat, b \in Nat, c \in Nat :
          a = Len(m) /\ b = Len(r) /\ c = Len(n) /\ a <= c /\ b <= c
    BY <2>2, <2>3, LenProperties DEF InTree, Id
  <2>6. SubSeq(n, 1, a) = m /\ SubSeq(n, 1, b) = r
    BY <2>2, <2>3, <2>5 DEF InTree
  <2>7. \A i \in 1..c : n[i] \in Nat \ {0}
    BY <2>2, <2>5, ElementOfSeq DEF Id
  <2>8. /\ \A i \in 1..a : m[i] = n[i]
        /\ \A i \in 1..b : r[i] = n[i]
    <3>1. \A i \in 1..a : n[i] \in Nat \ {0}
      BY <2>5, <2>7
    <3>2. \A i \in 1..b : n[i] \in Nat \ {0}
      BY <2>5, <2>7
    <3> QED
      BY <2>5, <2>6, <3>1, <3>2, SubSeqProperties
  <2>9. CASE b <= a
    <3>1. SubSeq(m, 1, b) = r
      <4>1. \A i \in 1..b : m[i] \in Nat \ {0} /\ m[i] = n[i]
        BY <2>5, <2>7, <2>8, <2>9
      <4>2. /\ SubSeq(m, 1, b) \in Seq(Nat \ {0}) /\ Len(SubSeq(m, 1, b)) = b
            /\ \A i \in 1..b : SubSeq(m, 1, b)[i] = m[i]
        BY <4>1, SubSeqProperties
      <4>3. \A i \in 1..b : SubSeq(m, 1, b)[i] = r[i]
        BY <2>8, <4>1, <4>2
      <4> QED
        BY <2>3, <2>5, <4>2, <4>3, SeqEqual DEF Id
    <3>2. ASSUME NEW k \in b..(a - 1)
          PROVE  m[k + 1] \in DOMAIN Imports(SubSeq(m, 1, k))
      <4>1. k \in b..(c - 1) /\ k + 1 \in 1..a /\ k \in 0..a /\ k \in Nat /\ k <= a
        BY <2>5, <3>2
      <4>2. n[k + 1] \in DOMAIN Imports(SubSeq(n, 1, k))
        BY <2>3, <2>5, <4>1 DEF InTree
      <4>3. SubSeq(m, 1, k) = SubSeq(n, 1, k)
        <5>1. \A i \in 1..k : n[i] \in Nat \ {0} /\ m[i] \in Nat \ {0} /\ m[i] = n[i]
          BY <2>5, <2>7, <2>8, <4>1
        <5>2. /\ SubSeq(m, 1, k) \in Seq(Nat \ {0}) /\ Len(SubSeq(m, 1, k)) = k
              /\ \A i \in 1..k : SubSeq(m, 1, k)[i] = m[i]
          BY <4>1, <5>1, SubSeqProperties
        <5>3. /\ SubSeq(n, 1, k) \in Seq(Nat \ {0}) /\ Len(SubSeq(n, 1, k)) = k
              /\ \A i \in 1..k : SubSeq(n, 1, k)[i] = n[i]
          BY <4>1, <5>1, SubSeqProperties
        <5> QED
          BY <5>1, <5>2, <5>3, SeqEqual
      <4> QED
        BY <2>8, <4>1, <4>2, <4>3
    <3>3. InTree(r, m)
      BY <2>5, <2>9, <3>1, <3>2 DEF InTree
    <3> QED
      BY <1>1, <2>2, <2>4, <3>3 DEF Tree
  <2>10. CASE a < b
    <3>1. r # << >>
      BY <2>1, <2>3 DEF Named
    <3>2. PICK p \in Id, k \in Nat \ {0} :
            p = Importer(r) /\ r = Append(p, k) /\ Len(p) = b - 1 /\ r[b] = k
      BY <2>3, <2>5, <3>1, NameOfKid
    <3>3. b - 1 \in a..(c - 1) /\ (b - 1) + 1 = b /\ b - 1 \in Nat /\ b \in 1..b
      BY <2>5, <2>10
    <3>4. n[b] \in DOMAIN Imports(SubSeq(n, 1, b - 1))
      BY <2>2, <2>5, <3>3 DEF InTree
    <3>5. SubSeq(n, 1, b - 1) = p
      <4>1. \A i \in 1..(b - 1) : r[i] = p[i]
        <5>1. \A i \in 1..Len(p) : Append(p, k)[i] = p[i]
          BY KidNames
        <5> QED
          BY <3>2, <5>1
      <4>2. \A i \in 1..(b - 1) : n[i] \in Nat \ {0} /\ n[i] = p[i]
        BY <2>5, <2>7, <2>8, <3>3, <4>1
      <4>3. /\ SubSeq(n, 1, b - 1) \in Seq(Nat \ {0}) /\ Len(SubSeq(n, 1, b - 1)) = b - 1
            /\ \A i \in 1..(b - 1) : SubSeq(n, 1, b - 1)[i] = n[i]
        BY <3>3, <4>2, SubSeqProperties
      <4> QED
        BY <3>2, <4>2, <4>3, SeqEqual DEF Id
    <3>6. p \in DOMAIN inst
      <4>1. a > 0
        BY <2>1, <2>2, <2>5, Shortened DEF Named, Id
      <4>2. b - 1 \in 1..c
        BY <2>5, <2>10, <4>1
      <4> QED
        BY <2>1, <2>2, <2>5, <3>5, <4>2 DEF Named
    <3>7. n[b] = k
      BY <2>8, <3>2, <3>3
    <3> QED
      BY <2>4, <3>2, <3>4, <3>5, <3>6, <3>7
  <2> QED
    BY <2>5, <2>9, <2>10
<1>2. LInv => RunsOnlyWholeGraphs
  BY <1>1 DEF RunsOnlyWholeGraphs, Linked, Resolved
<1> QED
  BY <1>2, InvHolds, PTL

\* What a module that ran or threw imports ran to its end.
ImportsRunFirst ==
  \A m \in ran \cup threw : \A k \in DOMAIN Imports(m) : Append(m, k) \in ran

\* A body is entered only once all it imports ran, and what ran stays so; needed
\* where a whole graph is shown to have run.
LEMMA ImportsRanBefore == Spec => []ImportsRunFirst
<1>1. Init => ImportsRunFirst
  BY DEF Init, ImportsRunFirst
<1>2. ASSUME LInv, ImportsRunFirst, [Next]_vars
      PROVE  ImportsRunFirst'
  <2>1. ASSUME NEW m \in ran' \cup threw'
        PROVE  m \in DOMAIN inst /\ Ready(m)
    <3>1. CASE m \in ran \cup threw
      BY <1>2, <3>1 DEF LInv, TypeOK, ImportsRunFirst, Ready
    <3>2. CASE m \in begun /\ InBody(m)
      BY <1>2, <3>2 DEF LInv, TypeOK, InBody
    <3>3. m \in ran \cup threw \/ (m \in begun /\ InBody(m))
      <4>1. CASE FinishBody \/ Throw
        BY <2>1, <4>1 DEF FinishBody, Throw
      <4>2. CASE \/ Start \/ ResolveModuleCallback \/ LinkImports \/ FinishLinking
                 \/ EvaluateImports \/ AwaitImports \/ ResolveDynamicModuleCallback
        BY <2>1, <4>2 DEF Start, ResolveModuleCallback, LinkImports, FinishLinking,
           EvaluateImports, AwaitImports, ResolveDynamicModuleCallback
      <4>3. CASE \/ Suspend \/ OutOfMemory \/ RunMicrotask \/ FinishEvaluation
                 \/ \E p \in Paths, c \in Contents : EditFile(p, c)
                 \/ \E f \in Folders : EditFolder(f)
                 \/ UNCHANGED vars
        BY <2>1, <4>3 DEF Suspend, OutOfMemory, RunMicrotask, FinishEvaluation,
           EditFile, EditFolder, program, vars
      <4> QED
        BY <1>2, <4>1, <4>2, <4>3 DEF Next, Step
    <3> QED
      BY <3>1, <3>2, <3>3
  <2>2. ran \subseteq ran'
    <3>1. CASE FinishBody \/ Throw
      BY <3>1 DEF FinishBody, Throw
    <3>2. CASE \/ Start \/ ResolveModuleCallback \/ LinkImports \/ FinishLinking
               \/ EvaluateImports \/ AwaitImports \/ ResolveDynamicModuleCallback
      BY <3>2 DEF Start, ResolveModuleCallback, LinkImports, FinishLinking,
         EvaluateImports, AwaitImports, ResolveDynamicModuleCallback
    <3>3. CASE \/ Suspend \/ OutOfMemory \/ RunMicrotask \/ FinishEvaluation
               \/ \E p \in Paths, c \in Contents : EditFile(p, c)
               \/ \E f \in Folders : EditFolder(f)
               \/ UNCHANGED vars
      BY <3>3 DEF Suspend, OutOfMemory, RunMicrotask, FinishEvaluation,
         EditFile, EditFolder, program, vars
    <3> QED
      BY <1>2, <3>1, <3>2, <3>3 DEF Next, Step
  <2>3. \A m \in DOMAIN inst : Imports(m)' = Imports(m)
    BY <1>2, StepKeeps DEF Imports
  <2> QED
    BY <2>1, <2>2, <2>3 DEF ImportsRunFirst, Ready
<1> QED
  BY <1>1, <1>2, InvHolds, PTL DEF Spec

\* What the exit status says of the load in progress.
Exits == /\ status = "exit 1" => Linking
         /\ status = "exit 0" => ~Linking

\* The exit status is set where something is being linked, or all is done.
LEMMA StatusStep ==
  ASSUME LInv, Exits, [Next]_vars
  PROVE  Exits'
<1>1. TypeOK /\ Stack
  BY DEF LInv
<1>2. ASSUME NEW x, NEW q, Load(x, q), status = "running"
      PROVE  Exits'
  <2> DEFINE new == [root |-> x, phase |-> "link", todo |-> <<x>>]
  <2>1. loads' = Append(loads, new) /\ status' \in {"running", "exit 1"}
    BY <1>2 DEF Load, LoadModule
  <2>2. PICK n, S : n = new /\ S = Graph \cup {n}
    OBVIOUS
  <2>3. Len(loads') = Len(loads) + 1 /\ loads' # << >> /\ loads'[Len(loads) + 1] = n
    <3>1. loads \in Seq(Graph) /\ Graph \subseteq S /\ n \in S
      BY <1>1, <2>2 DEF TypeOK, Graph
    <3>2. loads \in Seq(S)
      BY <3>1, ListOfMore
    <3>3. /\ Len(Append(loads, n)) = Len(loads) + 1 /\ Append(loads, n) # << >>
          /\ Append(loads, n)[Len(loads) + 1] = n
      BY <3>1, <3>2, AppendProperties
    <3> QED
      BY <2>1, <2>2, <3>3
  <2>4. Linking'
    <3>1. Top' = n
      BY <2>3 DEF Top
    <3>2. n.phase = "link"
      BY <2>2
    <3> QED
      BY <2>3, <3>1, <3>2 DEF Linking
  <2> QED
    BY <2>1, <2>4 DEF Exits
<1>3. CASE Start \/ ResolveDynamicModuleCallback
  <2>1. status = "running"
    BY <1>3 DEF Start, ResolveDynamicModuleCallback, InBody, Evaluating
  <2> QED
    BY <1>2, <1>3, <2>1 DEF Start, ResolveDynamicModuleCallback
<1>4. CASE ResolveModuleCallback
  <2>1. Linking /\ status = "running" /\ UNCHANGED loads
    BY <1>4 DEF ResolveModuleCallback, Working, Linking
  <2>2. status' \in {"running", "exit 1"}
    BY <1>4, <2>1 DEF ResolveModuleCallback, LoadModule
  <2> QED
    BY <2>1, <2>2 DEF Exits, Linking, Top
<1>5. CASE LinkImports
  <2>1. Linking /\ status = "running"
    BY <1>5 DEF LinkImports, Working, Linking
  <2>2. (status' = "exit 1" /\ UNCHANGED loads) \/ status' = status
    BY <1>5 DEF LinkImports
  <2> QED
    BY <2>1, <2>2 DEF Exits, Linking, Top
<1>6. CASE FinishLinking
  <2>1. Linking /\ status = "running"
    BY <1>6 DEF FinishLinking, Working, Linking
  <2>2. (status' = "exit 1" /\ UNCHANGED loads) \/ status' = status
    BY <1>6 DEF FinishLinking
  <2> QED
    BY <2>1, <2>2 DEF Exits, Linking, Top
<1>7. CASE EvaluateImports \/ AwaitImports \/ Suspend \/ FinishBody
  <2>1. status' = "running"
    BY <1>7 DEF EvaluateImports, AwaitImports, Suspend, FinishBody, InBody, Evaluating
  <2> QED
    BY <2>1 DEF Exits
<1>8. CASE Throw \/ OutOfMemory \/ RunMicrotask
  <2>1. status' \in {"running", "aborted"}
    BY <1>8 DEF Throw, OutOfMemory, RunMicrotask, InBody, Evaluating
  <2> QED
    BY <2>1 DEF Exits
<1>9. CASE FinishEvaluation
  <2>1. Return /\ status = "running" /\ loads # << >>
    BY <1>9 DEF FinishEvaluation, Evaluating
  <2>2. status' = "running" \/ (status' = "exit 0" /\ Len(loads) = 1)
    BY <2>1 DEF Return
  <2>3. ASSUME Len(loads) = 1
        PROVE  loads' = << >>
    <3>1. loads' = SubSeq(loads, 1, 0)
      <4>1. loads' = SubSeq(loads, 1, Len(loads) - 1)
        BY <2>1 DEF Return
      <4>2. Len(loads) - 1 = 0
        BY <2>3
      <4> QED
        BY <4>1, <4>2
    <3>2. SubSeq(loads, 1, 0) = << >>
      BY SubSeqEmpty
    <3> QED
      BY <3>1, <3>2
  <2> QED
    BY <2>2, <2>3 DEF Exits, Linking
<1>10. CASE \/ \E p \in Paths, c \in Contents : EditFile(p, c)
            \/ \E f \in Folders : EditFolder(f)
            \/ UNCHANGED vars
  <2>1. UNCHANGED <<loads, status>>
    BY <1>10 DEF EditFile, EditFolder, program, vars
  <2> QED
    BY <2>1 DEF Exits, Linking, Top
<1> QED
  BY <1>3, <1>4, <1>5, <1>6, <1>7, <1>8, <1>9, <1>10 DEF Next, Step

\* The process exits with status 1 only while it links a graph none of which has
\* begun, and with status 0 only if every module that was asked for is linked
\* (winx.cpp:28, 205, winx_modules.cpp:20-37).
THEOREM StatusTellsWhatLoaded == Spec => []StatusTellsLoadFailures
<1>1. Init => Exits
  BY DEF Init, Exits
<1>2. LInv /\ Exits /\ [Next]_vars => Exits'
  BY StatusStep
<1>3. Spec => []Exits
  BY <1>1, <1>2, InvHolds, PTL DEF Spec
<1>4. ASSUME LInv, Exits
      PROVE  StatusTellsLoadFailures
  <2>1. TypeOK /\ Graphs /\ Stack
    BY <1>4 DEF LInv
  <2>2. ASSUME status = "exit 1"
        PROVE  loads # << >> /\ Top.phase = "link" /\ Top.root \notin begun
    <3>1. Linking
      BY <1>4, <2>2 DEF Exits
    <3>2. PICK r \in DOMAIN inst : r = Top.root /\ r \in Id
      BY <2>1, <3>1, TopOfStack DEF Linking, TypeOK
    <3>3. r \in Tree(r)
      BY <3>2, InOwnTree DEF Tree
    <3> QED
      BY <2>1, <3>1, <3>2, <3>3 DEF Graphs, Linking
  <2>3. ASSUME status = "exit 0"
        PROVE  \A m \in DOMAIN inst : inst[m].code.valid /\ NamesResolve(m)
    BY <1>4, <2>1, <2>3, AllLinked DEF Exits, Linked
  <2> QED
    BY <2>2, <2>3 DEF StatusTellsLoadFailures
<1> QED
  BY <1>3, <1>4, InvHolds, PTL
=============================================================================
