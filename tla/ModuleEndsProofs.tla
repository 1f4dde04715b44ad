-------------------------- MODULE ModuleEndsProofs --------------------------
(***************************************************************************)
(* Proofs that nothing is left waiting when the process ends by itself,    *)
(* that modules which import each other never run, that what import()      *)
(* asked for has run once it is fulfilled, and that every import() is      *)
(* answered, for all values of the constants.                              *)
(*                                                                         *)
(* Waiters says what a module that has begun waits for; Order, in which    *)
(* order modules are to be entered; Ends, when the process ends, and Depth *)
(* how deep modules nest.  A module left waiting would wait for an import  *)
(* that is left waiting, and so on, deeper than modules nest.  A cycle     *)
(* would go on without end in the same way.  Apart and Awaited say that    *)
(* nothing reaches into the graph that an import() has loaded, so that     *)
(* what waits there can only wait for more of that graph.  Callers says    *)
(* which body each load was asked for by, and that this body waits below   *)
(* it.                                                                     *)
(***************************************************************************)
EXTENDS ModuleBodiesProofs, WellFoundedInduction

-----------------------------------------------------------------------------
\* Instance m is still to be entered by some load.
Somewhere(m) == \E i \in DOMAIN loads : m \in Listed(i)

\* Something that m imports, directly or not, or m itself, threw.
Dead(m) == Tree(m) \cap threw # {}

\* All that m imports has begun, and m waits for a microtask of its own, or for an
\* import the end of which is still to be told.
Held(m) ==
  /\ \A k \in DOMAIN Imports(m) : Append(m, k) \in begun
  /\ m \in Past \/ \E k \in DOMAIN Imports(m) : ~Told(Append(m, k))

\* What becomes of the modules that have begun.
Provided(m) == Somewhere(m) \/ Dead(m) \/ Held(m)
Waiters == \A m \in begun : Provided(m)

\* The imports of a module that has begun have begun, or come before it.
Before(s) ==
  \A j \in DOMAIN s : s[j] \in begun =>
    \A k \in DOMAIN Imports(s[j]) :
      Append(s[j], k) \in begun \/ \E h \in DOMAIN s : h < j /\ s[h] = Append(s[j], k)

\* Importers come behind their imports, and what has begun behind nothing but what it
\* imports, directly or not.
Above(s) ==
  \A j \in DOMAIN s :
    /\ Import(s[j]) => \E h \in DOMAIN s : j < h /\ s[h] = Importer(s[j])
    /\ s[j] \in begun => \A h \in DOMAIN s : h <= j => InTree(s[j], s[h])

\* The order in which modules are to be entered.
Order ==
  \A i \in DOMAIN loads :
    /\ loads[i].phase # "link" => Before(loads[i].todo)
    /\ loads[i].phase = "evaluate" => Above(loads[i].todo)

\* No module nests deeper than one below what the stack, or the heap, can bear, and
\* one that does is still to be linked.
Shallow(n) == Len(n) <= MaxStack
ToLink(n)  == Linking /\ (n \in Range(Top.todo) \/ (Top.todo # << >> /\ Importer(n) = Head(Top.todo)))
Depth == \A n \in DOMAIN inst : Len(n) <= MaxStack + 1 /\ (Shallow(n) \/ ToLink(n))

\* The process ends by itself only when nothing is left to do.
Ends == Depth /\ (status = "exit 0" => loads = << >> /\ jobs = << >>)

\* What every step keeps, given LInv and BInv.
EInv == Waiters /\ Order /\ Ends

-----------------------------------------------------------------------------
(* Trees and lists.                                                        *)

\* A set of numbers has a lowest.
LEMMA Lowest ==
  ASSUME NEW S, S \subseteq Nat, S # {}
  PROVE  \E n \in S : n - 1 \notin S
<1>1. PICK R : R = {ss \in Nat \X Nat : ss[1] < ss[2]}
  OBVIOUS
<1>2. IsWellFoundedOn(R, Nat)
  BY <1>1, NatLessThanWellFounded DEF OpToRel
<1>3. PICK n \in S : \A m \in S : <<m, n>> \notin R
  BY <1>2, WFMin
<1>4. ASSUME n - 1 \in S PROVE FALSE
  <2>1. n - 1 \in Nat /\ n \in Nat /\ n - 1 < n
    BY <1>4
  <2> QED
    BY <1>1, <1>3, <1>4, <2>1
<1> QED
  BY <1>4

\* One that has a bound has a highest.
LEMMA Highest ==
  ASSUME NEW S, S \subseteq Nat, S # {}, NEW b \in Nat, \A n \in S : n <= b
  PROVE  \E n \in S : n + 1 \notin S
<1>1. PICK T \in SUBSET Nat : T = {b - n : n \in S}
  <2>1. \A n \in S : b - n \in Nat
    OBVIOUS
  <2> QED
    BY <2>1
<1>2. T # {}
  BY <1>1
<1>3. PICK x \in T : x - 1 \notin T
  BY <1>2, Lowest
<1>4. PICK n \in S : x = b - n
  BY <1>1, <1>3
<1>5. ASSUME n + 1 \in S PROVE FALSE
  <2>1. b - (n + 1) \in T /\ b - (n + 1) = x - 1
    BY <1>1, <1>4, <1>5
  <2> QED
    BY <1>3, <2>1
<1> QED
  BY <1>5

\* What is in the tree of something in a tree is in that tree.
LEMMA TreeOfTree ==
  ASSUME NEW m \in Id, NEW n \in Id, NEW x \in Id, InTree(m, n), InTree(n, x)
  PROVE  InTree(m, x)
<1>1. PICK a \in Nat, b \in Nat, c \in Nat :
        a = Len(m) /\ b = Len(n) /\ c = Len(x) /\ a <= b /\ b <= c
  BY LenProperties DEF InTree, Id
<1>2. \A i \in 1..c : x[i] \in Nat \ {0}
  BY <1>1, ElementOfSeq DEF Id
<1>3. ASSUME NEW k \in 0..b
      PROVE  SubSeq(x, 1, k) = SubSeq(n, 1, k)
  <2>1. SubSeq(x, 1, b) = n
    BY <1>1 DEF InTree
  <2>2. \A i \in 1..b : x[i] \in Nat \ {0}
    BY <1>1, <1>2
  <2>3. \A i \in 1..b : n[i] = x[i]
    BY <1>1, <2>1, <2>2, SubSeqProperties
  <2>4. \A i \in 1..k : x[i] \in Nat \ {0} /\ n[i] \in Nat \ {0} /\ n[i] = x[i]
    BY <1>1, <1>3, <2>2, <2>3
  <2>5. /\ SubSeq(x, 1, k) \in Seq(Nat \ {0}) /\ Len(SubSeq(x, 1, k)) = k
        /\ \A i \in 1..k : SubSeq(x, 1, k)[i] = x[i]
    BY <1>3, <2>4, SubSeqProperties
  <2>6. /\ SubSeq(n, 1, k) \in Seq(Nat \ {0}) /\ Len(SubSeq(n, 1, k)) = k
        /\ \A i \in 1..k : SubSeq(n, 1, k)[i] = n[i]
    BY <1>3, <2>4, SubSeqProperties
  <2> QED
    BY <2>4, <2>5, <2>6, SeqEqual
<1>4. SubSeq(x, 1, a) = m
  <2>1. a \in 0..b /\ SubSeq(n, 1, a) = m
    BY <1>1 DEF InTree
  <2> QED
    BY <1>3, <2>1
<1>5. ASSUME NEW k \in a..(c - 1)
      PROVE  x[k + 1] \in DOMAIN Imports(SubSeq(x, 1, k))
  <2>1. CASE b <= k
    <3>1. k \in b..(c - 1)
      BY <1>1, <1>5, <2>1
    <3> QED
      BY <1>1, <3>1 DEF InTree
  <2>2. CASE ~(b <= k)
    <3>1. k \in a..(b - 1) /\ k \in 0..b /\ k + 1 \in 1..b
      BY <1>1, <1>5, <2>2
    <3>2. n[k + 1] \in DOMAIN Imports(SubSeq(n, 1, k))
      BY <1>1, <3>1 DEF InTree
    <3>3. x[k + 1] = n[k + 1]
      <4>1. SubSeq(x, 1, b) = n
        BY <1>1 DEF InTree
      <4>2. \A i \in 1..b : x[i] \in Nat \ {0}
        BY <1>1, <1>2
      <4>3. \A i \in 1..b : SubSeq(x, 1, b)[i] = x[i]
        BY <1>1, <4>2, SubSeqProperties
      <4> QED
        BY <3>1, <4>1, <4>3
    <3> QED
      BY <1>3, <3>1, <3>2, <3>3
  <2> QED
    BY <2>1, <2>2
<1>6. a <= c
  BY <1>1
<1> QED
  BY <1>1, <1>4, <1>5, <1>6 DEF InTree

\* Which instances are in the tree of which does not change.
LEMMA TreeStays ==
  ASSUME LInv, Kept, NEW r \in DOMAIN inst, NEW n \in DOMAIN inst
  PROVE  InTree(r, n)' <=> InTree(r, n)
<1>1. r \in Id /\ n \in Id /\ r # << >>
  BY DEF LInv, TypeOK, Named
<1>2. PICK a \in Nat \ {0}, c \in Nat : a = Len(r) /\ c = Len(n)
  BY <1>1, Shortened, LenProperties DEF Id
<1>3. ASSUME NEW k \in a..(c - 1)
      PROVE  Imports(SubSeq(n, 1, k))' = Imports(SubSeq(n, 1, k))
  <2>1. k \in 1..Len(n)
    BY <1>2, <1>3
  <2>2. SubSeq(n, 1, k) \in DOMAIN inst
    BY <2>1 DEF LInv, Named
  <2> QED
    BY <2>2, KeptCode
<1> QED
  BY <1>2, <1>3 DEF InTree

\* What threw stays what threw.
LEMMA DeadStays ==
  ASSUME LInv, Kept, threw \subseteq threw', NEW m \in DOMAIN inst, Dead(m)
  PROVE  Dead(m)'
<1>1. PICK n \in DOMAIN inst : InTree(m, n) /\ n \in threw
  BY DEF Dead, Tree
<1>2. n \in DOMAIN inst' /\ InTree(m, n)' /\ n \in threw'
  BY <1>1, TreeStays DEF Kept
<1>3. Tree(m)' = {x \in DOMAIN inst' : InTree(m, x)'} /\ Dead(m)' = (Tree(m)' \cap threw' # {})
  BY DEF Tree, Dead
<1> QED
  BY <1>2, <1>3

\* The order of a list of instances stays what it is where none begins.
LEMMA OrderStays ==
  ASSUME LInv, Kept, begun' = begun, NEW s \in Seq(Id), Range(s) \subseteq DOMAIN inst
  PROVE  /\ Before(s) => Before(s)'
         /\ Above(s) => Above(s)'
<1>1. \A j \in DOMAIN s : s[j] \in DOMAIN inst
  BY DEF Range
<1>2. begun \subseteq DOMAIN inst
  BY Referred
<1>3. Before(s) => Before(s)'
  BY <1>1, KeptCode DEF Before
<1>4. \A n : Import(n)' => Import(n)
  BY <1>2, KeptCode DEF Import
<1>5. Above(s) => Above(s)'
  <2>1. \A j, h \in DOMAIN s : InTree(s[j], s[h]) => InTree(s[j], s[h])'
    BY <1>1, TreeStays
  <2> QED
    BY <1>4, <2>1 DEF Above
<1> QED
  BY <1>3, <1>5

\* Nor does it when the first of the list, which had begun, is taken off.
LEMMA OrderOfTail ==
  ASSUME NEW s \in Seq(Id), s # << >>, Head(s) \in begun
  PROVE  /\ Before(s) => Before(Tail(s))
         /\ Above(s) => Above(Tail(s))
<1>1. PICK n \in Nat \ {0} : n = Len(s) /\ DOMAIN s = 1..n
  BY LenProperties, EmptySeq
<1>2. /\ Head(s) = s[1] /\ DOMAIN Tail(s) = 1..(n - 1)
      /\ \A i \in 1..(n - 1) : Tail(s)[i] = s[i + 1]
  <2>1. /\ Tail(s) \in Seq(Id) /\ Head(s) = s[1] /\ Len(Tail(s)) = n - 1
        /\ \A i \in 1..Len(Tail(s)) : Tail(s)[i] = s[i + 1]
    BY <1>1, HeadTailProperties
  <2> QED
    BY <2>1, LenProperties
<1>3. ASSUME Before(s), NEW j \in 1..(n - 1), Tail(s)[j] \in begun,
             NEW k \in DOMAIN Imports(Tail(s)[j]), Append(Tail(s)[j], k) \notin begun
      PROVE  \E h \in 1..(n - 1) : h < j /\ Tail(s)[h] = Append(Tail(s)[j], k)
  <2>1. j + 1 \in 1..n /\ Tail(s)[j] = s[j + 1]
    BY <1>2, <1>3
  <2>2. PICK h \in 1..n : h < j + 1 /\ s[h] = Append(s[j + 1], k)
    BY <1>1, <1>3, <2>1 DEF Before
  <2>3. h # 1
    BY <1>2, <1>3, <2>1, <2>2
  <2>4. h - 1 \in 1..(n - 1) /\ h - 1 < j /\ (h - 1) + 1 = h
    BY <1>3, <2>2, <2>3
  <2> QED
    BY <1>2, <2>1, <2>2, <2>4
<1>4. ASSUME Above(s), NEW j \in 1..(n - 1), Import(Tail(s)[j])
      PROVE  \E h \in 1..(n - 1) : j < h /\ Tail(s)[h] = Importer(Tail(s)[j])
  <2>1. j + 1 \in 1..n /\ Tail(s)[j] = s[j + 1]
    BY <1>2, <1>4
  <2>2. PICK h \in 1..n : j + 1 < h /\ s[h] = Importer(s[j + 1])
    BY <1>1, <1>4, <2>1 DEF Above
  <2>3. h - 1 \in 1..(n - 1) /\ j < h - 1 /\ (h - 1) + 1 = h
    BY <1>4, <2>2
  <2> QED
    BY <1>2, <2>1, <2>2, <2>3
<1>5. ASSUME Above(s), NEW j \in 1..(n - 1), Tail(s)[j] \in begun, NEW h \in 1..(n - 1), h <= j
      PROVE  InTree(Tail(s)[j], Tail(s)[h])
  <2>1. j + 1 \in 1..n /\ h + 1 \in 1..n /\ h + 1 <= j + 1
    BY <1>5
  <2>2. Tail(s)[j] = s[j + 1] /\ Tail(s)[h] = s[h + 1]
    BY <1>2, <1>5
  <2> QED
    BY <1>1, <1>5, <2>1, <2>2 DEF Above
<1>6. Before(s) => Before(Tail(s))
  BY <1>2, <1>3 DEF Before
<1>7. Above(s) => Above(Tail(s))
  BY <1>2, <1>4, <1>5 DEF Above
<1> QED
  BY <1>6, <1>7

-----------------------------------------------------------------------------
(* What waits goes on waiting.                                             *)

\* Who waits for a microtask or an import still does, unless that was the last.
LEMMA HeldStays ==
  ASSUME Kept, NEW m \in DOMAIN inst, Held(m), begun \subseteq begun', m \in Past => m \in Past',
         \A k \in DOMAIN Imports(m) : ~Told(Append(m, k)) => ~Told(Append(m, k))'
  PROVE  Held(m)'
BY KeptCode DEF Held

\* All are provided for if what was to be entered still is, or is provided for otherwise,
\* and so is what waited.
LEMMA WaitersStay ==
  ASSUME LInv, Kept, Waiters, threw \subseteq threw',
         \A m \in begun' \ begun : Provided(m)',
         \A m \in begun : Somewhere(m) => Provided(m)',
         \A m \in begun : Held(m) => Provided(m)'
  PROVE  Waiters'
<1>1. ASSUME NEW m \in begun'
      PROVE  Provided(m)'
  <2>1. CASE m \notin begun
    BY <1>1, <2>1
  <2>2. CASE m \in begun
    <3>1. CASE Somewhere(m) \/ Held(m)
      BY <2>2, <3>1
    <3>2. CASE Dead(m)
      <4>1. m \in DOMAIN inst
        BY <2>2, Referred
      <4>2. Dead(m)'
        BY <3>2, <4>1, DeadStays
      <4> QED
        BY <4>2 DEF Provided
    <3> QED
      BY <2>2, <3>1, <3>2 DEF Waiters, Provided
  <2> QED
    BY <2>1, <2>2
<1> QED
  BY <1>1 DEF Waiters

\* Nothing changes for those who wait when no body goes on.
LEMMA WaitersQuiet ==
  ASSUME LInv, Kept, Waiters, begun' = begun, UNCHANGED <<jobs, ran, threw>>,
         \A m \in begun : Somewhere(m) => Provided(m)'
  PROVE  Waiters'
<1>1. Past' = Past /\ \A m : Told(m)' <=> Told(m)
  BY DEF Past, Told
<1>2. ASSUME NEW m \in begun, Held(m)
      PROVE  Provided(m)'
  <2>1. m \in DOMAIN inst
    BY Referred
  <2>2. Held(m)'
    BY <1>1, <1>2, <2>1, HeldStays
  <2> QED
    BY <2>2 DEF Provided
<1> QED
  BY <1>2, WaitersStay

\* The order of the lists stays if each of them is the same, or is emptied, or loses a
\* first that had begun.
LEMMA OrderFewer ==
  ASSUME LInv, Kept, begun' = begun, Order, Fewer,
         \A i \in DOMAIN loads' : loads'[i].phase # "link" =>
           \/ loads'[i].todo \in {loads[i].todo, << >>}
           \/ Head(loads[i].todo) \in begun
  PROVE  Order'
<1>1. ASSUME NEW i \in DOMAIN loads', loads'[i].phase # "link"
      PROVE  /\ Before(loads[i].todo)'
             /\ loads'[i].phase = "evaluate" => Above(loads[i].todo)'
  <2>1. /\ i \in DOMAIN loads /\ loads[i].phase = loads'[i].phase
        /\ \/ loads'[i].todo \in {loads[i].todo, << >>}
           \/ loads[i].todo # << >> /\ loads'[i].todo = Tail(loads[i].todo)
    BY <1>1 DEF Fewer
  <2>2. PICK s \in Seq(Id) : s = loads[i].todo /\ Range(s) \subseteq DOMAIN inst
    BY <1>1, <2>1, Referred DEF Listed
  <2>3. Before(s) /\ (loads'[i].phase = "evaluate" => Above(s))
    BY <1>1, <2>1, <2>2 DEF Order
  <2>4. PICK t \in Seq(Id) : t = loads'[i].todo /\ Range(t) \subseteq DOMAIN inst
                             /\ Before(t) /\ (loads'[i].phase = "evaluate" => Above(t))
    <3>1. CASE loads'[i].todo = s
      BY <2>2, <2>3, <3>1
    <3>2. CASE loads'[i].todo = << >>
      <4>1. << >> \in Seq(Id) /\ Range(<< >>) = {} /\ Before(<< >>) /\ Above(<< >>)
        BY DEF Range, Before, Above
      <4> QED
        BY <3>2, <4>1
    <3>3. CASE s # << >> /\ loads'[i].todo = Tail(s) /\ Head(s) \in begun
      <4>1. Tail(s) \in Seq(Id) /\ Range(Tail(s)) \subseteq DOMAIN inst
        BY <2>2, <3>3, Elements
      <4>2. Before(Tail(s)) /\ (loads'[i].phase = "evaluate" => Above(Tail(s)))
        BY <2>3, <3>3, OrderOfTail
      <4> QED
        BY <3>3, <4>1, <4>2
    <3> QED
      BY <1>1, <2>1, <2>2, <3>1, <3>2, <3>3
  <2>5. Before(t)'
    BY <2>4, OrderStays
  <2>6. Above(t) => Above(t)'
    BY <2>4, OrderStays
  <2>7. Before(loads[i].todo)'
    BY <2>4, <2>5, ZenonT(40) DEF Before
  <2>8. Above(t)' => Above(loads[i].todo)'
    BY <2>4 DEF Above
  <2> QED
    BY <2>4, <2>6, <2>7, <2>8
<1> QED
  BY <1>1 DEF Order

-----------------------------------------------------------------------------
(* Bodies.                                                                 *)

\* When the first of a list is left, all others are still to be entered.
LEMMA OthersStay ==
  ASSUME LInv, BInv, NEW m \in begun, Evaluating, Top.todo # << >>, m = Head(Top.todo),
         SetTodo(Tail(Top.todo))
  PROVE  /\ \A p : Somewhere(p) /\ p # m => Somewhere(p)'
         /\ Fewer
         /\ \A i \in DOMAIN loads' : loads'[i].phase # "link" =>
              loads'[i].todo \in {loads[i].todo, << >>} \/ Head(loads[i].todo) \in begun
<1>1. TypeOK /\ Stack /\ loads # << >> /\ Top.phase # "link"
  BY DEF LInv, Evaluating
<1>2. PICK n \in Nat \ {0} : n = Len(loads) /\ n \in DOMAIN loads /\ Top = loads[n]
  BY <1>1, LastLoad
<1>3. PICK s \in Seq(Id) : s = Top.todo /\ s = loads[n].todo /\ s # << >>
  BY <1>2, Referred
<1>4. PICK ts \in Seq(Id) : ts = Tail(s) /\ Range(s) = {m} \cup Range(ts)
  BY <1>3, Elements
<1>5. /\ DOMAIN loads' = DOMAIN loads /\ loads'[n].todo = ts
      /\ loads'[n].root = loads[n].root /\ loads'[n].phase = loads[n].phase
      /\ \A i \in DOMAIN loads : i # n => loads'[i] = loads[i]
  BY <1>1, <1>2, <1>3, <1>4, TodosSet
<1>6. Fewer
  BY <1>2, <1>3, <1>4, <1>5 DEF Fewer
<1>7. ASSUME NEW p, Somewhere(p), p # m
      PROVE  Somewhere(p)'
  <2>1. PICK i \in DOMAIN loads : p \in Listed(i)
    BY <1>7 DEF Somewhere
  <2>2. i \in DOMAIN loads' /\ p \in Listed(i)'
    <3>1. CASE i = n
      <4>1. Listed(n)' = Range(ts) /\ Listed(n) = Range(s)
        BY <1>1, <1>2, <1>3, <1>5 DEF Listed
      <4> QED
        BY <1>4, <1>5, <1>7, <2>1, <3>1, <4>1
    <3>2. CASE i # n
      BY <1>5, <2>1, <3>2 DEF Listed
    <3> QED
      BY <3>1, <3>2
  <2> QED
    BY <2>2 DEF Somewhere
<1> QED
  BY <1>3, <1>5, <1>6, <1>7

\* The imports of the first of a list, if it has begun, have begun.
LEMMA ImportsBegan ==
  ASSUME LInv, Order, Evaluating, Top.todo # << >>, NEW m \in begun, m = Head(Top.todo)
  PROVE  \A k \in DOMAIN Imports(m) : Append(m, k) \in begun
<1>1. TypeOK /\ Stack /\ loads # << >> /\ Top.phase # "link"
  BY DEF LInv, Evaluating
<1>2. PICK n \in Nat \ {0} : n \in DOMAIN loads /\ Top = loads[n]
  BY <1>1, LastLoad
<1>3. PICK s \in Seq(Id) : s = Top.todo /\ s # << >> /\ Before(s)
  BY <1>1, <1>2, Referred DEF Order
<1>4. PICK l \in Nat \ {0} : l = Len(s) /\ DOMAIN s = 1..l
  BY <1>3, LenProperties, EmptySeq
<1>5. 1 \in DOMAIN s /\ s[1] = m /\ \A h \in DOMAIN s : ~(h < 1)
  BY <1>3, <1>4
<1> QED
  BY <1>3, <1>5, ZenonT(40) DEF Before

\* A module that waits for imports is held by one of them.
LEMMA AwaitImportsWaits ==
  ASSUME LInv, Kept, BInv, EInv, AwaitImports
  PROVE  Waiters' /\ Order'
<1>1. PICK m \in begun :
        /\ Evaluating /\ Top.todo # << >> /\ m = Head(Top.todo) /\ ~Ready(m)
        /\ SetTodo(Tail(Top.todo)) /\ UNCHANGED <<inst, at, jobs, ran, threw>>
  BY DEF AwaitImports
<1>2. Waiters /\ Order /\ begun' = begun
  BY <1>1 DEF EInv, begun
<1>3. Order'
  BY <1>1, <1>2, OthersStay, OrderFewer
<1>4. Provided(m)'
  <2>1. \A k \in DOMAIN Imports(m) : Append(m, k) \in begun
    BY <1>1, <1>2, ImportsBegan
  <2>2. PICK k \in DOMAIN Imports(m) : ~Told(Append(m, k))
    BY <1>1 DEF Ready, Told
  <2>3. Held(m)
    BY <2>1, <2>2 DEF Held
  <2>4. Past' = Past /\ \A p : Told(p)' <=> Told(p)
    BY <1>1 DEF Past, Told
  <2>5. Held(m)'
    BY <1>2, <2>3, <2>4, HeldStays, Referred
  <2> QED
    BY <2>5 DEF Provided
<1>5. \A p \in begun : Somewhere(p) => Provided(p)'
  <2>1. \A p \in begun : Somewhere(p) /\ p # m => Somewhere(p)'
    BY <1>1, OthersStay
  <2> QED
    BY <1>4, <2>1 DEF Provided
<1> QED
  BY <1>1, <1>2, <1>3, <1>5, WaitersQuiet

\* A module that is suspended has its microtask.
LEMMA SuspendWaits ==
  ASSUME LInv, Kept, BInv, EInv, Suspend
  PROVE  Waiters' /\ Order'
<1>1. PICK m \in begun :
        /\ InBody(m) /\ at' = [at EXCEPT ![m] = @ + 1] /\ jobs' = Append(jobs, m)
        /\ SetTodo(Tail(Top.todo)) /\ UNCHANGED <<inst, ran, threw>>
  BY DEF Suspend
<1>2. /\ Evaluating /\ Top.todo # << >> /\ m = Head(Top.todo) /\ m \notin Past
      /\ \A k \in DOMAIN Imports(m) : Told(Append(m, k))
  BY <1>1, AtHead
<1>3. Waiters /\ Order /\ begun' = begun
  BY <1>1 DEF EInv, begun
<1>4. Order'
  BY <1>1, <1>2, <1>3, OthersStay, OrderFewer
<1>5. Range(jobs') = Range(jobs) \cup {m}
  <2>1. jobs \in Seq(begun)
    BY Referred
  <2> QED
    BY <1>1, <2>1, OneMore
<1>6. m \in Past' /\ Past \subseteq Past' /\ \A p : Told(p)' => Told(p)
  BY <1>1, <1>5, ToldMeans DEF Past
<1>7. Provided(m)'
  <2>1. \A k \in DOMAIN Imports(m) : Append(m, k) \in begun
    BY <1>2, Referred DEF Told, Past
  <2>2. \A k \in DOMAIN Imports(m)' : Append(m, k) \in begun'
    BY <1>3, <2>1, KeptCode, Referred
  <2> QED
    BY <1>6, <2>2 DEF Provided, Held
<1>8. ASSUME NEW p \in begun, Somewhere(p)
      PROVE  Provided(p)'
  <2>1. p # m => Somewhere(p)'
    BY <1>1, <1>2, <1>8, OthersStay
  <2> QED
    BY <1>7, <2>1 DEF Provided
<1>9. ASSUME NEW p \in begun, Held(p)
      PROVE  Provided(p)'
  <2>1. Held(p)'
    BY <1>3, <1>6, <1>9, HeldStays, Referred
  <2> QED
    BY <2>1 DEF Provided
<1> QED
  BY <1>1, <1>3, <1>4, <1>8, <1>9, WaitersStay

\* All that Evaluate gives up imports what threw.
LEMMA ThrowWaits ==
  ASSUME LInv, Kept, BInv, EInv, Throw
  PROVE  Waiters' /\ Order'
<1>1. PICK m \in begun :
        /\ InBody(m) /\ threw' = threw \cup {m} /\ SetTodo(<< >>)
        /\ UNCHANGED <<inst, at, jobs, ran>>
  BY DEF Throw
<1>2. Top.todo # << >> /\ m = Head(Top.todo) /\ loads # << >>
  BY <1>1, AtHead
<1>3. PICK n \in Nat \ {0} :
        /\ n = Len(loads) /\ n \in DOMAIN loads /\ Top = loads[n]
        /\ loads[n].phase \in {"evaluate", "drain"}
  BY <1>1, AtHead
<1>4. Waiters /\ Order /\ Drains /\ begun' = begun /\ TypeOK /\ Stack
  BY <1>1 DEF EInv, begun, LInv, BInv
<1>5. PICK s \in Seq(Id) : s = Top.todo /\ s = loads[n].todo /\ s # << >>
  BY <1>2, <1>3, Referred
<1>6. /\ DOMAIN loads' = DOMAIN loads /\ loads'[n].todo = << >>
      /\ loads'[n].root = loads[n].root /\ loads'[n].phase = loads[n].phase
      /\ \A i \in DOMAIN loads : i # n => loads'[i] = loads[i]
  <2>0. << >> \in Seq(Id)
    OBVIOUS
  <2>1. PICK ts \in Seq(Id) : ts = << >>
    BY <2>0
  <2>2. SetTodo(ts)
    BY <1>1, <2>1
  <2> QED
    BY <1>2, <1>3, <1>4, <2>1, <2>2, TodosSet
<1>7. Order'
  <2>1. Fewer
    BY <1>3, <1>6 DEF Fewer
  <2>2. \A i \in DOMAIN loads' : loads'[i].todo \in {loads[i].todo, << >>}
    BY <1>6
  <2> QED
    BY <1>4, <2>1, <2>2, OrderFewer
<1>8. ASSUME NEW p \in begun, p \in Listed(n)
      PROVE  InTree(p, m)
  <2>1. PICK l \in Nat \ {0} : l = Len(s) /\ DOMAIN s = 1..l
    BY <1>5, LenProperties, EmptySeq
  <2>2. PICK j \in 1..l : p = s[j]
    BY <1>3, <1>5, <1>8, <2>1 DEF Listed, Range
  <2>3. s[1] = m /\ 1 \in 1..l /\ 1 <= j
    BY <1>2, <1>5, <2>1
  <2>4. CASE loads[n].phase = "evaluate"
    <3>1. Above(s)
      BY <1>3, <1>4, <1>5, <2>4 DEF Order
    <3> QED
      BY <1>8, <2>1, <2>2, <2>3, <3>1 DEF Above
  <2>5. CASE loads[n].phase = "drain"
    <3>1. PICK q \in begun : s = <<q>>
      BY <1>3, <1>4, <1>5, <2>5 DEF Drains
    <3>2. l = 1 /\ j = 1
      BY <2>1, <2>2, <3>1
    <3>3. p = m /\ m \in Id
      BY <2>2, <2>3, <3>2, Referred
    <3> QED
      BY <3>3, InOwnTree
  <2> QED
    BY <1>3, <2>4, <2>5
<1>9. ASSUME NEW p \in begun, Somewhere(p)
      PROVE  Provided(p)'
  <2>1. PICK i \in DOMAIN loads : p \in Listed(i)
    BY <1>9 DEF Somewhere
  <2>2. CASE i = n
    <3>1. InTree(p, m) /\ m \in DOMAIN inst
      BY <1>8, <2>1, <2>2, Referred
    <3>2. m \in Tree(p)'
      <4>1. Tree(p)' = Tree(p)
        BY <1>1, SameCode
      <4> QED
        BY <3>1, <4>1 DEF Tree
    <3> QED
      BY <1>1, <3>2 DEF Provided, Dead
  <2>3. CASE i # n
    <3>1. i \in DOMAIN loads' /\ p \in Listed(i)'
      BY <1>6, <2>1, <2>3 DEF Listed
    <3> QED
      BY <3>1 DEF Provided, Somewhere
  <2> QED
    BY <2>2, <2>3
<1>10. Past \subseteq Past' /\ \A p : Told(p)' <=> Told(p)
  BY <1>1 DEF Past, Told
<1>11. ASSUME NEW p \in begun, Held(p)
       PROVE  Provided(p)'
  <2>1. Held(p)'
    BY <1>4, <1>10, <1>11, HeldStays, Referred
  <2> QED
    BY <2>1 DEF Provided
<1> QED
  BY <1>1, <1>4, <1>7, <1>9, <1>11, WaitersStay

\* When the end of m is told, whoever m held is held by another import, or is what the
\* end of m leaves to be entered.
LEMMA FreedByEnd ==
  ASSUME LInv, LInv', Kept, begun' = begun, NEW m \in begun,
         \A p : p # m /\ Told(p)' => Told(p),
         NEW p \in begun, Held(p), p \in Past => p \in Past', ~Held(p)'
  PROVE  /\ Import(m) /\ p = Importer(m)
         /\ \A k \in DOMAIN Imports(p) : Append(p, k) = m \/ Told(Append(p, k))'
<1>1. /\ p \in DOMAIN inst /\ p \in Id /\ Imports(p)' = Imports(p)
      /\ \A k \in DOMAIN Imports(p) : Append(p, k) \in begun /\ k \in Nat \ {0}
  <2>1. p \in DOMAIN inst /\ p \in Id /\ TypeOK
    BY Referred DEF LInv
  <2>2. DOMAIN Imports(p) = 1..Len(Imports(p)) /\ Len(Imports(p)) \in Nat
    BY <2>1, Sources
  <2> QED
    BY <2>1, <2>2, KeptCode DEF Held
<1>2. p \notin Past /\ \A k \in DOMAIN Imports(p) : Told(Append(p, k))'
  BY <1>1 DEF Held
<1>3. PICK k \in DOMAIN Imports(p) : ~Told(Append(p, k))
  BY <1>2 DEF Held
<1>4. Append(p, k) = m
  BY <1>2, <1>3
<1>5. PICK x \in Id : x = Append(p, k) /\ x # << >> /\ Importer(x) = p /\ x[Len(x)] = k
  <2>1. Append(p, k) \in Id /\ Append(p, k) # << >> /\ Importer(Append(p, k)) = p
    BY <1>1, KidNames, ImporterOfKid
  <2>2. Append(p, k)[Len(Append(p, k))] = k
    BY <1>1, KidNames
  <2> QED
    BY <2>1, <2>2
<1>6. Import(m) /\ p = Importer(m)
  BY <1>4, <1>5 DEF Import
<1> QED
  BY <1>2, <1>6

\* The end of the last import that a module waits for has it entered.
LEMMA WaitingIsEntered ==
  ASSUME NEW m, Importer(m) \in begun, m[Len(m)] \in DOMAIN Imports(Importer(m)),
         \A k \in DOMAIN Imports(Importer(m)) :
           Append(Importer(m), k) = m \/ Told(Append(Importer(m), k))
  PROVE  Waiting(m) = <<Importer(m)>>
BY DEF Waiting, WaitsFor

\* A body that ends leaves nobody behind: it tells its end by a microtask, its importer
\* is to be entered after it, or is now.
LEMMA FinishBodyWaits ==
  ASSUME LInv, LInv', Kept, BInv, EInv, FinishBody
  PROVE  Waiters' /\ Order'
<1>1. PICK m \in begun :
        /\ InBody(m) /\ ran' = ran \cup {m}
        /\ jobs' = IF Awaits(m) THEN Append(jobs, m) ELSE jobs
        /\ SetTodo(Tail(Top.todo) \o
                   (IF Top.phase = "drain" /\ ~Awaits(m) THEN Waiting(m) ELSE << >>))
        /\ UNCHANGED <<inst, at, threw>>
  BY DEF FinishBody
<1>2. /\ Evaluating /\ loads # << >> /\ Top.todo \in Seq(Id) /\ Top.todo # << >>
      /\ m = Head(Top.todo)
      /\ m \notin Past /\ \A k \in DOMAIN Imports(m) : Told(Append(m, k))
  BY <1>1, AtHead
<1>3. PICK n \in Nat \ {0} :
        /\ n = Len(loads) /\ DOMAIN loads = 1..n /\ n \in DOMAIN loads /\ Top = loads[n]
        /\ loads[n].phase \in {"evaluate", "drain"}
  BY <1>1, AtHead
<1>4. /\ Waiters /\ Order /\ Drains /\ begun' = begun /\ TypeOK /\ Stack
      /\ \A p : Imports(p)' = Imports(p)
  BY <1>1, SameCode DEF EInv, begun, LInv, BInv
<1>5. PICK s \in Seq(Id), ts \in Seq(Id) :
        /\ s = Top.todo /\ s = loads[n].todo /\ s # << >> /\ ts = Tail(s)
        /\ Range(s) = {m} \cup Range(ts)
  <2>1. PICK s \in Seq(Id) : s = Top.todo /\ s = loads[n].todo /\ s # << >>
    BY <1>2, <1>3
  <2>2. PICK ts \in Seq(Id) : ts = Tail(s) /\ Range(s) = {m} \cup Range(ts)
    BY <1>2, <2>1, Elements
  <2> QED
    BY <2>1, <2>2
<1>6. /\ Range(jobs) \subseteq Range(jobs') /\ Range(jobs') \subseteq Range(jobs) \cup {m}
      /\ Awaits(m) => m \in Range(jobs')
  <2>1. Range(Append(jobs, m)) = Range(jobs) \cup {m}
    BY Referred, OneMore
  <2> QED
    BY <1>1, <2>1
<1>7. /\ Past \subseteq Past' /\ m \in Past' /\ \A p : Told(p) => Told(p)'
      /\ \A p : p # m /\ Told(p)' => Told(p)
      /\ Awaits(m) => ~Told(m)'
  BY <1>1, <1>2, <1>6, ToldMeans DEF Past
<1>8. Provided(m)'
  <2>1. \A k \in DOMAIN Imports(m) : Append(m, k) \in begun
    BY <1>2, Referred DEF Told, Past
  <2> QED
    BY <1>4, <1>7, <2>1 DEF Provided, Held
<1>9. CASE Top.phase = "drain" /\ ~Awaits(m)
  <2>1. PICK ws \in Seq(Id) : ws = Waiting(m)
    BY WaitingType, Referred
  <2>2. n = 1 /\ DOMAIN loads = {1} /\ ts = << >> /\ Listed(1) = {m}
    <3>1. n = 1 /\ \E p \in begun : s = <<p>>
      BY <1>3, <1>4, <1>5, <1>9 DEF Drains
    <3>2. ts = << >> /\ Range(ts) = {}
      BY <1>5, <3>1 DEF Range
    <3>3. Listed(1) = Range(s)
      BY <1>3, <1>5, <1>9, <3>1 DEF Listed
    <3>4. DOMAIN loads = {1}
      BY <1>3, <3>1
    <3> QED
      BY <1>5, <3>1, <3>2, <3>3, <3>4
  <2>3. SetTodo(ws)
    <3>1. ts \o ws = ws
      BY <2>2, ConcatEmptySeq
    <3> QED
      BY <1>1, <1>5, <1>9, <2>1, <3>1
  <2>4. /\ DOMAIN loads' = {1} /\ loads'[1].phase = "drain" /\ loads'[1].todo = ws
    BY <1>2, <1>3, <1>4, <1>9, <2>2, <2>3, TodosSet
  <2>5. ASSUME NEW p \in begun, Somewhere(p)
        PROVE  Provided(p)'
    <3>1. p = m
      BY <2>2, <2>5 DEF Somewhere
    <3> QED
      BY <1>8, <3>1
  <2>6. ASSUME NEW p \in begun, Held(p)
        PROVE  Provided(p)'
    <3>1. CASE Held(p)'
      BY <3>1 DEF Provided
    <3>2. CASE ~Held(p)'
      <4>1. /\ Import(m) /\ p = Importer(m)
            /\ \A k \in DOMAIN Imports(p) : Append(p, k) = m \/ Told(Append(p, k))'
        BY <1>4, <1>7, <2>6, <3>2, FreedByEnd
      <4>2. \A k \in DOMAIN Imports(p) : Append(p, k) = m \/ Told(Append(p, k))
        BY <1>7, <4>1
      <4>3. ws = <<p>>
        BY <2>1, <4>1, <4>2, WaitingIsEntered DEF Import
      <4>4. p \in Listed(1)' /\ 1 \in DOMAIN loads'
        BY <2>4, <4>3 DEF Listed, Range
      <4> QED
        BY <4>4 DEF Provided, Somewhere
    <3> QED
      BY <3>1, <3>2
  <2>7. Waiters'
    BY <1>1, <1>4, <2>5, <2>6, WaitersStay
  <2>8. Order'
    <3>1. CASE ws = << >>
      BY <2>4, <3>1 DEF Order, Before
    <3>2. ASSUME NEW p \in begun, ws = <<p>>,
                 \A k \in DOMAIN Imports(p) : Append(p, k) = m \/ Told(Append(p, k))
          PROVE  Order'
      <4>1. \A k \in DOMAIN Imports(p) : Append(p, k) \in begun
        BY <3>2, Referred DEF Told, Past
      <4>2. DOMAIN ws = {1} /\ ws[1] = p
        BY <3>2
      <4> QED
        BY <1>4, <2>4, <4>1, <4>2 DEF Order, Before
    <3>3. ~Told(m)
      BY <1>2 DEF Told, Past
    <3> QED
      BY <2>1, <3>1, <3>2, <3>3, WhatWaits
  <2> QED
    BY <2>7, <2>8
<1>10. CASE ~(Top.phase = "drain" /\ ~Awaits(m))
  <2>1. SetTodo(ts) /\ SetTodo(Tail(Top.todo))
    <3>1. ts \o << >> = ts
      BY ConcatEmptySeq
    <3> QED
      BY <1>1, <1>5, <1>10, <3>1
  <2>2. Order'
    BY <1>2, <1>4, <2>1, OthersStay, OrderFewer
  <2>3. ASSUME NEW p \in begun, Somewhere(p)
        PROVE  Provided(p)'
    <3>1. p # m => Somewhere(p)'
      BY <1>2, <2>1, <2>3, OthersStay
    <3> QED
      BY <1>8, <3>1 DEF Provided
  <2>4. ASSUME NEW p \in begun, Held(p)
        PROVE  Provided(p)'
    <3>1. CASE Held(p)'
      BY <3>1 DEF Provided
    <3>2. CASE ~Held(p)'
      <4>1. /\ Import(m) /\ p = Importer(m)
            /\ \A k \in DOMAIN Imports(p) : Append(p, k) = m \/ Told(Append(p, k))'
        BY <1>4, <1>7, <2>4, <3>2, FreedByEnd
      <4>2. Told(m)'
        <5>1. p \notin Past'
          BY <1>4, <2>4, <3>2 DEF Held
        <5>2. \A k \in DOMAIN Imports(p) : Told(Append(p, k))'
          BY <1>4, <2>4, <3>2 DEF Held
        <5>3. PICK k \in DOMAIN Imports(p) : ~Told(Append(p, k))
          BY <1>7, <2>4, <5>1 DEF Held
        <5> QED
          BY <4>1, <5>2, <5>3, <1>7
      <4>3. ~Awaits(m) /\ loads[n].phase = "evaluate"
        BY <1>3, <1>7, <1>10, <4>2
      <4>4. Above(s)
        BY <1>3, <1>4, <1>5, <4>3 DEF Order
      <4>5. PICK l \in Nat \ {0} : l = Len(s) /\ DOMAIN s = 1..l
        BY <1>5, LenProperties, EmptySeq
      <4>6. s[1] = m /\ 1 \in 1..l
        BY <1>2, <1>5, <4>5
      <4>7. p \in Range(s)
        BY <4>1, <4>4, <4>5, <4>6 DEF Above, Range
      <4>8. Somewhere(p)
        BY <1>3, <1>5, <4>3, <4>7 DEF Somewhere, Listed
      <4> QED
        BY <2>3, <4>8
    <3> QED
      BY <3>1, <3>2
  <2> QED
    BY <1>1, <1>4, <2>2, <2>3, <2>4, WaitersStay
<1> QED
  BY <1>9, <1>10

\* A microtask that goes on with a body, or tells that one ended, leaves nobody behind.
LEMMA RunMicrotaskWaits ==
  ASSUME LInv, LInv', Kept, BInv, EInv, RunMicrotask
  PROVE  Waiters' /\ Order'
<1>1. /\ Evaluating /\ Top.todo = << >> /\ Len(loads) = 1 /\ jobs # << >>
      /\ jobs' = Tail(jobs) /\ UNCHANGED <<inst, at, ran, threw>>
  BY DEF RunMicrotask
<1>2. /\ loads # << >> /\ TypeOK /\ Stack /\ begun' = begun /\ Waiters
      /\ \A p : Imports(p)' = Imports(p)
  BY <1>1, SameCode DEF Evaluating, LInv, begun, EInv
<1>3. DOMAIN loads = {1} /\ Top = loads[1]
  BY <1>1, <1>2, LastLoad
<1>4. PICK m \in begun :
        m = Head(jobs) /\ m \notin Range(jobs') /\ Range(jobs) = {m} \cup Range(jobs')
  <2>1. jobs \in Seq(begun) /\ IsInjective(jobs)
    BY Referred DEF BInv, Fresh
  <2> QED
    BY <1>1, <2>1, ShorterList, Elements
<1>5. PICK ts \in Seq(Id) : ts = IF m \in ran THEN Waiting(m) ELSE <<m>>
  <2>1. m \in Id
    BY Referred
  <2>2. Waiting(m) \in Seq(Id) /\ <<m>> \in Seq(Id)
    BY <2>1, WaitingType, OneElement
  <2> QED
    BY <2>2
<1>6. DOMAIN loads' = {1} /\ loads'[1].phase = "drain" /\ loads'[1].todo = ts
  <2>1. SetTop([Top EXCEPT !.phase = "drain", !.todo = ts])
    BY <1>4, <1>5 DEF RunMicrotask
  <2> QED
    BY <1>1, <1>2, <1>3, <2>1, PhaseSet
<1>7. /\ ~Told(m) /\ m \in Past
      /\ \A p : Told(p) => Told(p)'
      /\ \A p : p # m /\ Told(p)' => Told(p)
      /\ m \notin ran => ~Told(m)'
      /\ \A p \in Past : p # m \/ m \in ran => p \in Past'
  BY <1>1, <1>4, ToldMeans DEF Past
<1>8. ASSUME NEW p \in begun
      PROVE  ~Somewhere(p)
  <2>1. Listed(1) = {}
    BY <1>1, <1>3 DEF Listed, Range
  <2> QED
    BY <1>3, <2>1 DEF Somewhere
<1>9. ASSUME NEW p \in begun, ts = <<p>>
      PROVE  Provided(p)'
  <2>1. p \in Listed(1)' /\ 1 \in DOMAIN loads'
    BY <1>6, <1>9 DEF Listed, Range
  <2> QED
    BY <2>1 DEF Provided, Somewhere
<1>10. ASSUME NEW p \in begun, Held(p)
       PROVE  Provided(p)'
  <2>1. CASE Held(p)'
    BY <2>1 DEF Provided
  <2>2. CASE p = m /\ m \notin ran
    BY <1>5, <1>9, <2>2
  <2>3. CASE ~Held(p)' /\ ~(p = m /\ m \notin ran)
    <3>1. p \in Past => p \in Past'
      BY <1>7, <2>3
    <3>2. /\ Import(m) /\ p = Importer(m)
          /\ \A k \in DOMAIN Imports(p) : Append(p, k) = m \/ Told(Append(p, k))'
      BY <1>2, <1>7, <1>10, <2>3, <3>1, FreedByEnd
    <3>3. \A k \in DOMAIN Imports(p) : Append(p, k) = m \/ Told(Append(p, k))
      BY <1>7, <3>2
    <3>4. m \in ran
      <4>1. p \notin Past' /\ \A k \in DOMAIN Imports(p) : Told(Append(p, k))'
        BY <1>2, <1>10, <2>3 DEF Held
      <4>2. PICK k \in DOMAIN Imports(p) : ~Told(Append(p, k))
        BY <1>10, <3>1, <4>1 DEF Held
      <4>3. Append(p, k) = m
        BY <3>3, <4>2
      <4> QED
        BY <1>7, <4>1, <4>3
    <3>5. ts = <<p>>
      BY <1>5, <3>2, <3>3, <3>4, WaitingIsEntered DEF Import
    <3> QED
      BY <1>9, <3>5
  <2> QED
    BY <2>1, <2>2, <2>3
<1>11. Waiters'
  BY <1>1, <1>2, <1>8, <1>10, WaitersStay
<1>12. Order'
  <2>1. CASE ts = << >>
    BY <1>6, <2>1 DEF Order, Before
  <2>2. ASSUME NEW p \in begun, ts = <<p>>,
               \A k \in DOMAIN Imports(p) : Append(p, k) \in begun
        PROVE  Order'
    <3>1. DOMAIN ts = {1} /\ ts[1] = p
      BY <2>2
    <3> QED
      BY <1>2, <1>6, <2>2, <3>1 DEF Order, Before
  <2>3. CASE m \notin ran
    <3>1. ts = <<m>>
      BY <1>5, <2>3
    <3>2. \A k \in DOMAIN Imports(m) : Append(m, k) \in begun
      BY <1>7, Referred DEF BInv, Tells, Told, Past
    <3> QED
      BY <2>2, <3>1, <3>2
  <2>4. CASE m \in ran
    <3>1. ASSUME NEW p \in begun, ts = <<p>>,
                 \A k \in DOMAIN Imports(p) : Append(p, k) = m \/ Told(Append(p, k))
          PROVE  Order'
      <4>1. \A k \in DOMAIN Imports(p) : Append(p, k) \in begun
        BY <3>1, Referred DEF Told, Past
      <4> QED
        BY <2>2, <3>1, <4>1
    <3>2. ts = Waiting(m)
      BY <1>5, <2>4
    <3> QED
      BY <1>7, <2>1, <3>1, <3>2, WhatWaits
  <2> QED
    BY <2>3, <2>4
<1> QED
  BY <1>11, <1>12

-----------------------------------------------------------------------------
(* Steps that run no body.                                                 *)

\* The lists are what they were, and so is who is to be entered.
Unmoved ==
  /\ \A i \in DOMAIN loads' :
       loads'[i].phase # "link" => i \in DOMAIN loads /\ loads'[i] = loads[i]
  /\ \A i \in DOMAIN loads : \A m \in Listed(i) : i \in DOMAIN loads' /\ loads'[i] = loads[i]

\* Then nobody is left behind.
LEMMA UnmovedWaits ==
  ASSUME LInv, Kept, EInv, begun' = begun, UNCHANGED <<jobs, ran, threw>>, Unmoved
  PROVE  Waiters' /\ Order'
<1>1. Waiters /\ Order
  BY DEF EInv
<1>2. Order'
  <2>1. Fewer
    BY DEF Unmoved, Fewer
  <2>2. \A i \in DOMAIN loads' : loads'[i].phase # "link" => loads'[i].todo = loads[i].todo
    BY DEF Unmoved
  <2> QED
    BY <1>1, <2>1, <2>2, OrderFewer
<1>3. ASSUME NEW p \in begun, Somewhere(p)
      PROVE  Provided(p)'
  <2>1. PICK i \in DOMAIN loads : p \in Listed(i)
    BY <1>3 DEF Somewhere
  <2>2. i \in DOMAIN loads' /\ p \in Listed(i)'
    BY <2>1 DEF Unmoved, Listed
  <2> QED
    BY <2>2 DEF Provided, Somewhere
<1> QED
  BY <1>1, <1>2, <1>3, WaitersQuiet

\* Steps that make, link, give up or go back to a load, and those of others.
LEMMA QuietWaits ==
  ASSUME LInv, Kept, BInv, EInv,
         \/ Start \/ ResolveDynamicModuleCallback
         \/ ResolveModuleCallback \/ LinkImports \/ FinishEvaluation
         \/ OutOfMemory \/ UNCHANGED vars
         \/ \E p \in Paths, c \in Contents : EditFile(p, c)
         \/ \E f \in Folders : EditFolder(f)
  PROVE  Waiters' /\ Order'
<1>1. UNCHANGED <<jobs, ran, threw>> /\ begun' = begun
  <2>1. CASE ResolveDynamicModuleCallback
    BY <2>1 DEF ResolveDynamicModuleCallback, begun
  <2>2. CASE ~ResolveDynamicModuleCallback
    BY <2>2 DEF Start, ResolveModuleCallback, LinkImports, FinishEvaluation, OutOfMemory, vars,
       EditFile, EditFolder, program, begun
  <2> QED
    BY <2>1, <2>2
<1>2. TypeOK /\ Stack
  BY DEF LInv
<1>3. CASE UNCHANGED loads
  <2>1. Unmoved
    BY <1>3 DEF Unmoved
  <2> QED
    BY <1>1, <2>1, UnmovedWaits
<1>4. CASE \E x, q : Load(x, q)
  <2>1. PICK g : g.phase = "link" /\ loads' = Append(loads, g)
    BY <1>4 DEF Load
  <2>2. PICK l \in Nat : l = Len(loads) /\ DOMAIN loads = 1..l
    BY <1>2, LenProperties DEF TypeOK
  <2>3. DOMAIN loads' = 1..(l + 1) /\ loads'[l + 1] = g /\ \A i \in 1..l : loads'[i] = loads[i]
    <3>1. PICK S : S = Graph \cup {g} /\ g \in S
      OBVIOUS
    <3>2. loads \in Seq(S)
      <4>1. loads \in Seq(Graph)
        BY <1>2 DEF TypeOK, Graph
      <4>2. \A i \in 1..l : loads[i] \in S
        BY <2>2, <3>1, <4>1, ElementOfSeq
      <4>3. loads = [i \in 1..l |-> loads[i]]
        BY <2>2, <4>1
      <4>4. loads \in [1..l -> S]
        BY <4>2, <4>3
      <4> QED
        BY <4>4
    <3>3. /\ Append(loads, g) \in Seq(S) /\ Len(Append(loads, g)) = l + 1
          /\ Append(loads, g)[l + 1] = g
          /\ \A i \in 1..l : Append(loads, g)[i] = loads[i]
      BY <2>2, <3>1, <3>2, AppendProperties
    <3> QED
      BY <2>1, <3>3, LenProperties
  <2>4. Unmoved
    BY <2>1, <2>2, <2>3 DEF Unmoved
  <2> QED
    BY <1>1, <2>4, UnmovedWaits
<1>5. CASE loads # << >> /\ Top.phase = "link" /\ \E ts \in Seq(Id) : SetTodo(ts)
  <2>1. PICK n \in Nat \ {0} : n = Len(loads) /\ Top = loads[n] /\ n \in DOMAIN loads
    BY <1>2, <1>5, LastLoad
  <2>2. PICK ts \in Seq(Id) : SetTodo(ts)
    BY <1>5
  <2>3. /\ DOMAIN loads' = DOMAIN loads /\ loads'[n].phase = "link"
        /\ \A i \in DOMAIN loads : i # n => loads'[i] = loads[i]
    BY <1>2, <1>5, <2>1, <2>2, TodosSet
  <2>4. Listed(n) = {}
    BY <1>5, <2>1 DEF Listed
  <2>5. Unmoved
    BY <2>3, <2>4 DEF Unmoved
  <2> QED
    BY <1>1, <2>5, UnmovedWaits
<1>6. CASE LinkImports
  <2>1. loads # << >> /\ Top.phase = "link" /\ Top.todo # << >>
    BY <1>6 DEF LinkImports, Working
  <2>2. CASE SetTodo(Kids(Head(Top.todo)) \o Tail(Top.todo))
    <3>1. PICK m \in DOMAIN inst : m = Head(Top.todo)
      BY <1>2, <2>1, TopOfStack
    <3>2. PICK ks \in Seq(Id), us \in Seq(Id) : ks = Kids(m) /\ us = Tail(Top.todo)
      BY <1>2, <2>1, KidsOf, TopOfStack, Elements
    <3>3. ks \o us \in Seq(Id)
      BY Joined
    <3> QED
      BY <1>5, <2>1, <2>2, <3>1, <3>2, <3>3
  <2> QED
    BY <1>3, <1>6, <2>2 DEF LinkImports
<1>7. CASE FinishEvaluation
  <2>1. loads # << >> /\ Top.todo = << >> /\ loads' = SubSeq(loads, 1, Len(loads) - 1)
    BY <1>7 DEF FinishEvaluation, Evaluating, Return
  <2>2. PICK n \in Nat \ {0} : n = Len(loads) /\ DOMAIN loads = 1..n /\ Top = loads[n]
    BY <1>2, <2>1, LastLoad
  <2>3. DOMAIN loads' = 1..(n - 1) /\ \A i \in 1..(n - 1) : loads'[i] = loads[i]
    <3>1. loads \in Seq(Graph)
      BY <1>2 DEF TypeOK, Graph
    <3>2. /\ Len(loads') = n - 1 /\ loads' \in Seq(Graph)
          /\ \A i \in DOMAIN loads' : loads'[i] = loads[i]
      BY <2>1, <2>2, <3>1, Shortened
    <3>3. DOMAIN loads' = 1..(n - 1)
      BY <3>2, LenProperties
    <3> QED
      BY <3>2, <3>3
  <2>4. Listed(n) = {}
    BY <2>1, <2>2 DEF Listed, Range
  <2>5. Unmoved
    BY <2>2, <2>3, <2>4 DEF Unmoved
  <2> QED
    BY <1>1, <2>5, UnmovedWaits
<1>8. CASE Start \/ ResolveDynamicModuleCallback
  BY <1>4, <1>8 DEF Start, ResolveDynamicModuleCallback
<1>9. CASE \/ ResolveModuleCallback \/ OutOfMemory \/ UNCHANGED vars
           \/ \E p \in Paths, c \in Contents : EditFile(p, c)
           \/ \E f \in Folders : EditFolder(f)
  <2>1. UNCHANGED loads
    BY <1>9 DEF ResolveModuleCallback, OutOfMemory, vars, EditFile, EditFolder, program
  <2> QED
    BY <1>3, <2>1
<1> QED
  BY <1>6, <1>7, <1>8, <1>9

\* What was linked is to be entered first.
LEMMA FinishLinkingWaits ==
  ASSUME LInv, Kept, BInv, EInv, FinishLinking
  PROVE  Waiters' /\ Order'
<1>1. UNCHANGED <<inst, at, jobs, ran, threw>> /\ begun' = begun /\ Waiters /\ Order
  BY LinkingEnds DEF EInv
<1>2. CASE UNCHANGED loads
  <2>1. Unmoved
    BY <1>2 DEF Unmoved
  <2> QED
    BY <1>1, <2>1, UnmovedWaits
<1>3. ASSUME NEW n \in Nat \ {0}, NEW r \in Id, LinkedNow(n, r)
      PROVE  Waiters' /\ Order'
  <2>1. /\ n \in DOMAIN loads /\ loads[n].phase = "link" /\ r \notin begun /\ ~Import(r)
        /\ DOMAIN loads' = DOMAIN loads /\ loads'[n].todo = <<r>>
        /\ \A i \in DOMAIN loads : i # n => loads'[i] = loads[i]
        /\ \A i \in DOMAIN loads : i # n => Listed(i)' = Listed(i)
    BY <1>3 DEF LinkedNow
  <2>2. ASSUME NEW p \in begun, Somewhere(p)
        PROVE  Provided(p)'
    <3>1. PICK i \in DOMAIN loads : p \in Listed(i)
      BY <2>2 DEF Somewhere
    <3>2. i # n
      BY <2>1, <3>1 DEF Listed
    <3>3. i \in DOMAIN loads' /\ p \in Listed(i)'
      BY <2>1, <3>1, <3>2
    <3> QED
      BY <3>3 DEF Provided, Somewhere
  <2>3. Waiters'
    BY <1>1, <2>2, WaitersQuiet
  <2>4. Before(<<r>>)' /\ Above(<<r>>)'
    <3>1. DOMAIN <<r>> = {1} /\ <<r>>[1] = r
      OBVIOUS
    <3>2. ~Import(r)'
      BY <1>1, <2>1, SameCode DEF Import
    <3> QED
      BY <1>1, <2>1, <3>1, <3>2 DEF Before, Above
  <2>5. ASSUME NEW i \in DOMAIN loads', loads'[i].phase # "link"
        PROVE  /\ Before(loads[i].todo)'
               /\ loads'[i].phase = "evaluate" => Above(loads[i].todo)'
    <3>1. CASE i = n
      BY <2>1, <2>4, <3>1
    <3>2. CASE i # n
      <4>1. i \in DOMAIN loads /\ loads'[i] = loads[i]
        BY <2>1, <2>5, <3>2
      <4>2. PICK s \in Seq(Id) : s = loads[i].todo /\ s = loads'[i].todo /\ Range(s) \subseteq DOMAIN inst
        BY <2>5, <4>1, Referred DEF Listed
      <4>3. Before(s) /\ (loads[i].phase = "evaluate" => Above(s))
        BY <1>1, <2>5, <4>1, <4>2 DEF Order
      <4>4. Before(s)' /\ (loads[i].phase = "evaluate" => Above(s)')
        BY <1>1, <4>2, <4>3, OrderStays
      <4>5. Before(loads[i].todo)'
        BY <4>2, <4>4 DEF Before
      <4>6. loads'[i].phase = "evaluate" => Above(loads[i].todo)'
        BY <4>1, <4>2, <4>4 DEF Above
      <4> QED
        BY <4>5, <4>6
    <3> QED
      BY <3>1, <3>2
  <2>6. Order'
    BY <2>5 DEF Order
  <2> QED
    BY <2>3, <2>6
<1> QED
  BY <1>2, <1>3, LinkingEnds

\* Import(n), when a module begins: n was one, or is an import of that module.
LEMMA NewImports ==
  ASSUME UNCHANGED inst, NEW m, begun' = begun \cup {m}, NEW n, Import(n)'
  PROVE  \/ Import(n)
         \/ Importer(n) = m /\ n # << >> /\ n[Len(n)] \in DOMAIN Imports(m)
<1>1. \A p : Imports(p)' = Imports(p)
  BY SameCode
<1>2. n # << >> /\ Importer(n) \in begun' /\ n[Len(n)] \in DOMAIN Imports(Importer(n))
  <2>1. Imports(Importer(n))' = Imports(Importer(n))
    BY <1>1
  <2> QED
    BY <2>1 DEF Import, Importer
<1> QED
  BY <1>2 DEF Import

\* Lists in which neither the module that begins nor its imports stand keep their order.
LEMMA OrderElsewhere ==
  ASSUME LInv, UNCHANGED inst, NEW m \in DOMAIN inst, begun' = begun \cup {m},
         NEW s \in Seq(Id), Range(s) \subseteq DOMAIN inst, m \notin Range(s),
         \A c \in Range(s) : c \notin Range(Kids(m))
  PROVE  /\ Before(s) => Before(s)'
         /\ Above(s) => Above(s)'
<1>1. \A j \in DOMAIN s : s[j] \in DOMAIN inst /\ s[j] # m /\ s[j] \notin Range(Kids(m))
  BY DEF Range
<1>2. \A p : Imports(p)' = Imports(p)
  BY SameCode
<1>3. \A p, q : InTree(p, q)' <=> InTree(p, q)
  BY <1>2 DEF InTree
<1>4. Before(s) => Before(s)'
  BY <1>1, <1>2 DEF Before
<1>5. ASSUME NEW j \in DOMAIN s, Import(s[j])'
      PROVE  Import(s[j])
  <2>1. PICK n \in Id : n = s[j] /\ n \in DOMAIN inst
    BY <1>1, Referred
  <2>2. ASSUME Importer(n) = m, n # << >>, n[Len(n)] \in DOMAIN Imports(m)
        PROVE  FALSE
    <3>1. n = Append(m, n[Len(n)])
      BY <2>1, <2>2, NameOfKid
    <3>2. n \in Range(Kids(m))
      BY <2>2, <3>1, KidsOf DEF LInv
    <3> QED
      BY <1>1, <2>1, <3>2
  <2> QED
    BY <1>5, <2>1, <2>2, NewImports
<1>6. Above(s) => Above(s)'
  BY <1>1, <1>3, <1>5 DEF Above
<1> QED
  BY <1>4, <1>6

\* The imports of what begins come before it.
LEMMA OrderEnters ==
  ASSUME LInv, UNCHANGED inst, Order, NEW n, NEW m \in DOMAIN inst,
         NEW ks \in Seq(Id), NEW ts \in Seq(Id), Enters(n, m, ks, ts)
  PROVE  Before(ks \o ts)' /\ Above(ks \o ts)'
<1>1. /\ n \in DOMAIN loads /\ loads[n].phase = "evaluate" /\ loads[n].todo = ts /\ ts # << >>
      /\ m = Head(ts) /\ m \notin begun /\ IsInjective(ts) /\ ks = Kids(m)
      /\ begun' = begun \cup {m} /\ Listed(n) = Range(ts)
  BY DEF Enters, Listed
<1>2. \A c \in Range(ks) : /\ c \notin begun /\ c # m /\ c # << >> /\ Importer(c) = m
                           /\ c[Len(c)] \in DOMAIN Imports(m) /\ c \notin Range(ts)
  BY <1>1 DEF Enters
<1>3. Before(ts) /\ Above(ts) /\ Range(ts) \subseteq DOMAIN inst
  BY <1>1, Referred DEF Order
<1>4. PICK a \in Nat, b \in Nat \ {0} :
        a = Len(ks) /\ b = Len(ts) /\ DOMAIN ks = 1..a /\ DOMAIN ts = 1..b
  BY <1>1, LenProperties, EmptySeq
<1>5. PICK us \in Seq(Id) :
        /\ us = ks \o ts /\ DOMAIN us = 1..(a + b)
        /\ \A i \in 1..(a + b) : us[i] = IF i <= a THEN ks[i] ELSE ts[i - a]
  <2>1. ks \o ts \in Seq(Id) /\ Len(ks \o ts) = a + b
        /\ \A i \in 1..(a + b) : (ks \o ts)[i] = IF i <= a THEN ks[i] ELSE ts[i - a]
    BY <1>4, ConcatProperties
  <2> QED
    BY <2>1, LenProperties
<1>6. /\ \A i \in 1..a : us[i] = ks[i] /\ ks[i] \in Range(ks)
      /\ \A i \in 1..b : us[i + a] = ts[i] /\ i + a \in 1..(a + b)
      /\ \A i \in 1..(a + b) : ~(i <= a) => i - a \in 1..b /\ us[i] = ts[i - a]
  <2>1. \A i \in 1..a : i \in 1..(a + b) /\ i <= a
    BY <1>4
  <2>2. \A i \in 1..b : i + a \in 1..(a + b) /\ ~(i + a <= a) /\ (i + a) - a = i
    BY <1>4
  <2>3. \A i \in 1..(a + b) : ~(i <= a) => i - a \in 1..b
    BY <1>4
  <2>4. \A i \in 1..a : us[i] = ks[i] /\ ks[i] \in Range(ks)
    BY <1>4, <1>5, <2>1 DEF Range
  <2>5. \A i \in 1..b : us[i + a] = ts[i]
    BY <1>5, <2>2
  <2> QED
    BY <1>5, <2>2, <2>3, <2>4, <2>5
<1>7. /\ DOMAIN Imports(m) = 1..a /\ \A k \in 1..a : ks[k] = Append(m, k)
      /\ m \in Id /\ ts[1] = m /\ 1 \in 1..b
  <2>1. DOMAIN Kids(m) = DOMAIN Imports(m)
    BY DEF Kids
  <2>2. \A k \in DOMAIN Imports(m) : Kids(m)[k] = Append(m, k)
    BY DEF Kids
  <2> QED
    BY <1>1, <1>4, <2>1, <2>2, Referred
<1>8. /\ \A p : Imports(p)' = Imports(p)
      /\ \A p, q : InTree(p, q)' <=> InTree(p, q)
  <2>1. \A p : Imports(p)' = Imports(p)
    BY SameCode
  <2> QED
    BY <2>1 DEF InTree
<1>9. ASSUME NEW i \in 1..a
      PROVE  InTree(m, us[i])
  <2>1. i \in Nat \ {0} /\ i \in DOMAIN Imports(m)
    BY <1>7
  <2>2. us[i] = Append(m, i)
    BY <1>6, <1>7
  <2>3. InTree(m, Append(m, i))
    BY <1>7, <2>1, KidInTree, InOwnTree
  <2> QED
    BY <2>2, <2>3
<1>10. ASSUME NEW j \in 1..(a + b), us[j] \in begun',
              NEW k \in DOMAIN Imports(us[j]), Append(us[j], k) \notin begun'
       PROVE  \E h \in 1..(a + b) : h < j /\ us[h] = Append(us[j], k)
  <2>1. ~(j <= a)
    BY <1>1, <1>2, <1>6, <1>10
  <2>2. PICK i \in 1..b : i = j - a /\ us[j] = ts[i]
    BY <1>6, <2>1
  <2>3. CASE us[j] = m
    <3>1. k \in 1..a /\ k \in 1..(a + b) /\ k < j
      BY <1>7, <1>10, <2>1, <2>3
    <3>2. us[k] = Append(m, k)
      BY <1>6, <1>7, <3>1
    <3> QED
      BY <2>3, <3>1, <3>2
  <2>4. CASE us[j] # m
    <3>1. ts[i] \in begun /\ k \in DOMAIN Imports(ts[i]) /\ Append(ts[i], k) \notin begun
      BY <1>1, <1>10, <2>2, <2>4
    <3>2. PICK h \in 1..b : h < i /\ ts[h] = Append(ts[i], k)
      BY <1>3, <1>4, <3>1 DEF Before
    <3>3. h + a < j
      BY <2>2, <3>2
    <3>4. h + a \in 1..(a + b) /\ us[h + a] = ts[h]
      BY <1>6
    <3> QED
      BY <2>2, <3>2, <3>3, <3>4
  <2> QED
    BY <2>3, <2>4
<1>11. ASSUME NEW j \in 1..(a + b), Import(us[j])'
       PROVE  \E h \in 1..(a + b) : j < h /\ us[h] = Importer(us[j])
  <2>1. CASE j <= a
    <3>1. j \in 1..a /\ Importer(us[j]) = m
      BY <1>2, <1>6, <2>1
    <3>2. 1 + a \in 1..(a + b) /\ j < 1 + a /\ us[1 + a] = m
      BY <1>6, <1>7, <2>1
    <3> QED
      BY <3>1, <3>2
  <2>2. CASE ~(j <= a)
    <3>1. PICK i \in 1..b : i = j - a /\ us[j] = ts[i]
      BY <1>6, <2>2
    <3>2. PICK x \in Id : x = ts[i] /\ x \in Range(ts)
      <4>1. ts[i] \in Id
        BY <1>4, ElementOfSeq
      <4>2. ts[i] \in Range(ts)
        BY <1>4 DEF Range
      <4> QED
        BY <4>1, <4>2
    <3>3. ASSUME Importer(x) = m, x # << >>, x[Len(x)] \in DOMAIN Imports(m)
          PROVE  FALSE
      <4>1. x = Append(m, x[Len(x)])
        BY <3>2, <3>3, NameOfKid
      <4>2. x \in Range(ks)
        BY <1>1, <3>3, <4>1, KidsOf DEF LInv
      <4> QED
        BY <1>2, <3>2, <4>2
    <3>4. Import(ts[i])
      BY <1>1, <1>11, <3>1, <3>2, <3>3, NewImports
    <3>5. PICK h \in 1..b : i < h /\ ts[h] = Importer(ts[i])
      BY <1>3, <1>4, <3>4 DEF Above
    <3>6. h + a \in 1..(a + b) /\ j < h + a /\ us[h + a] = ts[h]
      BY <1>6, <3>1, <3>5
    <3> QED
      BY <3>1, <3>5, <3>6
  <2> QED
    BY <2>1, <2>2
<1>12. ASSUME NEW j \in 1..(a + b), us[j] \in begun', NEW h \in 1..(a + b), h <= j
       PROVE  InTree(us[j], us[h])
  <2>1. ~(j <= a)
    BY <1>1, <1>2, <1>6, <1>12
  <2>2. PICK i \in 1..b : i = j - a /\ us[j] = ts[i]
    BY <1>6, <2>1
  <2>3. CASE us[j] = m
    <3>1. i = 1
      BY <1>1, <1>4, <1>7, <2>2, <2>3 DEF IsInjective
    <3>2. CASE h <= a
      <4>1. h \in 1..a
        BY <3>2
      <4> QED
        BY <1>9, <2>3, <4>1
    <3>3. CASE ~(h <= a)
      <4>1. h = j
        BY <1>12, <2>2, <3>1, <3>3
      <4> QED
        BY <1>7, <2>3, <4>1, InOwnTree
    <3> QED
      BY <3>2, <3>3
  <2>4. CASE us[j] # m
    <3>1. ts[i] \in begun /\ ts[i] \in Id
      BY <1>1, <1>12, <2>2, <2>4, Referred
    <3>2. CASE h <= a
      <4>1. 1 <= i
        OBVIOUS
      <4>2. InTree(ts[i], m)
        BY <1>3, <1>4, <1>7, <3>1, <4>1 DEF Above
      <4>3. h \in 1..a
        BY <3>2
      <4>4. InTree(m, us[h]) /\ us[h] \in Id
        BY <1>5, <1>9, <4>3, ElementOfSeq
      <4> QED
        BY <1>7, <2>2, <3>1, <4>2, <4>4, TreeOfTree
    <3>3. CASE ~(h <= a)
      <4>1. h - a \in 1..b /\ us[h] = ts[h - a] /\ h - a <= i
        BY <1>6, <1>12, <2>2, <3>3
      <4> QED
        BY <1>3, <1>4, <2>2, <3>1, <4>1 DEF Above
    <3> QED
      BY <3>2, <3>3
  <2> QED
    BY <2>3, <2>4
<1>13. Before(us)'
  <2>1. ASSUME NEW j \in DOMAIN us, us[j] \in begun', NEW k \in DOMAIN Imports(us[j])'
        PROVE  \/ Append(us[j], k) \in begun'
               \/ \E h \in DOMAIN us : h < j /\ us[h] = Append(us[j], k)
    <3>1. k \in DOMAIN Imports(us[j]) /\ j \in 1..(a + b)
      BY <1>5, <1>8, <2>1
    <3> QED
      BY <1>5, <1>10, <2>1, <3>1
  <2> QED
    BY <2>1 DEF Before
<1>14. Above(us)'
  BY <1>5, <1>8, <1>11, <1>12 DEF Above, Importer
<1> QED
  BY <1>5, <1>13, <1>14 DEF Before, Above

\* A module that begins is still to be entered for its body.
LEMMA EvaluateImportsWaits ==
  ASSUME LInv, LInv', Kept, BInv, EInv, EvaluateImports
  PROVE  Waiters' /\ Order'
<1>1. /\ UNCHANGED <<inst, jobs, ran, threw>> /\ Waiters /\ Order
      /\ Past' = Past /\ \A p : Told(p)' <=> Told(p)
  BY ModuleEnters DEF EInv, Past, Told
<1>2. PICK n \in Nat \ {0}, m \in DOMAIN inst, ks \in Seq(Id), ts \in Seq(Id) :
        Enters(n, m, ks, ts)
  BY ModuleEnters
<1>3. /\ n \in DOMAIN loads /\ DOMAIN loads' = DOMAIN loads /\ loads'[n].todo = ks \o ts
      /\ \A i \in DOMAIN loads : i # n => loads'[i] = loads[i]
      /\ \A i \in DOMAIN loads : Listed(i) \subseteq Listed(i)'
      /\ m \in Listed(n) /\ begun' = begun \cup {m} /\ ks = Kids(m)
      /\ loads[n].phase = "evaluate"
      /\ \A c \in Range(ks) : \A i \in DOMAIN loads : c \notin Listed(i)
  BY <1>2 DEF Enters
<1>4. \A i \in DOMAIN loads : i # n => m \notin Listed(i)
  BY <1>3 DEF BInv, Lists
<1>5. ASSUME NEW p, Somewhere(p)
      PROVE  Provided(p)'
  <2>1. PICK i \in DOMAIN loads : p \in Listed(i)
    BY <1>5 DEF Somewhere
  <2>2. i \in DOMAIN loads' /\ p \in Listed(i)'
    BY <1>3, <2>1
  <2> QED
    BY <2>2 DEF Provided, Somewhere
<1>6. ASSUME NEW p \in begun, Held(p)
      PROVE  Provided(p)'
  <2>1. Held(p)'
    BY <1>1, <1>3, <1>6, HeldStays, Referred
  <2> QED
    BY <2>1 DEF Provided
<1>7. Waiters'
  <2>1. \A p \in begun' \ begun : Somewhere(p)
    BY <1>3 DEF Somewhere
  <2>2. \A p \in begun' \ begun : Provided(p)'
    BY <1>5, <2>1
  <2> QED
    BY <1>1, <1>5, <1>6, <2>2, WaitersStay
<1>8. ASSUME NEW i \in DOMAIN loads', loads'[i].phase # "link"
      PROVE  /\ Before(loads[i].todo)'
             /\ loads'[i].phase = "evaluate" => Above(loads[i].todo)'
  <2>1. CASE i = n
    <3>1. Before(ks \o ts)' /\ Above(ks \o ts)'
      BY <1>1, <1>2, OrderEnters
    <3>2. PICK us \in Seq(Id) : us = ks \o ts /\ us = loads'[i].todo
      BY <1>3, <2>1, Joined
    <3>3. Before(us)' /\ Above(us)'
      BY <3>1, <3>2
    <3>4. Before(us)' => Before(loads[i].todo)'
      BY <3>2 DEF Before
    <3>5. Above(us)' => Above(loads[i].todo)'
      BY <3>2 DEF Above
    <3> QED
      BY <3>3, <3>4, <3>5
  <2>2. CASE i # n
    <3>1. i \in DOMAIN loads /\ loads'[i] = loads[i]
      BY <1>3, <1>8, <2>2
    <3>2. PICK s \in Seq(Id) : /\ s = loads[i].todo /\ s = loads'[i].todo
                               /\ Range(s) = Listed(i) /\ Range(s) \subseteq DOMAIN inst
      BY <1>8, <3>1, Referred DEF Listed
    <3>3. Before(s) /\ (loads[i].phase = "evaluate" => Above(s))
      BY <1>1, <1>8, <3>1, <3>2 DEF Order
    <3>4. m \notin Range(s) /\ \A c \in Range(s) : c \notin Range(Kids(m))
      BY <1>3, <1>4, <2>2, <3>1, <3>2
    <3>5. Before(s)'
      BY <1>1, <1>3, <3>2, <3>3, <3>4, OrderElsewhere
    <3>6. Above(s) => Above(s)'
      BY <1>1, <1>3, <3>2, <3>4, OrderElsewhere
    <3>7. Before(loads[i].todo)'
      BY <3>2, <3>5 DEF Before
    <3>8. Above(s)' => Above(loads[i].todo)'
      BY <3>2 DEF Above
    <3> QED
      BY <3>1, <3>3, <3>6, <3>7, <3>8
  <2> QED
    BY <2>1, <2>2
<1>9. Order'
  BY <1>8 DEF Order
<1> QED
  BY <1>7, <1>9

-----------------------------------------------------------------------------
(* The end.                                                                *)

\* A load begins of a module that nests no deeper than that.
LEMMA DepthOfLoad ==
  ASSUME TypeOK, Depth, ~Linking, NEW x \in Id, Len(x) <= MaxStack + 1, NEW q, Load(x, q)
  PROVE  Depth'
<1> DEFINE new == [root |-> x, phase |-> "link", todo |-> <<x>>]
<1>1. DOMAIN inst' = DOMAIN inst \cup {x} /\ loads' = Append(loads, new)
  BY DEF Load, LoadModule
<1>2. <<x>> \in Seq(Id) /\ Range(<<x>>) = {x}
  BY OneElement
<1>3. loads \in Seq(Graph) /\ new \in Graph
  BY <1>2 DEF TypeOK, Graph
<1>4. Top' = new /\ Linking'
  <2>1. /\ Append(loads, new) \in Seq(Graph) /\ Append(loads, new) # << >>
        /\ Len(Append(loads, new)) = Len(loads) + 1 /\ Append(loads, new)[Len(loads) + 1] = new
    BY <1>3, AppendProperties
  <2> QED
    BY <1>1, <2>1 DEF Top, Linking
<1>5. ToLink(x)'
  BY <1>2, <1>4 DEF ToLink, Range
<1>6. \A n \in DOMAIN inst : Len(n) <= MaxStack + 1 /\ Shallow(n)
  BY DEF Depth, ToLink
<1> QED
  BY <1>1, <1>5, <1>6 DEF Depth, Shallow

\* The static imports of a module, which is to be linked next, are loaded.
LEMMA DepthOfImport ==
  ASSUME LInv, Depth, ResolveModuleCallback
  PROVE  Depth'
<1>1. TypeOK /\ Named /\ Stack /\ MaxStack \in Nat \ {0}
  BY LoaderAssumption DEF LInv
<1>2. loads # << >> /\ Top.todo # << >> /\ Linking /\ UNCHANGED loads
  BY DEF ResolveModuleCallback, Working, Linking
<1>3. PICK m \in DOMAIN inst : m = Head(Top.todo)
  BY <1>1, <1>2, TopOfStack
<1>4. PICK k :
        /\ k = Cardinality({j \in DOMAIN Imports(m) : Append(m, j) \in DOMAIN inst}) + 1
        /\ Len(m) <= MaxStack /\ k <= Len(Imports(m))
        /\ LoadModule(Append(m, k), <<folder, Imports(m)[k].name>>)
  BY <1>3 DEF ResolveModuleCallback
<1>5. k \in Nat \ {0} /\ m \in Id
  BY <1>1, <1>4, NextImportIsNew, Referred
<1>6. PICK x : x = Append(m, k)
  OBVIOUS
<1>7. Len(x) <= MaxStack + 1 /\ Importer(x) = m
  BY <1>1, <1>4, <1>5, <1>6, KidNames, ImporterOfKid
<1>8. Top' = Top /\ Linking'
  BY <1>2 DEF Top, Linking
<1>9. ToLink(x)' /\ \A n : ToLink(n) => ToLink(n)'
  BY <1>2, <1>3, <1>7, <1>8 DEF ToLink, Range, Importer
<1>10. DOMAIN inst' = DOMAIN inst \cup {x}
  BY <1>4, <1>6 DEF LoadModule
<1> QED
  BY <1>7, <1>9, <1>10 DEF Depth, Shallow

\* A module that is linked has its imports linked next.
LEMMA DepthOfLinking ==
  ASSUME LInv, Depth, LinkImports
  PROVE  Depth'
<1>1. TypeOK /\ Named /\ Graphs /\ Stack
  BY DEF LInv
<1>2. loads # << >> /\ Top.todo # << >> /\ Linking /\ UNCHANGED inst
  BY DEF LinkImports, Working, Linking
<1>3. PICK m \in DOMAIN inst : m = Head(Top.todo) /\ m \in Range(Top.todo)
  BY <1>1, <1>2, TopOfStack
<1>4. CASE UNCHANGED loads
  <2>1. \A n : ToLink(n)' <=> ToLink(n)
    BY <1>4 DEF ToLink, Linking, Top, Importer, Range
  <2> QED
    BY <1>2, <2>1 DEF Depth, Shallow
<1>5. CASE Len(m) <= MaxStack /\ SetTodo(Kids(m) \o Tail(Top.todo))
           /\ \A k \in DOMAIN Imports(m) : Append(m, k) \in DOMAIN inst
  <2>1. /\ Kids(m) \in Seq(Id) /\ Range(Kids(m)) = {Append(m, k) : k \in DOMAIN Imports(m)}
        /\ Range(Kids(m)) \subseteq DOMAIN inst
    <3>1. Kids(m) \in Seq(Id) /\ Range(Kids(m)) = {Append(m, k) : k \in DOMAIN Imports(m)}
      BY <1>1, KidsOf
    <3> QED
      BY <1>5, <3>1
  <2>2. /\ Top.todo \in Seq(Id) /\ Tail(Top.todo) \in Seq(Id)
        /\ Range(Top.todo) = {m} \cup Range(Tail(Top.todo))
        /\ Range(Top.todo) \subseteq DOMAIN inst
    BY <1>1, <1>2, <1>3, TopOfStack, Elements
  <2>3. PICK ms \in Seq(Id) :
          /\ ms = Kids(m) \o Tail(Top.todo)
          /\ Range(ms) = Range(Kids(m)) \cup Range(Tail(Top.todo))
    <3>1. PICK ks \in Seq(Id), ts \in Seq(Id) : ks = Kids(m) /\ ts = Tail(Top.todo)
      BY <2>1, <2>2
    <3>2. ks \o ts \in Seq(Id) /\ Range(ks \o ts) = Range(ks) \cup Range(ts)
      BY Joined
    <3> QED
      BY <3>1, <3>2
  <2>4. loads' # << >> /\ Top'.phase = Top.phase /\ Top'.todo = ms
    <3>1. SetTodo(ms) /\ Range(ms) \subseteq DOMAIN inst
      BY <1>5, <2>1, <2>2, <2>3
    <3> QED
      BY <1>1, <1>2, <3>1, TodoSet
  <2>5. Linking' /\ Range(Top.todo)' = Range(ms)
    BY <1>2, <2>4 DEF Linking, Range
  <2>6. ASSUME NEW n \in DOMAIN inst, ~Shallow(n)
        PROVE  n \in Range(ms)
    <3>1. ToLink(n) /\ n # m
      BY <1>5, <2>6 DEF Depth, Shallow
    <3>2. CASE n \in Range(Top.todo)
      BY <2>2, <2>3, <3>1, <3>2
    <3>3. CASE Importer(n) = m
      <4>1. n \in Id /\ n # << >>
        BY <1>1, <2>6, Referred DEF Named
      <4>2. PICK k \in Nat \ {0} : n = Append(m, k)
        BY <3>3, <4>1, NameOfKid
      <4>3. m \notin begun
        BY <1>1, <1>2, <1>3 DEF Graphs
      <4>4. k \in DOMAIN Imports(m)
        BY <1>1, <2>6, <4>2, <4>3 DEF Named
      <4> QED
        BY <2>1, <2>3, <4>2, <4>4
    <3> QED
      BY <1>3, <3>1, <3>2, <3>3 DEF ToLink
  <2> QED
    BY <1>2, <2>5, <2>6 DEF Depth, Shallow, ToLink
<1>6. UNCHANGED loads \/ ( Len(m) <= MaxStack /\ SetTodo(Kids(m) \o Tail(Top.todo))
                          /\ \A k \in DOMAIN Imports(m) : Append(m, k) \in DOMAIN inst)
  <2>1. Len(m) \in Nat /\ MaxStack \in Nat
    BY <1>1, Referred, LenProperties, LoaderAssumption DEF Id
  <2>2. CASE Len(m) > MaxStack
    BY <1>3, <2>2 DEF LinkImports
  <2>3. CASE ~(Len(m) > MaxStack)
    <3>1. SetTodo(Kids(m) \o Tail(Top.todo)) /\ \A k \in DOMAIN Imports(m) : Append(m, k) \in DOMAIN inst
      BY <1>3, <2>3 DEF LinkImports
    <3> QED
      BY <2>1, <2>3, <3>1
  <2> QED
    BY <2>2, <2>3
<1> QED
  BY <1>4, <1>5, <1>6

\* So what a body imports, which is linked, is at most one deeper than that.
LEMMA DepthStays ==
  ASSUME LInv, Ends, [Next]_vars
  PROVE  Depth'
<1>1. TypeOK /\ Named /\ Stack /\ Depth /\ MaxStack \in Nat \ {0}
  BY LoaderAssumption DEF LInv, Ends
<1>2. CASE UNCHANGED inst /\ ~Linking
  BY <1>1, <1>2 DEF Depth, ToLink, Shallow
<1>3. CASE UNCHANGED <<inst, loads>>
  <2>1. \A n : ToLink(n)' <=> ToLink(n)
    BY <1>3 DEF ToLink, Linking, Top, Importer, Range
  <2> QED
    BY <1>1, <1>3, <2>1 DEF Depth, Shallow
<1>4. CASE Start
  <2>1. PICK x \in Id : x = <<1>> /\ Len(x) = 1
    <3>1. <<1>> \in Id /\ Len(<<1>>) = 1
      BY DEF Id
    <3> QED
      BY <3>1
  <2>2. Load(x, <<Cwd, Program>>) /\ ~Linking
    BY <1>4, <2>1 DEF Start, Linking
  <2> QED
    BY <1>1, <2>1, <2>2, DepthOfLoad
<1>5. CASE ResolveModuleCallback \/ LinkImports
  BY <1>1, <1>5, DepthOfImport, DepthOfLinking
<1>6. CASE FinishLinking
  <2>1. Range(<< >>) = {}
    BY DEF Range
  <2>2. Top.todo = << >> /\ UNCHANGED inst
    BY <1>6 DEF FinishLinking
  <2>3. \A n \in DOMAIN inst : Shallow(n)
    BY <1>1, <2>1, <2>2 DEF Depth, ToLink
  <2> QED
    BY <1>1, <2>2, <2>3 DEF Depth, Shallow
<1>7. CASE ResolveDynamicModuleCallback
  <2>1. PICK m \in begun :
          /\ InBody(m)
          /\ Load(Append(m, Len(Imports(m)) + Next1(m)), <<Cwd, Body(m)[Next1(m)]>>)
    BY <1>7 DEF ResolveDynamicModuleCallback
  <2>2. m \in DOMAIN inst /\ m \in Id /\ at[m] \in Nat /\ Len(m) \in Nat
    BY Referred, LenProperties DEF Id
  <2>3. Len(Imports(m)) \in Nat
    BY <1>1, <2>2, Sources
  <2>4. PICK k \in Nat \ {0} : k = Len(Imports(m)) + Next1(m)
    BY <2>2, <2>3 DEF Next1
  <2>5. ~Linking
    BY <2>1, NotLinking DEF InBody
  <2>6. Len(m) <= MaxStack
    BY <1>1, <2>2, <2>5 DEF Depth, ToLink, Shallow
  <2>7. PICK x \in Id : x = Append(m, k) /\ Len(x) <= MaxStack + 1
    <3>1. Append(m, k) \in Id /\ Len(Append(m, k)) = Len(m) + 1
      BY <2>2, <2>4, KidNames
    <3>2. Len(Append(m, k)) <= MaxStack + 1
      BY <1>1, <2>2, <2>6, <3>1
    <3> QED
      BY <3>1, <3>2
  <2> QED
    BY <1>1, <2>1, <2>4, <2>5, <2>7, DepthOfLoad
<1>8. CASE \/ EvaluateImports \/ AwaitImports \/ Suspend \/ FinishBody \/ Throw
           \/ RunMicrotask \/ FinishEvaluation
  <2>1. UNCHANGED inst /\ Evaluating
    BY <1>8 DEF EvaluateImports, AwaitImports, Suspend, FinishBody, Throw, RunMicrotask,
       FinishEvaluation, InBody
  <2> QED
    BY <1>2, <2>1, NotLinking
<1>9. CASE \/ OutOfMemory \/ UNCHANGED vars
           \/ \E p \in Paths, c \in Contents : EditFile(p, c)
           \/ \E f \in Folders : EditFolder(f)
  <2>1. UNCHANGED <<inst, loads>>
    BY <1>9 DEF OutOfMemory, vars, EditFile, EditFolder, program
  <2> QED
    BY <1>3, <2>1
<1> QED
  BY <1>4, <1>5, <1>6, <1>7, <1>8, <1>9 DEF Next, Step

\* The process ends by itself only when the program's load is over, and no microtask
\* is left.
LEMMA EndsStay ==
  ASSUME LInv, Ends, [Next]_vars
  PROVE  Ends'
<1>1. Depth'
  BY DepthStays
<1>2. TypeOK /\ Stack
  BY DEF LInv
<1>3. status' = "exit 0" => loads' = << >> /\ jobs' = << >>
  <2>1. CASE UNCHANGED vars
    BY <2>1 DEF vars, Ends
  <2>2. CASE FinishEvaluation
    <3>1. status = "running" /\ loads # << >>
      BY <2>2 DEF FinishEvaluation, Evaluating
    <3>2. Len(loads) # 1 => status' = status
      BY <2>2 DEF FinishEvaluation, Return
    <3>3. ASSUME Len(loads) = 1
          PROVE  loads' = << >> /\ jobs' = << >>
      <4>1. jobs' = << >> /\ loads' = SubSeq(loads, 1, Len(loads) - 1)
        BY <2>2, <3>3 DEF FinishEvaluation, Return
      <4>2. loads \in Seq(Graph)
        BY <1>2 DEF TypeOK, Graph
      <4>3. loads' \in Seq(Graph) /\ Len(loads') = 0
        BY <3>1, <3>3, <4>1, <4>2, Shortened
      <4> QED
        BY <4>1, <4>3, EmptySeq
    <3> QED
      BY <3>1, <3>2, <3>3
  <2>3. CASE \/ Start \/ ResolveModuleCallback \/ LinkImports \/ FinishLinking
             \/ EvaluateImports \/ AwaitImports \/ ResolveDynamicModuleCallback \/ Suspend
             \/ FinishBody \/ Throw \/ OutOfMemory \/ RunMicrotask
             \/ \E p \in Paths, c \in Contents : EditFile(p, c)
             \/ \E f \in Folders : EditFolder(f)
    <3>1. status = "running"
      BY <2>3 DEF Start, ResolveModuleCallback, LinkImports, FinishLinking, EvaluateImports,
         AwaitImports, ResolveDynamicModuleCallback, Suspend, FinishBody, Throw, OutOfMemory,
         RunMicrotask, EditFile, EditFolder, Working, Evaluating, InBody
    <3>2. status' \in {status, "exit 1", "aborted"}
      BY <2>3 DEF Start, ResolveModuleCallback, LinkImports, FinishLinking, EvaluateImports,
         AwaitImports, ResolveDynamicModuleCallback, Suspend, FinishBody, Throw, OutOfMemory,
         RunMicrotask, EditFile, EditFolder, program, Load, LoadModule
    <3> QED
      BY <3>1, <3>2
  <2> QED
    BY <2>1, <2>2, <2>3 DEF Next, Step
<1> QED
  BY <1>1, <1>3 DEF Ends

\* The invariant holds before anything is loaded.
LEMMA InitWaits ==
  ASSUME Init
  PROVE  EInv
<1>1. loads = << >> /\ inst = << >> /\ at = << >> /\ status = "running"
  BY DEF Init
<1>2. DOMAIN << >> = {} /\ begun = {}
  BY <1>1 DEF begun
<1> QED
  BY <1>1, <1>2 DEF EInv, Waiters, Order, Ends, Depth

\* Every step keeps it.
LEMMA StepWaits ==
  ASSUME LInv, BInv, EInv, [Next]_vars
  PROVE  EInv'
<1>1. LInv' /\ Kept
  BY StepKeeps DEF Kept
<1>2. Ends'
  BY EndsStay DEF EInv
<1>3. CASE \/ Start \/ ResolveDynamicModuleCallback
           \/ ResolveModuleCallback \/ LinkImports \/ FinishEvaluation
           \/ OutOfMemory \/ UNCHANGED vars
           \/ \E p \in Paths, c \in Contents : EditFile(p, c)
           \/ \E f \in Folders : EditFolder(f)
  <2>1. Waiters' /\ Order'
    BY <1>1, <1>3, QuietWaits
  <2> QED
    BY <1>2, <2>1 DEF EInv
<1>4. CASE \/ FinishLinking \/ EvaluateImports \/ AwaitImports \/ Suspend \/ FinishBody
           \/ Throw \/ RunMicrotask
  <2>1. Waiters' /\ Order'
    BY <1>1, <1>4, FinishLinkingWaits, EvaluateImportsWaits, AwaitImportsWaits, SuspendWaits,
       FinishBodyWaits, ThrowWaits, RunMicrotaskWaits
  <2> QED
    BY <1>2, <2>1 DEF EInv
<1> QED
  BY <1>3, <1>4 DEF Next, Step

\* Nothing in the tree of m threw, is still to be entered, or has a microtask.
Quiet(m) ==
  /\ m \in DOMAIN inst
  /\ \A n \in Tree(m) : n \notin threw /\ ~Somewhere(n) /\ n \notin Range(jobs)

\* Then what began there and did not end waits for an import that did not end.
LEMMA WaitsForAnother ==
  ASSUME LInv, Waiters, NEW m, Quiet(m), NEW n \in Tree(m) \cap begun, n \notin ran
  PROVE  \E k \in DOMAIN Imports(n) :
           /\ Append(n, k) \in Tree(m) \cap begun /\ Append(n, k) \notin ran
           /\ Len(Append(n, k)) = Len(n) + 1
<1>1. /\ TypeOK /\ m \in Id /\ n \in DOMAIN inst /\ n \in Id /\ InTree(m, n)
  BY Referred DEF LInv, Tree, Quiet
<1>2. ASSUME Dead(n)
      PROVE  FALSE
  <2>1. PICK t \in DOMAIN inst : InTree(n, t) /\ t \in threw /\ t \in Id
    BY <1>2, Referred DEF Dead, Tree
  <2>2. t \in Tree(m)
    BY <1>1, <2>1, TreeOfTree DEF Tree
  <2> QED
    BY <2>1, <2>2 DEF Quiet
<1>3. Held(n)
  BY <1>2 DEF Waiters, Provided, Quiet
<1>4. PICK k \in DOMAIN Imports(n) : Append(n, k) \in begun /\ ~Told(Append(n, k))
  BY <1>3 DEF Held, Past, Quiet
<1>5. k \in Nat \ {0}
  <2>1. PICK l \in Nat : DOMAIN Imports(n) = 1..l
    BY <1>1, Sources
  <2> QED
    BY <2>1
<1>6. PICK x \in Id : x = Append(n, k) /\ x \in DOMAIN inst /\ Len(x) = Len(n) + 1
  BY <1>1, <1>4, <1>5, KidNames, Referred
<1>7. x \in Tree(m)
  BY <1>1, <1>5, <1>6, KidInTree DEF Tree
<1>8. x \notin ran
  BY <1>4, <1>6, <1>7, ToldMeans DEF Quiet
<1> QED
  BY <1>4, <1>6, <1>7, <1>8

\* And so, as modules nest only so deep, what began there has ended.
LEMMA AllThatBeganRan ==
  ASSUME LInv, Waiters, Ends, NEW m, Quiet(m)
  PROVE  Tree(m) \cap begun \subseteq ran
<1> SUFFICES ASSUME NEW x \in Tree(m) \cap begun, x \notin ran
             PROVE  FALSE
  OBVIOUS
<1>1. PICK Left \in SUBSET (Tree(m) \cap begun) :
        x \in Left /\ \A n \in Tree(m) \cap begun : n \in Left <=> n \notin ran
  <2>1. PICK Left : Left = {n \in Tree(m) \cap begun : n \notin ran}
    OBVIOUS
  <2> QED
    BY <2>1
<1>2. \A n \in Left : Len(n) \in Nat /\ Len(n) <= MaxStack + 1
  BY <1>1, Referred, LenProperties DEF Ends, Depth, Id
<1>3. PICK Depths \in SUBSET Nat : Depths = {Len(n) : n \in Left}
  BY <1>2
<1>4. Depths # {} /\ \A d \in Depths : d <= MaxStack + 1
  BY <1>1, <1>2, <1>3
<1>5. PICK d \in Depths : d + 1 \notin Depths
  <2>1. MaxStack + 1 \in Nat
    BY LoaderAssumption
  <2> QED
    BY <1>4, <2>1, Highest
<1>6. PICK n \in Left : d = Len(n)
  BY <1>3, <1>5
<1>7. PICK k \in DOMAIN Imports(n) :
        Append(n, k) \in Left /\ Len(Append(n, k)) = Len(n) + 1
  BY <1>1, <1>6, WaitsForAnother
<1> QED
  BY <1>3, <1>5, <1>6, <1>7

\* When the process has ended by itself, every module whose evaluation began ran to its
\* end, or something it imports threw (NothingIsLeftWaiting).
THEOREM NobodyIsLeftWaiting == Spec => []NothingIsLeftWaiting
<1>1. Init => LInv /\ BInv /\ EInv
  BY InitHolds, InitOnce, InitWaits
<1>2. LInv /\ BInv /\ EInv /\ [Next]_vars => LInv' /\ BInv' /\ EInv'
  BY StepKeeps, StepOnce, StepWaits
<1>3. LInv /\ EInv => NothingIsLeftWaiting
  <2> SUFFICES ASSUME LInv, EInv, loads = << >>, jobs = << >>,
                      NEW m \in begun, Tree(m) \cap threw = {}
               PROVE  m \in ran
    BY DEF NothingIsLeftWaiting, EInv, Ends
  <2>1. m \in DOMAIN inst /\ m \in Tree(m)
    BY Referred, InOwnTree DEF Tree
  <2>2. \A n : ~Somewhere(n) /\ n \notin Range(jobs)
    <3>1. DOMAIN << >> = {}
      OBVIOUS
    <3> QED
      BY <3>1 DEF Somewhere, Range
  <2>3. Quiet(m)
    BY <2>1, <2>2 DEF Quiet
  <2>4. Tree(m) \cap begun \subseteq ran
    BY <2>3, AllThatBeganRan DEF EInv
  <2> QED
    BY <2>1, <2>4
<1> QED
  BY <1>1, <1>2, <1>3, PTL DEF Spec

-----------------------------------------------------------------------------
(* Cycles.                                                                 *)

\* As long as nothing was edited, an instance has the code that its path names, and the
\* path that its importer names.
AsFiled ==
  edits = 0 =>
    /\ \A n \in DOMAIN inst : inst[n].code = Read(inst[n].path)
    /\ \A n \in DOMAIN inst : \A k \in DOMAIN Imports(n) :
         Append(n, k) \in DOMAIN inst => inst[Append(n, k)].path = <<folder, Imports(n)[k].name>>

\* A module that is loaded from where its importer says is as filed.
LEMMA FiledGrows ==
  ASSUME LInv, AsFiled, UNCHANGED <<files, folder, edits>>,
         NEW x \in Id, x # << >>, x \notin DOMAIN inst, NEW q, LoadModule(x, q),
         \A n \in DOMAIN inst : \A k \in DOMAIN Imports(n) :
           x = Append(n, k) => q = <<folder, Imports(n)[k].name>>
  PROVE  AsFiled'
<1>1. /\ DOMAIN inst' = DOMAIN inst \cup {x}
      /\ inst'[x].path = q /\ inst'[x].code = Read(q)
      /\ \A n \in DOMAIN inst : inst'[n] = inst[n]
  BY DEF LoadModule
<1>2. \A p : Read(p)' = Read(p)
  BY DEF Read
<1>3. \A n \in DOMAIN inst : Imports(n)' = Imports(n)
  BY <1>1 DEF Imports
<1> SUFFICES ASSUME edits = 0
             PROVE  /\ \A n \in DOMAIN inst' : inst'[n].code = Read(inst'[n].path)
                    /\ \A n \in DOMAIN inst' : \A k \in DOMAIN Imports(n)' :
                         Append(n, k) \in DOMAIN inst' =>
                           inst'[Append(n, k)].path = <<folder, Imports(n)'[k].name>>
  BY <1>2 DEF AsFiled
<1>4. \A n \in DOMAIN inst' : inst'[n].code = Read(inst'[n].path)
  BY <1>1 DEF AsFiled
<1>5. ASSUME NEW n \in DOMAIN inst', NEW k \in DOMAIN Imports(n)', Append(n, k) \in DOMAIN inst'
      PROVE  inst'[Append(n, k)].path = <<folder, Imports(n)'[k].name>>
  <2>1. CASE n \in DOMAIN inst
    <3>1. k \in DOMAIN Imports(n) /\ Imports(n)' = Imports(n)
      BY <1>3, <1>5, <2>1
    <3>2. CASE Append(n, k) \in DOMAIN inst
      BY <1>1, <2>1, <3>1, <3>2 DEF AsFiled
    <3>3. CASE Append(n, k) = x
      BY <1>1, <2>1, <3>1, <3>3
    <3> QED
      BY <1>1, <1>5, <3>2, <3>3
  <2>2. CASE n = x
    <3>1. k \in Nat \ {0}
      <4>1. Read(q) \in Contents \cup {Empty}
        BY DEF LInv, TypeOK, Read
      <4>2. PICK l \in Nat : DOMAIN Read(q).imports = 1..l
        BY <4>1, Code
      <4> QED
        BY <1>1, <1>5, <2>2, <4>2 DEF Imports
    <3>2. Append(x, k) # x
      <4>1. Len(Append(x, k)) = Len(x) + 1 /\ Len(x) \in Nat
        BY <3>1, KidNames
      <4> QED
        BY <4>1
    <3>3. Append(x, k) \notin DOMAIN inst
      BY <3>1, ImporterThere DEF LInv
    <3> QED
      BY <1>1, <1>5, <2>2, <3>2, <3>3
  <2> QED
    BY <1>1, <1>5, <2>1, <2>2
<1> QED
  BY <1>4, <1>5

\* All modules stay as filed while nothing is edited.
LEMMA FiledStays ==
  ASSUME LInv, AsFiled, [Next]_vars
  PROVE  AsFiled'
<1>1. TypeOK /\ Named /\ Stack
  BY DEF LInv
<1>2. CASE UNCHANGED <<inst, files, folder, edits>>
  BY <1>2 DEF AsFiled, Imports, Read
<1>3. CASE Start
  <2>1. PICK x \in Id : x = <<1>> /\ x # << >>
    <3>1. <<1>> \in Id /\ <<1>> # << >>
      BY DEF Id
    <3> QED
      BY <3>1
  <2>2. /\ LoadModule(x, <<Cwd, Program>>) /\ UNCHANGED <<files, folder, edits>>
        /\ status = "running" /\ loads = << >>
    BY <1>3, <2>1 DEF Start, Load, world
  <2>3. inst = << >>
    BY <1>1, <2>2 DEF Stack
  <2>4. DOMAIN inst = {}
    BY <2>3
  <2> QED
    BY <2>1, <2>2, <2>4, FiledGrows
<1>4. CASE ResolveModuleCallback
  <2>1. loads # << >> /\ Top.todo # << >> /\ UNCHANGED <<files, folder, edits>>
    BY <1>4 DEF ResolveModuleCallback, Working, world
  <2>2. PICK m \in DOMAIN inst : m = Head(Top.todo) /\ m \in Id
    BY <1>1, <2>1, TopOfStack, Referred
  <2>3. PICK k :
          /\ k = Cardinality({j \in DOMAIN Imports(m) : Append(m, j) \in DOMAIN inst}) + 1
          /\ k <= Len(Imports(m))
          /\ LoadModule(Append(m, k), <<folder, Imports(m)[k].name>>)
    BY <1>4, <2>2 DEF ResolveModuleCallback
  <2>4. k \in Nat \ {0} /\ Append(m, k) \notin DOMAIN inst
    BY <1>1, <2>3, NextImportIsNew
  <2>5. PICK x \in Id : x = Append(m, k) /\ x # << >>
    <3>1. Append(m, k) \in Id /\ Append(m, k) # << >>
      BY <2>2, <2>4, KidNames
    <3> QED
      BY <3>1
  <2>6. ASSUME NEW n \in DOMAIN inst, NEW j \in DOMAIN Imports(n), x = Append(n, j)
        PROVE  n = m /\ j = k
    <3>1. n \in Id /\ \E l \in Nat : DOMAIN Imports(n) = 1..l
      BY <1>1, Sources
    <3>2. j \in Nat \ {0}
      BY <3>1
    <3>3. Append(n, j) = Append(m, k)
      BY <2>5, <2>6
    <3>4. m \in Id /\ k \in Nat \ {0} /\ n \in Id
      BY <2>2, <2>4, <3>1
    <3>5. n = m /\ j = k
      BY <3>2, <3>3, <3>4, KidsDiffer
    <3> QED
      BY <3>5
  <2> QED
    BY <2>1, <2>3, <2>4, <2>5, <2>6, FiledGrows
<1>5. CASE ResolveDynamicModuleCallback
  <2>1. PICK m \in begun :
          /\ LoadModule(Append(m, Len(Imports(m)) + Next1(m)), <<Cwd, Body(m)[Next1(m)]>>)
          /\ UNCHANGED <<files, folder, edits>>
    BY <1>5 DEF ResolveDynamicModuleCallback, Load, world
  <2>2. m \in DOMAIN inst /\ m \in Id /\ at[m] \in Nat
    BY Referred
  <2>3. PICK l \in Nat : l = Len(Imports(m)) /\ DOMAIN Imports(m) = 1..l
    BY <1>1, <2>2, Sources
  <2>4. PICK k \in Nat \ {0} : k = l + Next1(m) /\ k > l /\ k = l + at[m] + 1
    <3>1. PICK a \in Nat : a = at[m] /\ Next1(m) = a + 1
      BY <2>2 DEF Next1
    <3>2. l + (a + 1) \in Nat \ {0} /\ l + (a + 1) > l /\ l + (a + 1) = l + a + 1
      OBVIOUS
    <3> QED
      BY <3>1, <3>2
  <2>5. PICK x \in Id : x = Append(m, k) /\ x # << >>
    <3>1. Append(m, k) \in Id /\ Append(m, k) # << >>
      BY <2>2, KidNames
    <3> QED
      BY <3>1
  <2>6. x \notin DOMAIN inst
    <3> SUFFICES ASSUME x \in DOMAIN inst PROVE FALSE
      OBVIOUS
    <3>1. k \notin DOMAIN Imports(m)
      BY <2>3, <2>4
    <3>2. k <= Len(Imports(m)) + at[m]
      BY <1>1, <2>2, <2>5, <3>1 DEF Named
    <3> QED
      BY <2>2, <2>3, <2>4, <3>2
  <2>7. ASSUME NEW n \in DOMAIN inst, NEW j \in DOMAIN Imports(n), x = Append(n, j)
        PROVE  FALSE
    <3>1. n \in Id /\ \E i \in Nat : DOMAIN Imports(n) = 1..i
      BY <1>1, Sources
    <3>2. j \in Nat \ {0}
      BY <3>1
    <3>3. Append(n, j) = Append(m, k)
      BY <2>5, <2>7
    <3>4. n = m /\ j = k
      BY <2>2, <3>1, <3>2, <3>3, KidsDiffer
    <3> QED
      BY <2>3, <2>4, <2>7, <3>4
  <2>8. LoadModule(x, <<Cwd, Body(m)[Next1(m)]>>)
    BY <2>1, <2>3, <2>4, <2>5
  <2> QED
    BY <2>1, <2>5, <2>6, <2>7, <2>8, FiledGrows
<1>6. CASE \/ LinkImports \/ FinishLinking \/ EvaluateImports \/ AwaitImports \/ Suspend
           \/ FinishBody \/ Throw \/ OutOfMemory \/ RunMicrotask \/ FinishEvaluation
           \/ UNCHANGED vars
  <2>1. UNCHANGED <<inst, files, folder, edits>>
    BY <1>6 DEF LinkImports, FinishLinking, EvaluateImports, AwaitImports, Suspend, FinishBody,
       Throw, OutOfMemory, RunMicrotask, FinishEvaluation, vars, world
  <2> QED
    BY <1>2, <2>1
<1>7. CASE \/ \E p \in Paths, c \in Contents : EditFile(p, c)
           \/ \E f \in Folders : EditFolder(f)
  <2>1. edits' = edits + 1
    BY <1>7 DEF EditFile, EditFolder
  <2>2. edits \in 0..MaxEdits /\ MaxEdits \in Nat
    BY <1>1, LoaderAssumption DEF TypeOK
  <2>3. edits' # 0
    BY <2>1, <2>2
  <2> QED
    BY <2>3 DEF AsFiled
<1> QED
  BY <1>3, <1>4, <1>5, <1>6, <1>7 DEF Next, Step

\* What is below a module is below one of its imports.
LEMMA BelowImport ==
  ASSUME NEW m \in Id, NEW n \in Id, InTree(m, n), m # n
  PROVE  \E k \in DOMAIN Imports(m) : k \in Nat \ {0} /\ InTree(Append(m, k), n)
<1>1. PICK a \in Nat, c \in Nat : a = Len(m) /\ c = Len(n) /\ a <= c
  BY LenProperties DEF InTree, Id
<1>2. \A i \in 1..c : n[i] \in Nat \ {0}
  BY <1>1, ElementOfSeq DEF Id
<1>3. a < c
  <2>1. a # c
    BY <1>1, SubSeqFull DEF InTree, Id
  <2> QED
    BY <1>1, <2>1
<1>4. SubSeq(n, 1, a) = m /\ a \in a..(c - 1) /\ a + 1 \in 1..c
  BY <1>1, <1>3 DEF InTree
<1>5. PICK k \in Nat \ {0} : k = n[a + 1] /\ k \in DOMAIN Imports(m)
  BY <1>1, <1>2, <1>4 DEF InTree
<1>6. PICK x \in Id : x = Append(m, k)
  BY KidNames
<1>7. Len(x) = a + 1 /\ x[a + 1] = k /\ \A i \in 1..a : x[i] = m[i]
  BY <1>1, <1>6, KidNames
<1>8. \A i \in 1..a : m[i] = n[i]
  <2>1. \A i \in 1..a : n[i] \in Nat \ {0}
    BY <1>1, <1>2
  <2> QED
    BY <1>1, <1>4, <2>1, SubSeqProperties
<1>9. SubSeq(n, 1, a + 1) = x
  <2>1. \A i \in 1..(a + 1) : n[i] \in Nat \ {0}
    BY <1>1, <1>2, <1>3
  <2>2. /\ SubSeq(n, 1, a + 1) \in Seq(Nat \ {0}) /\ Len(SubSeq(n, 1, a + 1)) = a + 1
        /\ \A i \in 1..(a + 1) : SubSeq(n, 1, a + 1)[i] = n[i]
    BY <1>1, <1>3, <2>1, SubSeqProperties
  <2>3. \A i \in 1..(a + 1) : x[i] = n[i]
    BY <1>5, <1>7, <1>8
  <2> QED
    BY <1>6, <1>7, <2>2, <2>3, SeqEqual DEF Id
<1>10. \A i \in (a + 1)..(c - 1) : n[i + 1] \in DOMAIN Imports(SubSeq(n, 1, i))
  <2>1. \A i \in (a + 1)..(c - 1) : i \in a..(c - 1)
    BY <1>1
  <2> QED
    BY <1>1, <2>1 DEF InTree
<1>11. InTree(x, n)
  <2>1. a + 1 <= c
    BY <1>3
  <2> QED
    BY <1>1, <1>7, <1>9, <1>10, <2>1 DEF InTree
<1> QED
  BY <1>5, <1>6, <1>11

\* The instances below m one above which, in the tree of m, has the same path.
Repeats(m) ==
  {n \in Tree(m) :
     \E a \in Tree(m) : InTree(a, n) /\ a # n /\ inst[a].path = inst[n].path}

\* What is the same as something above it has an import that is, too.
LEMMA CyclesGoOn ==
  ASSUME LInv, AsFiled, edits = 0, NEW m \in DOMAIN inst, \A x \in Tree(m) : Resolved(x),
         NEW n \in Repeats(m)
  PROVE  \E k \in Nat \ {0} : Append(n, k) \in Repeats(m)
<1>1. n \in Tree(m) /\ n \in DOMAIN inst /\ n \in Id /\ m \in Id /\ InTree(m, n)
  BY Referred DEF Repeats, Tree
<1>2. PICK a \in Tree(m) : /\ InTree(a, n) /\ a # n /\ inst[a].path = inst[n].path
                           /\ a \in DOMAIN inst /\ a \in Id /\ InTree(m, a)
  BY Referred DEF Repeats, Tree
<1>3. Imports(a) = Imports(n)
  BY <1>1, <1>2 DEF AsFiled, Imports
<1>4. PICK k \in Nat \ {0} : k \in DOMAIN Imports(a) /\ InTree(Append(a, k), n)
  BY <1>1, <1>2, BelowImport
<1>5. k \in DOMAIN Imports(n) /\ Append(a, k) \in DOMAIN inst /\ Append(n, k) \in DOMAIN inst
  BY <1>1, <1>2, <1>3, <1>4 DEF Resolved
<1>6. PICK b \in Id, x \in Id : /\ b = Append(a, k) /\ x = Append(n, k)
                                /\ b \in DOMAIN inst /\ x \in DOMAIN inst
  BY <1>5, Referred
<1>7. inst[b].path = inst[x].path
  <2>1. \A y \in DOMAIN inst : \A j \in DOMAIN Imports(y) :
          Append(y, j) \in DOMAIN inst => inst[Append(y, j)].path = <<folder, Imports(y)[j].name>>
    BY DEF AsFiled
  <2>2. inst[Append(a, k)].path = <<folder, Imports(a)[k].name>>
    BY <1>2, <1>4, <1>5, <2>1
  <2>3. inst[Append(n, k)].path = <<folder, Imports(n)[k].name>>
    BY <1>1, <1>5, <2>1
  <2> QED
    BY <1>3, <1>6, <2>2, <2>3
<1>8. b \in Tree(m) /\ x \in Tree(m)
  <2>1. InTree(m, b)
    BY <1>1, <1>2, <1>4, <1>6, KidInTree
  <2>2. InTree(m, x)
    BY <1>1, <1>5, <1>6, KidInTree
  <2> QED
    BY <1>6, <2>1, <2>2 DEF Tree
<1>9. InTree(b, x)
  BY <1>1, <1>4, <1>5, <1>6, KidInTree
<1>10. b # x
  BY <1>1, <1>2, <1>6, KidsDiffer
<1> QED
  BY <1>6, <1>7, <1>8, <1>9, <1>10 DEF Repeats

\* A module that statically imports itself, directly or not, never runs, as long as
\* nothing is edited (CyclesNeverRun).
THEOREM CyclesAreNotRun == Spec => []CyclesNeverRun
<1>1. Init => LInv /\ Ends /\ AsFiled
  <2>1. Init => Ends
    BY InitWaits DEF EInv
  <2>2. ASSUME Init
        PROVE  AsFiled
    <3>1. DOMAIN inst = {}
      BY <2>2 DEF Init
    <3> QED
      BY <3>1 DEF AsFiled
  <2> QED
    BY <2>1, <2>2, InitHolds
<1>2. LInv /\ Ends /\ AsFiled /\ [Next]_vars => LInv' /\ Ends' /\ AsFiled'
  BY StepKeeps, EndsStay, FiledStays
<1>3. LInv /\ Ends /\ AsFiled /\ RunsOnlyWholeGraphs => CyclesNeverRun
  <2> SUFFICES ASSUME LInv, Ends, AsFiled, RunsOnlyWholeGraphs, edits = 0,
                      NEW m \in begun, NEW x \in Tree(m), x # m, inst[x].path = inst[m].path
               PROVE  FALSE
    BY DEF CyclesNeverRun
  <2>1. m \in DOMAIN inst /\ m \in Id /\ InTree(m, x)
    BY Referred DEF Tree
  <2>2. x \in Repeats(m)
    <3>1. m \in Tree(m)
      BY <2>1, InOwnTree DEF Tree
    <3> QED
      BY <2>1, <3>1 DEF Repeats
  <2>3. \A n \in Repeats(m) : n \in Id /\ Len(n) \in Nat /\ Len(n) <= MaxStack + 1
    BY Referred, LenProperties DEF Repeats, Tree, Ends, Depth, Id
  <2>4. PICK Depths \in SUBSET Nat : Depths = {Len(n) : n \in Repeats(m)}
    BY <2>3
  <2>5. Depths # {} /\ \A d \in Depths : d <= MaxStack + 1
    BY <2>2, <2>3, <2>4
  <2>6. PICK d \in Depths : d + 1 \notin Depths
    <3>1. MaxStack + 1 \in Nat
      BY LoaderAssumption
    <3> QED
      BY <2>5, <3>1, Highest
  <2>7. PICK n \in Repeats(m) : d = Len(n)
    BY <2>4, <2>6
  <2>8. \A y \in Tree(m) : Resolved(y)
    BY DEF RunsOnlyWholeGraphs, Resolved
  <2>9. PICK k \in Nat \ {0} : Append(n, k) \in Repeats(m)
    BY <2>1, <2>7, <2>8, CyclesGoOn
  <2>10. Len(Append(n, k)) = Len(n) + 1
    BY <2>3, <2>7, KidNames
  <2> QED
    BY <2>4, <2>6, <2>7, <2>9, <2>10
<1> QED
  BY <1>1, <1>2, <1>3, OnlyWholeGraphsRun, PTL DEF Spec
-----------------------------------------------------------------------------
(* What import() asked for.                                                *)

\* Evaluation starts with the root of a load.
Rooted ==
  \A i \in DOMAIN loads : loads[i].phase # "link" =>
    loads[i].root \in begun \/ loads[i].todo = <<loads[i].root>>

\* What a load asked for has nothing in its tree that an earlier load is to enter.
Apart ==
  \A i, j \in DOMAIN loads : j < i => Tree(loads[i].root) \cap Listed(j) = {}

\* Microtasks are of modules that await.
Awaited == \A m \in Range(jobs) : Awaits(m)

\* All of a graph has run, unless some of it threw or awaits.
Settled(m) == Tree(m) \subseteq ran \/ \E n \in Tree(m) : n \in threw \/ Awaits(n)

\* It has, once a promise was fulfilled.
Promised == \A m \in DOMAIN promise : m \in begun /\ Settled(m)

\* What every step keeps, given LInv, BInv and EInv.
PInv == Rooted /\ Apart /\ Awaited /\ Promised

\* What becomes of the loads: all but the last stay, and a step enters what is first.
Moves ==
  /\ \A i, j \in DOMAIN loads' : j < i => j \in DOMAIN loads /\ loads'[j] = loads[j]
  /\ \A i \in DOMAIN loads' :
       IF i \in DOMAIN loads
       THEN /\ loads'[i].root = loads[i].root
            /\ \/ loads'[i].phase = "link" \/ loads'[i].todo = <<loads[i].root>>
               \/ /\ loads[i].phase # "link"
                  /\ \/ loads'[i].todo = loads[i].todo \/ loads[i].todo = << >>
                     \/ Head(loads[i].todo) \in begun'
       ELSE loads'[i].phase = "link" /\ loads'[i].root \notin DOMAIN inst

\* What a load is of does not change with what it has to do.
LEMMA RootKept ==
  ASSUME NEW g \in Graph, NEW t, NEW p
  PROVE  /\ [g EXCEPT !.todo = t].root = g.root
         /\ [g EXCEPT !.phase = p, !.todo = t].root = g.root
BY DEF Graph

\* The load in progress has another list, or is in another phase, after what was first
\* in it was entered.
LEMMA MovesTop ==
  ASSUME LInv, loads # << >>, Top.phase # "link", NEW t, NEW p,
         SetTop([Top EXCEPT !.todo = t]) \/ SetTop([Top EXCEPT !.phase = p, !.todo = t]),
         Top.todo = << >> \/ Head(Top.todo) \in begun'
  PROVE  Moves
<1>1. TypeOK /\ Stack
  BY DEF LInv
<1>2. PICK n \in Nat \ {0} : /\ n = Len(loads) /\ DOMAIN loads = 1..n /\ n \in DOMAIN loads
                             /\ Top = loads[n] /\ loads[n] \in Graph
  BY <1>1, LastLoad
<1>3. /\ DOMAIN loads' = 1..n /\ loads'[n].root = loads[n].root
      /\ \A i \in 1..n : i # n => loads'[i] = loads[i]
  <2>1. PICK g \in Graph : g = Top /\ g = loads[n]
    BY <1>2
  <2>2. PICK l : l = [g EXCEPT !.todo = t]
    OBVIOUS
  <2>3. PICK m : m = [g EXCEPT !.phase = p, !.todo = t]
    OBVIOUS
  <2>4. l.root = g.root /\ m.root = g.root
    BY <2>2, <2>3, RootKept
  <2>5. SetTop(l) \/ SetTop(m)
    BY <2>1, <2>2, <2>3
  <2> QED
    BY <1>1, <1>2, <2>1, <2>4, <2>5, LoadsSet
<1>4. \A i, j \in 1..n : j < i => j # n
  BY <1>2
<1>5. \A i \in 1..n : i # n => loads[i].phase # "link"
  <2>1. \A i \in 1..n : i # n => i < n
    BY <1>2
  <2> QED
    BY <1>1, <1>2, <2>1 DEF Stack
<1> QED
  BY <1>2, <1>3, <1>4, <1>5 DEF Moves

\* A load begins.
LEMMA MovesLoad ==
  ASSUME LInv, NEW x \in Id, NEW q, Load(x, q), NEW y, Grown(y)
  PROVE  Moves
<1>1. PICK g \in Graph : g = [root |-> x, phase |-> "link", todo |-> <<x>>]
  <2>1. <<x>> \in Seq(Id)
    BY OneElement
  <2> QED
    BY <2>1 DEF Graph
<1>2. g.root = x /\ g.phase = "link" /\ loads' = Append(loads, g) /\ loads \in Seq(Graph)
  BY <1>1 DEF Load, LInv, TypeOK, Graph
<1>3. PICK n \in Nat : n = Len(loads) /\ DOMAIN loads = 1..n
  BY <1>2, LenProperties
<1>4. /\ DOMAIN loads' = 1..(n + 1) /\ loads'[n + 1] = g
      /\ \A i \in 1..n : loads'[i] = loads[i]
  <2>1. /\ Append(loads, g) \in Seq(Graph) /\ Len(Append(loads, g)) = n + 1
        /\ Append(loads, g)[n + 1] = g
        /\ \A i \in 1..n : Append(loads, g)[i] = loads[i]
    BY <1>2, <1>3, AppendProperties
  <2> QED
    BY <1>2, <2>1, LenProperties
<1>5. x \notin DOMAIN inst
  <2>1. DOMAIN inst' = DOMAIN inst \cup {x}
    BY DEF Load, LoadModule
  <2> QED
    BY <2>1 DEF Grown
<1>6. \A i, j \in 1..(n + 1) : j < i => j \in 1..n
  BY <1>3
<1>7. \A i \in 1..(n + 1) : i \in 1..n \/ i = n + 1
  BY <1>3
<1> QED
  BY <1>2, <1>3, <1>4, <1>5, <1>6, <1>7 DEF Moves

\* So it is in every step.
LEMMA StepMoves ==
  ASSUME LInv, BInv, [Next]_vars
  PROVE  Moves
<1>1. TypeOK /\ Stack
  BY DEF LInv
<1>2. PICK n \in Nat : n = Len(loads) /\ DOMAIN loads = 1..n
  BY <1>1, LenProperties DEF TypeOK
<1>3. CASE UNCHANGED loads
  BY <1>2, <1>3 DEF Moves
<1>4. CASE Start
  <2>1. Load(<<1>>, <<Cwd, Program>>) /\ <<1>> \in Id
    BY <1>4 DEF Start, Id
  <2> QED
    BY <1>4, <2>1, StartKeeps, MovesLoad
<1>5. CASE ResolveDynamicModuleCallback
  <2>1. PICK m \in begun :
          Load(Append(m, Len(Imports(m)) + Next1(m)), <<Cwd, Body(m)[Next1(m)]>>)
    BY <1>5 DEF ResolveDynamicModuleCallback
  <2>2. m \in DOMAIN inst /\ m \in Id /\ at[m] \in Nat
    BY Referred
  <2>3. Len(Imports(m)) \in Nat
    BY <1>1, <2>2, Sources
  <2>4. PICK k \in Nat \ {0} : k = Len(Imports(m)) + Next1(m)
    BY <2>2, <2>3 DEF Next1
  <2>5. PICK x \in Id : x = Append(m, k)
    BY <2>2, KidNames
  <2> QED
    BY <1>5, <2>1, <2>4, <2>5, ResolveDynamicKeeps, MovesLoad
<1>6. CASE LinkImports
  <2>1. loads # << >> /\ Top.phase = "link" /\ Top.todo # << >>
    BY <1>6 DEF LinkImports, Working
  <2>2. CASE SetTodo(Kids(Head(Top.todo)) \o Tail(Top.todo))
    <3>1. PICK m \in DOMAIN inst : m = Head(Top.todo)
      BY <1>1, <2>1, TopOfStack
    <3>2. PICK ks \in Seq(Id), us \in Seq(Id) : ks = Kids(m) /\ us = Tail(Top.todo)
      BY <1>1, <2>1, KidsOf, TopOfStack, Elements
    <3>3. PICK ts \in Seq(Id) : SetTodo(ts)
      BY <2>2, <3>1, <3>2, Joined
    <3>4. Top = loads[n] /\ n \in 1..n
      BY <1>1, <1>2, <2>1, LastLoad
    <3>5. /\ DOMAIN loads' = 1..n /\ loads'[n].phase = "link"
          /\ loads'[n].root = loads[n].root
          /\ \A i \in 1..n : i # n => loads'[i] = loads[i]
      BY <1>1, <1>2, <2>1, <3>3, <3>4, TodosSet
    <3>6. \A i, j \in 1..n : j < i => j # n
      BY <1>2
    <3> QED
      BY <1>2, <3>5, <3>6 DEF Moves
  <2> QED
    BY <1>3, <1>6, <2>2 DEF LinkImports
<1>7. CASE FinishLinking
  <2>1. ASSUME NEW r \in Id, LinkedNow(n, r)
        PROVE  Moves
    <3>1. /\ DOMAIN loads' = 1..n /\ loads'[n].todo = <<loads[n].root>>
          /\ loads'[n].root = loads[n].root
          /\ \A i \in 1..n : i # n => loads'[i] = loads[i]
      BY <1>2, <2>1 DEF LinkedNow
    <3>2. \A i, j \in 1..n : j < i => j # n
      BY <1>2
    <3> QED
      BY <1>2, <3>1, <3>2 DEF Moves
  <2>2. \A a, r : LinkedNow(a, r) => a = n
    BY <1>2 DEF LinkedNow
  <2> QED
    BY <1>3, <1>7, <2>1, <2>2, LinkingEnds
<1>8. CASE EvaluateImports
  <2>1. /\ loads # << >> /\ Top.phase # "link" /\ Head(Top.todo) \in begun'
        /\ \E t : SetTop([Top EXCEPT !.todo = t])
    BY <1>8 DEF EvaluateImports, Evaluating, SetTodo, begun
  <2> QED
    BY <2>1, MovesTop
<1>9. CASE AwaitImports
  <2>1. /\ loads # << >> /\ Top.phase # "link" /\ Head(Top.todo) \in begun'
        /\ \E t : SetTop([Top EXCEPT !.todo = t])
    BY <1>9 DEF AwaitImports, Evaluating, SetTodo, begun
  <2> QED
    BY <2>1, MovesTop
<1>10. CASE Suspend \/ FinishBody \/ Throw
  <2>1. PICK m \in begun :
          InBody(m) /\ begun' = begun /\ \E t : SetTop([Top EXCEPT !.todo = t])
    BY <1>10 DEF Suspend, FinishBody, Throw, SetTodo, begun
  <2>2. loads # << >> /\ Top.phase # "link" /\ Head(Top.todo) \in begun'
    BY <2>1 DEF InBody, Evaluating
  <2> QED
    BY <2>1, <2>2, MovesTop
<1>11. CASE RunMicrotask
  <2>1. /\ loads # << >> /\ Top.phase # "link" /\ Top.todo = << >>
        /\ \E t : SetTop([Top EXCEPT !.phase = "drain", !.todo = t])
    BY <1>11 DEF RunMicrotask, Evaluating
  <2> QED
    BY <2>1, MovesTop
<1>12. CASE FinishEvaluation
  <2>1. loads # << >> /\ loads' = SubSeq(loads, 1, Len(loads) - 1) /\ loads \in Seq(Graph)
    BY <1>1, <1>12 DEF FinishEvaluation, Evaluating, Return, TypeOK, Graph
  <2>2. \A i \in DOMAIN loads' : i \in DOMAIN loads /\ loads'[i] = loads[i]
    BY <2>1, Shortened
  <2> QED
    BY <2>2 DEF Moves
<1>13. CASE \/ ResolveModuleCallback \/ OutOfMemory \/ UNCHANGED vars
            \/ \E p \in Paths, c \in Contents : EditFile(p, c)
            \/ \E f \in Folders : EditFolder(f)
  <2>1. UNCHANGED loads
    BY <1>13 DEF ResolveModuleCallback, OutOfMemory, vars, EditFile, EditFolder, program
  <2> QED
    BY <1>3, <2>1
<1> QED
  BY <1>4, <1>5, <1>6, <1>7, <1>8, <1>9, <1>10, <1>11, <1>12, <1>13 DEF Next, Step

\* Whatever has begun, ended or thrown has done so for good.
LEMMA StepLasts ==
  ASSUME LInv, [Next]_vars
  PROVE  begun \subseteq begun' /\ ran \subseteq ran' /\ threw \subseteq threw'
<1>1. CASE ResolveDynamicModuleCallback
  BY <1>1 DEF ResolveDynamicModuleCallback, begun
<1>2. CASE EvaluateImports
  BY <1>2 DEF EvaluateImports, begun
<1>3. CASE Suspend \/ FinishBody \/ Throw
  BY <1>3 DEF Suspend, FinishBody, Throw, begun
<1>4. CASE \/ Start \/ ResolveModuleCallback \/ LinkImports \/ FinishLinking \/ AwaitImports
           \/ OutOfMemory \/ RunMicrotask \/ FinishEvaluation \/ UNCHANGED vars
           \/ \E p \in Paths, c \in Contents : EditFile(p, c)
           \/ \E f \in Folders : EditFolder(f)
  <2>1. UNCHANGED <<at, ran, threw>>
    BY <1>4 DEF Start, ResolveModuleCallback, LinkImports, FinishLinking, AwaitImports,
       OutOfMemory, RunMicrotask, FinishEvaluation, vars, EditFile, EditFolder, program
  <2> QED
    BY <2>1 DEF begun
<1> QED
  BY <1>1, <1>2, <1>3, <1>4 DEF Next, Step

\* A step makes one instance, or none.
LEMMA StepGrows ==
  ASSUME LInv, [Next]_vars
  PROVE  UNCHANGED inst \/ \E x : Grown(x)
<1>1. CASE Start \/ ResolveModuleCallback \/ ResolveDynamicModuleCallback
  BY <1>1, StartKeeps, ResolveKeeps, ResolveDynamicKeeps
<1>2. CASE \/ LinkImports \/ FinishLinking \/ EvaluateImports \/ AwaitImports \/ Suspend
           \/ FinishBody \/ Throw \/ OutOfMemory \/ RunMicrotask \/ FinishEvaluation
           \/ UNCHANGED vars
           \/ \E p \in Paths, c \in Contents : EditFile(p, c)
           \/ \E f \in Folders : EditFolder(f)
  BY <1>2 DEF LinkImports, FinishLinking, EvaluateImports, AwaitImports, Suspend, FinishBody,
     Throw, OutOfMemory, RunMicrotask, FinishEvaluation, vars, EditFile, EditFolder, program
<1> QED
  BY <1>1, <1>2 DEF Next, Step

\* A tree gets nothing that was an instance before.
LEMMA NothingOldComes ==
  ASSUME LInv, LInv', [Next]_vars, NEW r \in DOMAIN inst'
  PROVE  Tree(r)' \cap DOMAIN inst \subseteq IF r \in DOMAIN inst THEN Tree(r) ELSE {}
<1>1. CASE r \notin DOMAIN inst
  <2> SUFFICES ASSUME NEW n \in DOMAIN inst, n \in Tree(r)' PROVE FALSE
    BY <1>1
  <2>1. Len(r) <= Len(n) /\ SubSeq(n, 1, Len(r)) = r
    BY DEF Tree, InTree
  <2>2. r \in Id /\ r # << >> /\ n \in Id
    BY DEF LInv, TypeOK, Named
  <2>3. Len(r) \in Nat \ {0} /\ Len(n) \in Nat
    BY <2>2, Shortened, LenProperties DEF Id
  <2>4. Len(r) \in 1..Len(n)
    BY <2>1, <2>3
  <2>5. SubSeq(n, 1, Len(r)) \in DOMAIN inst
    BY <2>4 DEF LInv, Named
  <2> QED
    BY <1>1, <2>1, <2>5
<1>2. CASE r \in DOMAIN inst /\ UNCHANGED inst
  <2>1. Tree(r)' = Tree(r)
    BY <1>2, SameCode
  <2> QED
    BY <1>2, <2>1
<1>3. CASE r \in DOMAIN inst /\ \E x : Grown(x)
  <2>1. PICK x : Grown(x)
    BY <1>3
  <2>2. Tree(r)' = Tree(r) \cup (IF InTree(r, x) THEN {x} ELSE {}) /\ x \notin DOMAIN inst
    BY <1>3, <2>1, TreeGrows DEF LInv, Grown
  <2> QED
    BY <1>3, <2>2
<1>4. UNCHANGED inst \/ \E x : Grown(x)
  BY StepGrows
<1> QED
  BY <1>1, <1>2, <1>3, <1>4

\* The tree of what has begun is whole, and stays what it is.
LEMMA WholeTreeStays ==
  ASSUME LInv, LInv', [Next]_vars, RunsOnlyWholeGraphs, NEW m \in begun
  PROVE  Tree(m)' = Tree(m)
<1>1. m \in DOMAIN inst /\ m \in Id
  BY Referred
<1>2. CASE UNCHANGED inst
  BY <1>2, SameCode
<1>3. ASSUME NEW x, Grown(x), InTree(m, x)
      PROVE  FALSE
  <2>1. x \in Id /\ x # m /\ x \notin DOMAIN inst
    BY <1>1, <1>3 DEF Grown
  <2>2. PICK p \in Id, k \in Nat \ {0} :
          /\ p = Importer(x) /\ k = x[Len(x)] /\ x = Append(p, k)
          /\ InTree(m, p) /\ k \in DOMAIN Imports(p) /\ Len(x) = Len(p) + 1 /\ Len(p) \in Nat
    <3>1. /\ x # << >> /\ InTree(m, Importer(x))
          /\ x[Len(x)] \in DOMAIN Imports(Importer(x))
      BY <1>1, <1>3, <2>1, InTreeByImport
    <3>2. PICK p \in Id, k \in Nat \ {0} :
            p = Importer(x) /\ k = x[Len(x)] /\ x = Append(p, k)
      BY <2>1, <3>1, NameOfKid
    <3>3. Len(x) = Len(p) + 1 /\ Len(p) \in Nat
      BY <3>2, KidNames
    <3> QED
      BY <3>1, <3>2, <3>3
  <2>3. p \in DOMAIN inst
    <3>1. p # << >>
      <4>1. m # << >>
        BY <1>1 DEF LInv, Named
      <4> QED
        BY <2>2, <4>1, <1>1, Shortened DEF InTree, Id
    <3>2. p \in DOMAIN inst'
      <4>1. Len(p) \in Nat \ {0}
        BY <2>2, <3>1, Shortened DEF Id
      <4>2. Len(p) \in 1..Len(x) /\ SubSeq(x, 1, Len(p)) = p
        BY <2>2, <4>1 DEF Importer
      <4> QED
        BY <1>3, <4>2 DEF Grown, LInv, Named
    <3>3. p # x
      BY <2>2
    <3> QED
      BY <1>3, <3>2, <3>3 DEF Grown
  <2>4. p \in Tree(m)
    BY <2>2, <2>3 DEF Tree
  <2> QED
    BY <2>1, <2>2, <2>4 DEF RunsOnlyWholeGraphs
<1>4. ASSUME NEW x, Grown(x)
      PROVE  Tree(m)' = Tree(m)
  BY <1>1, <1>3, <1>4, TreeGrows DEF LInv
<1> QED
  BY <1>2, <1>4, StepGrows

\* Loads stay rooted, and apart.
LEMMA RootedStays ==
  ASSUME LInv, LInv', [Next]_vars, Moves, Rooted, Apart
  PROVE  Rooted' /\ Apart'
<1>1. begun \subseteq begun'
  BY StepLasts
<1>2. ASSUME NEW i \in DOMAIN loads', loads'[i].phase # "link"
      PROVE  loads'[i].root \in begun' \/ loads'[i].todo = <<loads'[i].root>>
  <2>1. i \in DOMAIN loads /\ loads'[i].root = loads[i].root
    BY <1>2 DEF Moves
  <2>2. CASE loads'[i].todo = <<loads[i].root>>
    BY <2>1, <2>2
  <2>3. CASE loads[i].phase # "link" /\ loads[i].root \in begun
    BY <1>1, <2>1, <2>3
  <2>4. CASE loads[i].todo = <<loads[i].root>> /\ \/ loads'[i].todo = loads[i].todo
                                                  \/ loads[i].todo = << >>
                                                  \/ Head(loads[i].todo) \in begun'
    BY <2>1, <2>4
  <2> QED
    BY <1>2, <2>1, <2>2, <2>3, <2>4 DEF Moves, Rooted
<1>3. ASSUME NEW i \in DOMAIN loads', NEW j \in DOMAIN loads', j < i
      PROVE  Tree(loads[i].root)' \cap Listed(j)' = {}
  <2>1. j \in DOMAIN loads /\ loads'[j] = loads[j]
    BY <1>3 DEF Moves
  <2>2. Listed(j)' = Listed(j) /\ Listed(j) \subseteq DOMAIN inst
    BY <2>1, Referred DEF Listed
  <2>3. PICK r \in DOMAIN inst' : r = loads'[i].root
    BY <1>3 DEF LInv, Stack
  <2>4. Tree(r)' \cap DOMAIN inst \subseteq IF r \in DOMAIN inst THEN Tree(r) ELSE {}
    BY NothingOldComes
  <2>5. CASE i \in DOMAIN loads
    <3>1. r = loads[i].root
      BY <1>3, <2>3, <2>5 DEF Moves
    <3>2. Tree(r) \cap Listed(j) = {}
      BY <1>3, <2>1, <2>5, <3>1 DEF Apart
    <3>3. Tree(r)' \cap Listed(j)' = {}
      BY <2>2, <2>4, <3>2
    <3> QED
      BY <2>3, <3>3 DEF Tree, InTree
  <2>6. CASE i \notin DOMAIN loads
    <3>1. r \notin DOMAIN inst
      BY <1>3, <2>3, <2>6 DEF Moves
    <3>2. Tree(r)' \cap Listed(j)' = {}
      BY <2>2, <2>4, <3>1
    <3> QED
      BY <2>3, <3>2 DEF Tree, InTree
  <2> QED
    BY <2>5, <2>6
<1>4. Rooted'
  BY <1>2 DEF Rooted
<1>5. Apart'
  BY <1>3 DEF Apart, Tree, InTree
<1> QED
  BY <1>4, <1>5

\* Microtasks stay with modules that await.
LEMMA AwaitedStays ==
  ASSUME LInv, LInv', Kept, [Next]_vars, Awaited
  PROVE  Awaited'
<1>1. /\ jobs \in Seq(begun) /\ Range(jobs) \subseteq begun
      /\ \A m \in DOMAIN inst : Awaits(m)' <=> Awaits(m)
  BY Referred, KeptCode DEF Awaits
<1>2. ASSUME NEW m \in begun, Awaits(m), jobs' = Append(jobs, m)
      PROVE  \A n \in Range(jobs') : n \in begun /\ Awaits(n)
  <2>1. PICK last \in Seq(begun) : last = <<m>> /\ Range(last) = {m}
    BY OneElement
  <2>2. jobs' = jobs \o last
    BY <1>1, <1>2, <2>1, AppendIsConcat
  <2>3. Range(jobs') = Range(jobs) \cup {m}
    <3>1. Range(jobs \o last) = Range(jobs) \cup Range(last)
      BY <1>1, Joined
    <3> QED
      BY <2>1, <2>2, <3>1
  <2> QED
    BY <1>1, <1>2, <2>3 DEF Awaited
<1>3. \A n \in Range(jobs') : n \in begun /\ Awaits(n)
  <2>1. CASE Suspend
    <3>1. PICK m \in begun : /\ Next1(m) <= Len(Body(m)) /\ Body(m)[Next1(m)] = Await
                             /\ jobs' = Append(jobs, m)
      BY <2>1 DEF Suspend
    <3>2. at[m] \in Nat /\ m \in DOMAIN inst
      BY Referred
    <3>3. DOMAIN Body(m) = 1..Len(Body(m)) /\ Len(Body(m)) \in Nat
      BY <3>2, Sources, LenProperties DEF LInv
    <3>4. Next1(m) \in DOMAIN Body(m)
      BY <3>1, <3>2, <3>3 DEF Next1
    <3> QED
      BY <1>2, <3>1, <3>4 DEF Awaits
  <2>2. CASE FinishBody
    <3>1. PICK m \in begun : jobs' = IF Awaits(m) THEN Append(jobs, m) ELSE jobs
      BY <2>2 DEF FinishBody
    <3> QED
      BY <1>1, <1>2, <3>1 DEF Awaited
  <2>3. CASE RunMicrotask
    <3>1. jobs # << >> /\ jobs' = Tail(jobs)
      BY <2>3 DEF RunMicrotask
    <3>2. Range(jobs') \subseteq Range(jobs)
      BY <1>1, <3>1, Elements
    <3> QED
      BY <1>1, <3>2 DEF Awaited
  <2>4. CASE \/ Start \/ ResolveModuleCallback \/ ResolveDynamicModuleCallback \/ LinkImports
             \/ FinishLinking \/ EvaluateImports \/ AwaitImports \/ Throw \/ OutOfMemory
             \/ FinishEvaluation \/ UNCHANGED vars
             \/ \E p \in Paths, c \in Contents : EditFile(p, c)
             \/ \E f \in Folders : EditFolder(f)
    <3>1. UNCHANGED jobs
      BY <2>4 DEF Start, ResolveModuleCallback, ResolveDynamicModuleCallback, LinkImports,
         FinishLinking, EvaluateImports, AwaitImports, Throw, OutOfMemory, FinishEvaluation,
         vars, EditFile, EditFolder, program
    <3> QED
      BY <1>1, <3>1 DEF Awaited
  <2> QED
    BY <2>1, <2>2, <2>3, <2>4 DEF Next, Step
<1> QED
  BY <1>1, <1>3, Referred DEF Awaited

\* Whatever is below m in its tree is an import of something there.
LEMMA ImporterInTree ==
  ASSUME LInv, NEW m \in DOMAIN inst, NEW n \in Tree(m), n # m
  PROVE  \E p \in Tree(m), k \in Nat \ {0} :
           n = Append(p, k) /\ k \in DOMAIN Imports(p) /\ Len(n) = Len(p) + 1
<1>1. m \in Id /\ m # << >> /\ n \in Id /\ n \in DOMAIN inst /\ InTree(m, n)
  BY Referred DEF LInv, Named, Tree
<1>2. /\ n # << >> /\ InTree(m, Importer(n))
      /\ n[Len(n)] \in DOMAIN Imports(Importer(n))
  BY <1>1, InTreeByImport
<1>3. PICK p \in Id, k \in Nat \ {0} : p = Importer(n) /\ k = n[Len(n)] /\ n = Append(p, k)
  BY <1>1, <1>2, NameOfKid
<1>4. Len(n) = Len(p) + 1 /\ Len(p) \in Nat
  BY <1>3, KidNames
<1>5. p # << >>
  <2>1. Len(m) \in Nat \ {0} /\ Len(m) <= Len(p)
    BY <1>1, <1>2, <1>3, Shortened DEF Id, InTree
  <2> QED
    BY <2>1
<1>6. p \in DOMAIN inst
  BY <1>1, <1>3, <1>5, ImporterThere DEF LInv
<1> QED
  BY <1>2, <1>3, <1>4, <1>6 DEF Tree

\* What ran has nothing in its tree that did not.
LEMMA RanBelow ==
  ASSUME LInv, ImportsRunFirst, NEW m \in ran
  PROVE  Tree(m) \subseteq ran
<1> SUFFICES ASSUME NEW x \in Tree(m), x \notin ran PROVE FALSE
  OBVIOUS
<1>1. m \in DOMAIN inst
  BY DEF LInv, TypeOK
<1>2. PICK Left \in SUBSET Tree(m) : x \in Left /\ \A n \in Tree(m) : n \in Left <=> n \notin ran
  <2>1. PICK Left : Left = {n \in Tree(m) : n \notin ran}
    OBVIOUS
  <2> QED
    BY <2>1
<1>3. \A n \in Tree(m) : Len(n) \in Nat
  BY Referred, LenProperties DEF Tree, Id
<1>4. PICK Depths \in SUBSET Nat : Depths = {Len(n) : n \in Left}
  BY <1>2, <1>3
<1>5. PICK d \in Depths : d - 1 \notin Depths
  <2>1. Depths # {}
    BY <1>2, <1>4
  <2> QED
    BY <2>1, Lowest
<1>6. PICK n \in Left : d = Len(n)
  BY <1>4, <1>5
<1>7. n # m
  BY <1>2, <1>6
<1>8. PICK p \in Tree(m), k \in Nat \ {0} :
        n = Append(p, k) /\ k \in DOMAIN Imports(p) /\ Len(n) = Len(p) + 1
  BY <1>1, <1>2, <1>6, <1>7, ImporterInTree
<1>9. p \in ran
  <2>1. Len(p) = d - 1
    BY <1>3, <1>6, <1>8
  <2> QED
    BY <1>2, <1>4, <1>5, <2>1
<1> QED
  BY <1>2, <1>6, <1>8, <1>9 DEF ImportsRunFirst

\* When ExecuteModule returns to an import(), what it asked for is settled.
LEMMA ReturnSettles ==
  ASSUME LInv, EInv, PInv, ImportsRunFirst, FinishEvaluation
  PROVE  Top.root \in begun /\ Settled(Top.root)
<1>1. /\ loads # << >> /\ Top.phase # "link" /\ Top.todo = << >> /\ TypeOK /\ Stack
      /\ Rooted /\ Apart /\ Awaited /\ Waiters /\ Ends
  BY DEF FinishEvaluation, Evaluating, LInv, EInv, PInv
<1>2. PICK n \in Nat \ {0} : /\ n = Len(loads) /\ DOMAIN loads = 1..n /\ n \in DOMAIN loads
                             /\ Top = loads[n] /\ loads[n] \in Graph
  BY <1>1, LastLoad
<1>3. PICK r \in DOMAIN inst : r = loads[n].root /\ r \in Id
  BY <1>2, Referred
<1>4. r \in begun
  <2>1. r \in begun \/ << >> = <<r>>
    BY <1>1, <1>2, <1>3 DEF Rooted
  <2>2. << >> # <<r>>
    OBVIOUS
  <2> QED
    BY <2>1, <2>2
<1>5. ASSUME NEW x \in Tree(r), Somewhere(x)
      PROVE  FALSE
  <2>1. PICK i \in DOMAIN loads : x \in Listed(i)
    BY <1>5 DEF Somewhere
  <2>2. DOMAIN << >> = {}
    OBVIOUS
  <2>3. i # n
    BY <1>1, <1>2, <2>1, <2>2 DEF Listed, Range
  <2>4. i < n
    BY <1>2, <2>1, <2>3
  <2> QED
    BY <1>1, <1>2, <1>3, <1>5, <2>1, <2>4 DEF Apart
<1>6. ASSUME \A x \in Tree(r) : x \notin threw /\ ~Awaits(x)
      PROVE  Tree(r) \subseteq ran
  <2>1. Quiet(r)
    BY <1>1, <1>3, <1>5, <1>6 DEF Quiet, Awaited
  <2>2. r \in Tree(r)
    BY <1>3, InOwnTree DEF Tree
  <2>3. r \in ran
    BY <1>1, <1>4, <2>1, <2>2, AllThatBeganRan
  <2> QED
    BY <2>3, RanBelow
<1> QED
  BY <1>2, <1>3, <1>4, <1>6 DEF Settled

\* What was promised stays so.
LEMMA PromisedStays ==
  ASSUME LInv, LInv', Kept, EInv, PInv, [Next]_vars, RunsOnlyWholeGraphs, ImportsRunFirst
  PROVE  Promised'
<1>1. begun \subseteq begun' /\ ran \subseteq ran' /\ threw \subseteq threw'
  BY StepLasts
<1>2. ASSUME NEW m \in begun, Settled(m)
      PROVE  m \in begun' /\ Settled(m)'
  <2>1. Tree(m)' = Tree(m)
    BY WholeTreeStays
  <2>2. \A n \in Tree(m) : Awaits(n)' <=> Awaits(n)
    BY KeptCode DEF Tree, Awaits
  <2> QED
    BY <1>1, <1>2, <2>1, <2>2 DEF Settled
<1>3. \A m \in DOMAIN promise : m \in begun /\ Settled(m)
  BY DEF PInv, Promised
<1>4. CASE FinishEvaluation
  <2>1. DOMAIN promise' \subseteq DOMAIN promise \cup {Top.root}
    BY <1>4 DEF FinishEvaluation, Return
  <2>2. Top.root \in begun /\ Settled(Top.root)
    BY <1>4, ReturnSettles
  <2>3. \A m \in DOMAIN promise' : m \in begun /\ Settled(m)
    BY <1>3, <2>1, <2>2
  <2> QED
    BY <1>2, <2>3 DEF Promised
<1>5. CASE UNCHANGED promise
  BY <1>2, <1>3, <1>5 DEF Promised
<1>6. CASE \/ Start \/ ResolveModuleCallback \/ ResolveDynamicModuleCallback \/ LinkImports
           \/ FinishLinking \/ EvaluateImports \/ AwaitImports \/ Suspend \/ FinishBody
           \/ Throw \/ OutOfMemory \/ RunMicrotask \/ UNCHANGED vars
           \/ \E p \in Paths, c \in Contents : EditFile(p, c)
           \/ \E f \in Folders : EditFolder(f)
  <2>1. UNCHANGED promise
    BY <1>6 DEF Start, ResolveModuleCallback, ResolveDynamicModuleCallback, LinkImports,
       FinishLinking, EvaluateImports, AwaitImports, Suspend, FinishBody, Throw, OutOfMemory,
       RunMicrotask, vars, EditFile, EditFolder, program
  <2> QED
    BY <1>5, <2>1
<1> QED
  BY <1>4, <1>6 DEF Next, Step

\* Once an import() is fulfilled all of its module's graph has run, unless some of it
\* threw or awaits (ImportedCodeHasRun).
THEOREM ImportedCodeRan == Spec => []ImportedCodeHasRun
<1>1. Init => LInv /\ BInv /\ EInv /\ PInv
  <2>1. ASSUME Init
        PROVE  PInv
    <3>1. loads = << >> /\ jobs = << >> /\ promise = << >>
      BY <2>1 DEF Init
    <3>2. DOMAIN << >> = {} /\ Range(<< >>) = {}
      BY DEF Range
    <3> QED
      BY <3>1, <3>2 DEF PInv, Rooted, Apart, Awaited, Promised
  <2> QED
    BY <2>1, InitHolds, InitOnce, InitWaits
<1>2. LInv /\ BInv /\ EInv /\ PInv /\ RunsOnlyWholeGraphs /\ ImportsRunFirst /\ [Next]_vars
        => LInv' /\ BInv' /\ EInv' /\ PInv'
  <2> SUFFICES ASSUME LInv, BInv, EInv, PInv, RunsOnlyWholeGraphs, ImportsRunFirst, [Next]_vars
               PROVE  LInv' /\ BInv' /\ EInv' /\ PInv'
    OBVIOUS
  <2>1. LInv' /\ Kept /\ BInv' /\ EInv'
    BY StepKeeps, StepOnce, StepWaits DEF Kept
  <2>2. Rooted' /\ Apart'
    BY <2>1, StepMoves, RootedStays DEF PInv
  <2>3. Awaited'
    BY <2>1, AwaitedStays DEF PInv
  <2>4. Promised'
    BY <2>1, PromisedStays
  <2> QED
    BY <2>1, <2>2, <2>3, <2>4 DEF PInv
<1>3. PInv => ImportedCodeHasRun
  BY DEF PInv, Promised, Settled, ImportedCodeHasRun
<1> QED
  BY <1>1, <1>2, <1>3, OnlyWholeGraphsRun, ImportsRanBefore, PTL DEF Spec

-----------------------------------------------------------------------------
(* Every import() is answered.                                             *)

\* The instance that step k of the body of m asks for.
Asked(m, k) == Append(m, Len(Imports(m)) + k)

\* It was answered; or m is at it, and the module it asks for is being loaded.
Answered(m, k) == Asked(m, k) \in DOMAIN promise
AtIt(m, k) == /\ k = at[m] /\ m \notin ran \cup threw
              /\ \E j \in DOMAIN loads : loads[j].root = Asked(m, k)

\* Load j was asked for by the step that m, which is first in the load before, is at.
AskedBy(j, m) ==
  /\ j - 1 \in DOMAIN loads /\ loads[j - 1].todo # << >> /\ m = Head(loads[j - 1].todo)
  /\ m \in begun /\ at[m] # 0 /\ loads[j].root = Asked(m, at[m])

\* All loads but that of the program were asked for in this way.
Callers ==
  \A j \in DOMAIN loads :
    IF j = 1 THEN loads[j].root = <<1>> ELSE \E m \in begun : AskedBy(j, m)

\* What asked for a load does not run until it is over.
LEMMA CallersWait ==
  ASSUME LInv, BInv, NEW j \in DOMAIN loads, NEW m \in begun, AskedBy(j, m)
  PROVE  ~InBody(m) /\ m \notin Past
<1>1. TypeOK /\ Stack
  BY DEF LInv
<1>2. loads # << >>
  <2>1. DOMAIN << >> = {}
    OBVIOUS
  <2> QED
    BY <2>1
<1>3. PICK n \in Nat \ {0} : n = Len(loads) /\ DOMAIN loads = 1..n
  BY <1>1, <1>2, LastLoad
<1>4. PICK i \in 1..n : i = j - 1 /\ i < n
  BY <1>3 DEF AskedBy
<1>5. m \in Listed(i)
  <2>1. PICK s \in Seq(Id) : s = loads[i].todo /\ s # << >> /\ m = Head(s)
    BY <1>3, <1>4, Referred DEF AskedBy
  <2>2. m \in Range(s)
    BY <2>1, Elements
  <2>3. loads[i].phase # "link"
    BY <1>1, <1>3, <1>4 DEF Stack
  <2> QED
    BY <2>1, <2>2, <2>3 DEF Listed
<1>6. m \notin Past
  BY <1>3, <1>4, <1>5 DEF BInv, Fresh
<1>7. ASSUME InBody(m)
      PROVE  FALSE
  <2>1. \A h \in DOMAIN loads : h # n => m \notin Listed(h)
    BY <1>3, <1>7, AtHead
  <2> QED
    BY <1>3, <1>4, <1>5, <2>1
<1> QED
  BY <1>6, <1>7

\* Module m is entered, and makes at most one step: it awaits, or a load begins of what
\* it asks for.
Acts(m) ==
  /\ InBody(m)
  /\ \/ at'[m] = at[m]
     \/ at'[m] = at[m] + 1 /\ Body(m)[at[m] + 1] = Await
     \/ /\ at'[m] = at[m] + 1 /\ UNCHANGED <<ran, threw>>
        /\ \E p : Load(Asked(m, at[m] + 1), p)

\* No body makes a step, ends or throws in any other way.
LEMMA WhoActs ==
  ASSUME LInv, [Next]_vars, NEW m \in begun
  PROVE  Acts(m) \/ (at'[m] = at[m] /\ (m \in ran' \cup threw' => m \in ran \cup threw))
<1>1. at \in [begun -> Nat] /\ m \in DOMAIN at
  BY Referred DEF begun
<1>2. CASE UNCHANGED <<at, ran, threw>>
  BY <1>2
<1>3. CASE ResolveDynamicModuleCallback
  <2>1. PICK x \in begun :
          /\ InBody(x) /\ at' = [at EXCEPT ![x] = @ + 1] /\ UNCHANGED <<ran, threw>>
          /\ \E p : Load(Asked(x, at[x] + 1), p)
    BY <1>3 DEF ResolveDynamicModuleCallback, Asked, Next1
  <2>2. CASE x = m
    BY <1>1, <2>1, <2>2 DEF Acts
  <2>3. CASE x # m
    BY <1>1, <2>1, <2>3
  <2> QED
    BY <2>2, <2>3
<1>4. CASE Suspend
  <2>1. PICK x \in begun :
          /\ InBody(x) /\ at' = [at EXCEPT ![x] = @ + 1] /\ UNCHANGED <<ran, threw>>
          /\ Body(x)[at[x] + 1] = Await
    BY <1>4 DEF Suspend, Next1
  <2>2. CASE x = m
    BY <1>1, <2>1, <2>2 DEF Acts
  <2>3. CASE x # m
    BY <1>1, <2>1, <2>3
  <2> QED
    BY <2>2, <2>3
<1>5. CASE FinishBody
  <2>1. PICK x \in begun : InBody(x) /\ ran' = ran \cup {x} /\ UNCHANGED <<at, threw>>
    BY <1>5 DEF FinishBody
  <2> QED
    BY <2>1 DEF Acts
<1>6. CASE Throw
  <2>1. PICK x \in begun : InBody(x) /\ threw' = threw \cup {x} /\ UNCHANGED <<at, ran>>
    BY <1>6 DEF Throw
  <2> QED
    BY <2>1 DEF Acts
<1>7. CASE EvaluateImports
  BY <1>1, <1>7 DEF EvaluateImports, begun
<1>8. CASE \/ Start \/ ResolveModuleCallback \/ LinkImports \/ FinishLinking \/ AwaitImports
           \/ OutOfMemory \/ RunMicrotask \/ FinishEvaluation \/ UNCHANGED vars
           \/ \E p \in Paths, c \in Contents : EditFile(p, c)
           \/ \E f \in Folders : EditFolder(f)
  <2>1. UNCHANGED <<at, ran, threw>>
    BY <1>8 DEF Start, ResolveModuleCallback, LinkImports, FinishLinking, AwaitImports,
       OutOfMemory, RunMicrotask, FinishEvaluation, vars, EditFile, EditFolder, program
  <2> QED
    BY <1>2, <2>1
<1> QED
  BY <1>3, <1>4, <1>5, <1>6, <1>7, <1>8 DEF Next, Step

\* Load j begins on top of all others: the program's, or what a body asks for.
Began(j) ==
  \/ j = 1 /\ loads'[j].root = <<1>>
  \/ /\ j - 1 \in DOMAIN loads /\ j # 1 /\ loads'[j - 1] = Top /\ loads # << >>
     /\ \E m \in begun : /\ InBody(m) /\ at'[m] = at[m] + 1
                         /\ loads'[j].root = Asked(m, at'[m])

\* A load comes on top of those there are.
LEMMA LoadAppended ==
  ASSUME LInv, NEW x \in Id, NEW q, Load(x, q)
  PROVE  /\ DOMAIN loads' = DOMAIN loads \cup {Len(loads) + 1}
         /\ loads'[Len(loads) + 1].root = x
         /\ \A i \in DOMAIN loads : loads'[i] = loads[i]
<1>1. PICK g \in Graph : g = [root |-> x, phase |-> "link", todo |-> <<x>>]
  <2>1. <<x>> \in Seq(Id)
    BY OneElement
  <2> QED
    BY <2>1 DEF Graph
<1>2. g.root = x /\ loads' = Append(loads, g) /\ loads \in Seq(Graph)
  BY <1>1 DEF Load, LInv, TypeOK, Graph
<1>3. PICK n \in Nat : n = Len(loads) /\ DOMAIN loads = 1..n
  BY <1>2, LenProperties
<1>4. /\ DOMAIN loads' = 1..(n + 1) /\ loads'[n + 1] = g
      /\ \A i \in 1..n : loads'[i] = loads[i]
  <2>1. /\ Append(loads, g) \in Seq(Graph) /\ Len(Append(loads, g)) = n + 1
        /\ Append(loads, g)[n + 1] = g
        /\ \A i \in 1..n : Append(loads, g)[i] = loads[i]
    BY <1>2, <1>3, AppendProperties
  <2> QED
    BY <1>2, <2>1, LenProperties
<1>5. 1..(n + 1) = 1..n \cup {n + 1}
  BY <1>3
<1> QED
  BY <1>2, <1>3, <1>4, <1>5

\* No load begins in any other way.
LEMMA WhatBegins ==
  ASSUME LInv, [Next]_vars, Moves, NEW j \in DOMAIN loads', j \notin DOMAIN loads
  PROVE  Began(j)
<1>1. TypeOK /\ Stack
  BY DEF LInv
<1>2. CASE Start
  <2>1. PICK x \in Id : x = <<1>> /\ Load(x, <<Cwd, Program>>) /\ loads = << >>
    <3>1. <<1>> \in Id
      BY DEF Id
    <3> QED
      BY <1>2, <3>1 DEF Start
  <2>2. Len(loads) = 0
    BY <2>1
  <2>3. j = 1 /\ loads'[1].root = x
    BY <2>1, <2>2, LoadAppended
  <2> QED
    BY <2>1, <2>3 DEF Began
<1>3. CASE ResolveDynamicModuleCallback
  <2>1. PICK m \in begun :
          /\ InBody(m) /\ at' = [at EXCEPT ![m] = @ + 1]
          /\ \E p : Load(Asked(m, at[m] + 1), p)
    BY <1>3 DEF ResolveDynamicModuleCallback, Asked, Next1
  <2>2. m \in DOMAIN inst /\ m \in Id /\ at[m] \in Nat /\ at'[m] = at[m] + 1
    BY <2>1, Referred
  <2>3. Len(Imports(m)) \in Nat
    BY <1>1, <2>2, Sources
  <2>4. PICK k \in Nat \ {0} : k = Len(Imports(m)) + (at[m] + 1)
    BY <2>2, <2>3
  <2>5. PICK x \in Id : x = Asked(m, at[m] + 1)
    BY <2>2, <2>4, KidNames DEF Asked
  <2>6. loads # << >>
    BY <2>1 DEF InBody, Evaluating
  <2>7. PICK n \in Nat \ {0} : n = Len(loads) /\ DOMAIN loads = 1..n /\ Top = loads[n]
    BY <1>1, <2>6, LastLoad
  <2>8. j = n + 1 /\ loads'[n + 1].root = x /\ loads'[n] = loads[n]
    BY <2>1, <2>5, <2>7, LoadAppended
  <2>9. j - 1 = n /\ j # 1
    BY <2>8
  <2> QED
    BY <2>1, <2>2, <2>5, <2>6, <2>7, <2>8, <2>9 DEF Began
<1>4. CASE UNCHANGED loads
  BY <1>4
<1>5. CASE \/ LinkImports \/ FinishLinking \/ EvaluateImports \/ AwaitImports \/ Suspend
           \/ FinishBody \/ Throw \/ RunMicrotask
  <2>1. UNCHANGED loads \/ (loads # << >> /\ \E l : SetTop(l))
    BY <1>5 DEF LinkImports, FinishLinking, EvaluateImports, AwaitImports, Suspend, FinishBody,
       Throw, RunMicrotask, SetTodo, Working, Evaluating, InBody
  <2>2. DOMAIN loads' = DOMAIN loads
    BY <2>1 DEF SetTop
  <2> QED
    BY <2>2
<1>6. CASE FinishEvaluation
  <2>1. loads # << >> /\ loads' = SubSeq(loads, 1, Len(loads) - 1) /\ loads \in Seq(Graph)
    BY <1>1, <1>6 DEF FinishEvaluation, Evaluating, Return, TypeOK, Graph
  <2> QED
    BY <2>1, Shortened
<1>7. CASE \/ ResolveModuleCallback \/ OutOfMemory \/ UNCHANGED vars
           \/ \E p \in Paths, c \in Contents : EditFile(p, c)
           \/ \E f \in Folders : EditFolder(f)
  <2>1. UNCHANGED loads
    BY <1>7 DEF ResolveModuleCallback, OutOfMemory, vars, EditFile, EditFolder, program
  <2> QED
    BY <1>4, <2>1
<1> QED
  BY <1>2, <1>3, <1>5, <1>6, <1>7 DEF Next, Step

\* No answer is taken back, and the load of an import() is over once it is answered.
LEMMA WhatIsOver ==
  ASSUME LInv, [Next]_vars
  PROVE  /\ DOMAIN promise \subseteq DOMAIN promise'
         /\ \A j \in DOMAIN loads : j # 1 /\ j \notin DOMAIN loads' => loads[j].root \in DOMAIN promise'
<1>1. TypeOK /\ Stack
  BY DEF LInv
<1>2. CASE UNCHANGED promise /\ DOMAIN loads \subseteq DOMAIN loads'
  BY <1>2
<1>3. CASE FinishEvaluation
  <2>1. loads # << >> /\ loads' = SubSeq(loads, 1, Len(loads) - 1) /\ loads \in Seq(Graph)
    BY <1>1, <1>3 DEF FinishEvaluation, Evaluating, Return, TypeOK, Graph
  <2>2. PICK n \in Nat \ {0} : n = Len(loads) /\ DOMAIN loads = 1..n /\ Top = loads[n]
    BY <1>1, <2>1, LastLoad
  <2>3. DOMAIN loads' = 1..(n - 1)
    <3>1. loads' \in Seq(Graph) /\ Len(loads') = n - 1
      BY <2>1, <2>2, Shortened
    <3> QED
      BY <3>1, LenProperties
  <2>4. IF n = 1 THEN UNCHANGED promise ELSE DOMAIN promise' = DOMAIN promise \cup {Top.root}
    BY <1>3, <2>2 DEF FinishEvaluation, Return
  <2>5. \A j \in 1..n : j \notin 1..(n - 1) => j = n
    BY <2>2
  <2> QED
    BY <2>2, <2>3, <2>4, <2>5
<1>4. CASE \/ LinkImports \/ FinishLinking \/ EvaluateImports \/ AwaitImports \/ Suspend
           \/ FinishBody \/ Throw \/ RunMicrotask
  <2>1. UNCHANGED loads \/ (loads # << >> /\ \E l : SetTop(l))
    BY <1>4 DEF LinkImports, FinishLinking, EvaluateImports, AwaitImports, Suspend, FinishBody,
       Throw, RunMicrotask, SetTodo, Working, Evaluating, InBody
  <2>2. DOMAIN loads' = DOMAIN loads
    BY <2>1 DEF SetTop
  <2>3. UNCHANGED promise
    BY <1>4 DEF LinkImports, FinishLinking, EvaluateImports, AwaitImports, Suspend, FinishBody,
       Throw, RunMicrotask
  <2> QED
    BY <1>2, <2>2, <2>3
<1>5. CASE Start
  <2>1. DOMAIN loads = {}
    BY <1>5 DEF Start
  <2> QED
    BY <1>2, <1>5, <2>1 DEF Start
<1>6. CASE ResolveDynamicModuleCallback
  <2>1. loads \in Seq(Graph) /\ \E g : g \in Graph /\ loads' = Append(loads, g)
    <3>1. PICK m \in begun :
            /\ InBody(m)
            /\ \E p : Load(Asked(m, at[m] + 1), p)
      BY <1>6 DEF ResolveDynamicModuleCallback, Asked, Next1
    <3>2. m \in DOMAIN inst /\ m \in Id /\ at[m] \in Nat
      BY Referred
    <3>3. Len(Imports(m)) \in Nat
      BY <1>1, <3>2, Sources
    <3>4. PICK k \in Nat \ {0} : k = Len(Imports(m)) + (at[m] + 1)
      BY <3>2, <3>3
    <3>5. PICK x \in Id : x = Asked(m, at[m] + 1)
      BY <3>2, <3>4, KidNames DEF Asked
    <3>6. <<x>> \in Seq(Id)
      BY OneElement
    <3>7. [root |-> x, phase |-> "link", todo |-> <<x>>] \in Graph
      BY <3>6 DEF Graph
    <3> QED
      BY <1>1, <3>1, <3>5, <3>7 DEF Load, TypeOK, Graph
  <2>2. PICK n \in Nat : n = Len(loads) /\ DOMAIN loads = 1..n
    BY <2>1, LenProperties
  <2>3. DOMAIN loads' = 1..(n + 1)
    BY <2>1, <2>2, AppendProperties, LenProperties
  <2>4. 1..n \subseteq 1..(n + 1)
    BY <2>2
  <2> QED
    BY <1>2, <1>6, <2>2, <2>3, <2>4 DEF ResolveDynamicModuleCallback
<1>7. CASE \/ ResolveModuleCallback \/ OutOfMemory \/ UNCHANGED vars
           \/ \E p \in Paths, c \in Contents : EditFile(p, c)
           \/ \E f \in Folders : EditFolder(f)
  <2>1. UNCHANGED <<loads, promise>>
    BY <1>7 DEF ResolveModuleCallback, OutOfMemory, vars, EditFile, EditFolder, program
  <2> QED
    BY <1>2, <2>1
<1> QED
  BY <1>3, <1>4, <1>5, <1>6, <1>7 DEF Next, Step

\* A module that begins has made no step.
LEMMA NewAtZero ==
  ASSUME LInv, [Next]_vars, NEW m \in begun', m \notin begun
  PROVE  at'[m] = 0
<1>1. CASE EvaluateImports
  BY <1>1 DEF EvaluateImports, begun
<1>2. CASE ResolveDynamicModuleCallback \/ Suspend
  BY <1>2 DEF ResolveDynamicModuleCallback, Suspend, begun
<1>3. CASE \/ Start \/ ResolveModuleCallback \/ LinkImports \/ FinishLinking \/ AwaitImports
           \/ FinishBody \/ Throw \/ OutOfMemory \/ RunMicrotask \/ FinishEvaluation
           \/ UNCHANGED vars
           \/ \E p \in Paths, c \in Contents : EditFile(p, c)
           \/ \E f \in Folders : EditFolder(f)
  <2>1. UNCHANGED at
    BY <1>3 DEF Start, ResolveModuleCallback, LinkImports, FinishLinking, AwaitImports,
       FinishBody, Throw, OutOfMemory, RunMicrotask, FinishEvaluation, vars, EditFile,
       EditFolder, program
  <2> QED
    BY <2>1 DEF begun
<1> QED
  BY <1>1, <1>2, <1>3 DEF Next, Step

\* Each load stays with the body that asked for it, which waits at that step.
LEMMA CallersStay ==
  ASSUME LInv, LInv', Kept, BInv, [Next]_vars, Moves, Callers
  PROVE  Callers'
<1>1. begun \subseteq begun'
  BY StepLasts
<1>2. \A m \in begun : \A k : Asked(m, k)' = Asked(m, k)
  BY Referred, KeptCode DEF Asked
<1>3. ASSUME NEW j \in DOMAIN loads', j \in DOMAIN loads, j # 1
      PROVE  \E m \in begun' : AskedBy(j, m)'
  <2>1. PICK m \in begun : AskedBy(j, m)
    BY <1>3 DEF Callers
  <2>2. at'[m] = at[m]
    BY <1>3, <2>1, CallersWait, WhoActs DEF Acts
  <2>3. loads'[j].root = loads[j].root
    BY <1>3 DEF Moves
  <2>4. PICK n \in Nat : DOMAIN loads' = 1..n
    BY LenProperties DEF LInv, TypeOK
  <2>5. j - 1 \in DOMAIN loads' /\ j - 1 < j
    BY <1>3, <2>4
  <2>6. loads'[j - 1] = loads[j - 1]
    BY <1>3, <2>5 DEF Moves
  <2> QED
    BY <1>1, <1>2, <2>1, <2>2, <2>3, <2>5, <2>6 DEF AskedBy
<1>4. ASSUME NEW j \in DOMAIN loads', j \notin DOMAIN loads, j # 1
      PROVE  \E m \in begun' : AskedBy(j, m)'
  <2>1. /\ j - 1 \in DOMAIN loads /\ loads'[j - 1] = Top /\ loads # << >>
        /\ \E m \in begun : /\ InBody(m) /\ at'[m] = at[m] + 1
                            /\ loads'[j].root = Asked(m, at'[m])
    BY <1>4, WhatBegins DEF Began
  <2>2. PICK m \in begun : /\ InBody(m) /\ loads'[j].root = Asked(m, at'[m]) /\ at'[m] # 0
    <3>1. PICK m \in begun : InBody(m) /\ at'[m] = at[m] + 1 /\ loads'[j].root = Asked(m, at'[m])
      BY <2>1
    <3>2. at[m] \in Nat
      BY Referred
    <3> QED
      BY <3>1, <3>2
  <2>3. Top.todo # << >> /\ m = Head(Top.todo)
    BY <2>2 DEF InBody
  <2>4. PICK n \in Nat : DOMAIN loads' = 1..n
    BY LenProperties DEF LInv, TypeOK
  <2>5. j - 1 \in DOMAIN loads'
    BY <1>4, <2>4
  <2> QED
    BY <1>1, <1>2, <2>1, <2>2, <2>3, <2>5 DEF AskedBy
<1>5. ASSUME 1 \in DOMAIN loads'
      PROVE  loads'[1].root = <<1>>
  <2>1. CASE 1 \in DOMAIN loads
    BY <1>5, <2>1 DEF Moves, Callers
  <2>2. CASE 1 \notin DOMAIN loads
    BY <1>5, <2>2, WhatBegins DEF Began
  <2> QED
    BY <2>1, <2>2
<1> QED
  BY <1>3, <1>4, <1>5 DEF Callers

\* No two steps ask for one instance, and none for the program.
LEMMA AskedDiffer ==
  ASSUME LInv, NEW m \in begun, NEW k \in Nat
  PROVE  /\ k # 0 => Asked(m, k) # <<1>>
         /\ \A n \in begun : \A h \in Nat :
              k # 0 /\ h # 0 /\ Asked(m, k) = Asked(n, h) => m = n /\ k = h
<1>1. \A n \in begun : n \in DOMAIN inst /\ n \in Id /\ n # << >>
  BY Referred DEF LInv, Named
<1>2. ASSUME NEW n \in begun, NEW h \in Nat, h # 0
      PROVE  Len(Imports(n)) \in Nat /\ Len(Imports(n)) + h \in Nat \ {0}
  <2>1. Len(Imports(n)) \in Nat
    BY <1>1, Sources DEF LInv
  <2> QED
    BY <1>2, <2>1
<1>3. ASSUME k # 0, Asked(m, k) = << 1 >>
      PROVE  FALSE
  <2>1. PICK i \in Nat \ {0} : i = Len(Imports(m)) + k
    BY <1>2, <1>3
  <2>2. Len(Append(m, i)) = Len(m) + 1 /\ Len(m) \in Nat \ {0}
    BY <1>1, KidNames, Shortened DEF Id
  <2>3. Len(<<1>>) = 1 /\ Append(m, i) = <<1>>
    BY <1>3, <2>1 DEF Asked
  <2> QED
    BY <2>2, <2>3
<1>4. ASSUME NEW n \in begun, NEW h \in Nat, k # 0, h # 0, Asked(m, k) = Asked(n, h)
      PROVE  m = n /\ k = h
  <2>1. PICK i \in Nat \ {0} : i = Len(Imports(m)) + k
    BY <1>2, <1>4
  <2>2. PICK j \in Nat \ {0} : j = Len(Imports(n)) + h
    BY <1>2, <1>4
  <2>3. Append(m, i) = Append(n, j)
    BY <1>4, <2>1, <2>2 DEF Asked
  <2>4. m = n /\ i = j
    BY <1>1, <2>3, KidsDiffer
  <2> QED
    BY <1>2, <1>4, <2>1, <2>2, <2>4
<1> QED
  BY <1>3, <1>4

\* The load of an import() that is being loaded was asked for by the body that is at it.
LEMMA AtItWaits ==
  ASSUME LInv, BInv, Callers, NEW m \in begun, NEW k \in Nat \ {0}, AtIt(m, k)
  PROVE  ~InBody(m) /\ \E j \in DOMAIN loads : j # 1 /\ loads[j].root = Asked(m, k)
<1>1. PICK j \in DOMAIN loads : loads[j].root = Asked(m, k)
  BY DEF AtIt
<1>2. j # 1
  BY <1>1, AskedDiffer DEF Callers
<1>3. PICK n \in begun : AskedBy(j, n)
  BY <1>2 DEF Callers
<1>4. at[n] \in Nat /\ Asked(n, at[n]) = Asked(m, k)
  BY <1>1, <1>3, Referred DEF AskedBy
<1>5. n = m
  <2>1. PICK h \in Nat \ {0} : h = at[n]
    BY <1>3, <1>4 DEF AskedBy
  <2> QED
    BY <1>4, <2>1, AskedDiffer
<1> QED
  BY <1>1, <1>2, <1>3, <1>5, CallersWait

\* A step answers what was being loaded, or leaves the body that asked for it waiting.
LEMMA AnsweredStays ==
  ASSUME LInv, LInv', Kept, BInv, [Next]_vars, Moves, Callers, ImportsAreAnswered
  PROVE  ImportsAreAnswered'
<1>1. SUFFICES ASSUME NEW m \in begun', NEW k \in 1..at'[m], Body(m)'[k] # Await
               PROVE  Answered(m, k)' \/ AtIt(m, k)'
  BY DEF ImportsAreAnswered, Answered, AtIt, Asked
<1>2. CASE m \notin begun
  <2>1. at'[m] = 0
    BY <1>2, NewAtZero
  <2> QED
    BY <2>1
<1>3. CASE m \in begun
  <2>1. m \in DOMAIN inst /\ at[m] \in Nat
    BY <1>3, Referred
  <2>2. Asked(m, k)' = Asked(m, k) /\ Body(m)' = Body(m)
    BY <2>1, KeptCode DEF Asked
  <2>3. CASE k \in 1..at[m]
    <3>1. Answered(m, k) \/ AtIt(m, k)
      BY <1>1, <1>3, <2>2, <2>3 DEF ImportsAreAnswered, Answered, AtIt, Asked
    <3>2. CASE Answered(m, k)
      BY <2>2, <3>2, WhatIsOver DEF Answered
    <3>3. CASE AtIt(m, k)
      <4>1. k \in Nat \ {0}
        BY <2>1, <2>3
      <4>2. ~InBody(m)
        BY <1>3, <3>3, <4>1, AtItWaits
      <4>3. at'[m] = at[m] /\ m \notin ran' \cup threw'
        BY <1>3, <3>3, <4>2, WhoActs DEF Acts, AtIt
      <4>4. PICK j \in DOMAIN loads : j # 1 /\ loads[j].root = Asked(m, k)
        BY <1>3, <3>3, <4>1, AtItWaits
      <4>5. CASE j \in DOMAIN loads'
        <5>1. loads'[j].root = loads[j].root
          BY <4>5 DEF Moves
        <5> QED
          BY <2>2, <3>3, <4>3, <4>4, <4>5, <5>1 DEF AtIt
      <4>6. CASE j \notin DOMAIN loads'
        BY <2>2, <4>4, <4>6, WhatIsOver DEF Answered
      <4> QED
        BY <4>5, <4>6
    <3> QED
      BY <3>1, <3>2, <3>3
  <2>4. CASE k \notin 1..at[m]
    <3>1. at'[m] # at[m]
      BY <1>1, <2>4
    <3>2. Acts(m)
      BY <1>3, <3>1, WhoActs
    <3>3. at'[m] = at[m] + 1 /\ k = at[m] + 1
      BY <1>1, <2>1, <2>4, <3>1, <3>2 DEF Acts
    <3>4. UNCHANGED <<ran, threw>> /\ \E p : Load(Asked(m, k), p)
      BY <1>1, <2>2, <3>1, <3>2, <3>3 DEF Acts
    <3>5. m \notin ran \cup threw
      BY <1>3, <3>2, AtHead DEF Acts, Past
    <3>6. Len(Imports(m)) \in Nat
      BY <2>1, Sources DEF LInv
    <3>7. Len(Imports(m)) + k \in Nat \ {0} /\ m \in Id
      BY <2>1, <3>3, <3>6, Referred
    <3>8. Asked(m, k) \in Id
      BY <3>7, KidNames DEF Asked
    <3>9. \E j \in DOMAIN loads' : loads'[j].root = Asked(m, k)
      BY <3>4, <3>8, LoadAppended
    <3> QED
      BY <2>2, <3>3, <3>4, <3>5, <3>9 DEF AtIt
  <2> QED
    BY <2>3, <2>4
<1> QED
  BY <1>2, <1>3

\* Every import() is answered before the body that made it goes on, ends or throws,
\* whatever became of what it asked for (ImportsAreAnswered; winx_modules.cpp:64-78).
THEOREM ImportsGetAnswers == Spec => []ImportsAreAnswered
<1>1. Init => LInv /\ BInv /\ Callers /\ ImportsAreAnswered
  <2>1. ASSUME Init
        PROVE  Callers /\ ImportsAreAnswered
    <3>1. DOMAIN loads = {} /\ begun = {}
      BY <2>1 DEF Init, begun
    <3> QED
      BY <3>1 DEF Callers, ImportsAreAnswered
  <2> QED
    BY <2>1, InitHolds, InitOnce
<1>2. LInv /\ BInv /\ Callers /\ ImportsAreAnswered /\ [Next]_vars
        => LInv' /\ BInv' /\ Callers' /\ ImportsAreAnswered'
  <2> SUFFICES ASSUME LInv, BInv, Callers, ImportsAreAnswered, [Next]_vars
               PROVE  LInv' /\ BInv' /\ Callers' /\ ImportsAreAnswered'
    OBVIOUS
  <2>1. LInv' /\ Kept /\ BInv' /\ Moves
    BY StepKeeps, StepOnce, StepMoves DEF Kept
  <2>2. Callers'
    BY <2>1, CallersStay
  <2>3. ImportsAreAnswered'
    BY <2>1, AnsweredStays
  <2> QED
    BY <2>1, <2>2, <2>3
<1> QED
  BY <1>1, <1>2, PTL DEF Spec
=============================================================================
