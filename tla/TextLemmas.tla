----------------------------- MODULE TextLemmas -----------------------------
(***************************************************************************)
(* What the proofs need of texts, sequences of letters that are put one    *)
(* behind the other, cut in two, and written out in part.                  *)
(*                                                                         *)
(* Then is \o under a name that proofs leave unexpanded: they use what the *)
(* lemmas say of it and nothing else of sequences.                         *)
(*                                                                         *)
(* At the end, what proofs by induction need.                              *)
(***************************************************************************)
EXTENDS Naturals, Sequences, TLAPS, SequenceTheorems, NaturalsInduction,
        WellFoundedInduction

CONSTANT Letter

Texts == Seq(Letter)
Then(a, b) == a \o b

\* Two texts make one text.
LEMMA Joined == \A a, b \in Texts : Then(a, b) \in Texts
  BY ConcatProperties DEF Texts, Then

\* Their lengths add up.
LEMMA Lengths ==
  ASSUME NEW a \in Texts, NEW b \in Texts
  PROVE  Len(a) \in Nat /\ Len(b) \in Nat /\ Len(Then(a, b)) = Len(a) + Len(b)
  BY ConcatProperties, LenProperties DEF Texts, Then

\* Putting texts one behind the other is associative.
LEMMA Together == \A a, b, c \in Texts : Then(Then(a, b), c) = Then(a, Then(b, c))
<1> SUFFICES ASSUME NEW a \in Seq(Letter), NEW b \in Seq(Letter), NEW c \in Seq(Letter)
             PROVE  (a \o b) \o c = a \o (b \o c)
  BY DEF Texts, Then
<1> QED
  BY ConcatAssociative, SMTT(60)

\* The empty text adds nothing.
LEMMA Nothing == << >> \in Texts /\ \A a \in Texts : Then(a, << >>) = a /\ Then(<< >>, a) = a
  BY ConcatEmptySeq DEF Texts, Then

\* To append a letter is to put a text of one letter behind.
LEMMA Appended ==
  \A a \in Texts, n \in Letter : <<n>> \in Texts /\ Append(a, n) = Then(a, <<n>>)
  BY AppendIsConcat DEF Texts, Then

\* All letters of a text may go.
LEMMA Counted ==
  ASSUME NEW q \in Texts
  PROVE  Len(q) \in 0..Len(q)
<1>1. PICK n \in Nat : n = Len(q)
  BY DEF Texts
<1> QED
  BY <1>1

\* The first k letters, and those from there on, are all letters.
LEMMA Split ==
  ASSUME NEW q \in Texts, NEW k \in 0..Len(q)
  PROVE  /\ SubSeq(q, 1, k) \in Texts /\ SubSeq(q, k + 1, Len(q)) \in Texts
         /\ Then(SubSeq(q, 1, k), SubSeq(q, k + 1, Len(q))) = q
<1>1. q \in Seq(Letter) /\ k \in Nat /\ k <= Len(q) /\ Len(q) \in Nat
  BY DEF Texts
<1>2. SubSeq(q, 1, k) \in Seq(Letter) /\ SubSeq(q, k + 1, Len(q)) \in Seq(Letter)
  <2>1. \A i \in 1..k : q[i] \in Letter
    BY <1>1
  <2>2. \A i \in (k + 1)..Len(q) : q[i] \in Letter
    BY <1>1
  <2> QED
    BY <1>1, <2>1, <2>2, SubSeqProperties
<1>3. SubSeq(q, 1, k) \o SubSeq(q, k + 1, Len(q)) = q
  <2>1. 1 \in 1..(Len(q) + 1) /\ k \in 0..Len(q) /\ Len(q) \in k..Len(q) /\ 1 - 1 = 0
    BY <1>1
  <2>2. SubSeq(q, 1, k) \o SubSeq(q, k + 1, Len(q)) = SubSeq(q, 1, Len(q))
    BY <1>1, <2>1, ConcatAdjacentSubSeq
  <2> QED
    BY <1>1, <2>2, SubSeqFull
<1> QED
  BY <1>2, <1>3 DEF Texts, Then

\* If all letters go, nothing is left.
LEMMA AllOut ==
  ASSUME NEW q \in Texts
  PROVE  SubSeq(q, 1, Len(q)) = q /\ SubSeq(q, Len(q) + 1, Len(q)) = << >>
  BY SubSeqFull, SubSeqEmpty DEF Texts

\* A text that another one is put behind is a beginning of the two.
LEMMA Beginning ==
  ASSUME NEW s \in Texts, NEW r \in Texts
  PROVE  SubSeq(Then(s, r), 1, Len(s)) = s
<1>1. CASE s = << >>
  BY <1>1, SubSeqEmpty
<1>2. CASE s # << >>
  <2>1. 1 \in 1..Len(s) /\ Len(s) \in 1..Len(s)
    BY <1>2 DEF Texts
  <2>2. SubSeq(s \o r, 1, Len(s)) = SubSeq(s, 1, Len(s))
    BY <2>1, SubSeqOfConcat1 DEF Texts
  <2> QED
    BY <2>2, AllOut DEF Then
<1> QED
  BY <1>1, <1>2

\* What is behind the first n letters begins with the next k.
LEMMA Between ==
  ASSUME NEW q \in Texts, NEW n \in Nat, NEW k \in Nat, n + k <= Len(q)
  PROVE  /\ SubSeq(q, n + 1, n + k) \in Texts /\ Len(SubSeq(q, n + 1, n + k)) = k
         /\ SubSeq(q, n + k + 1, Len(q)) \in Texts
         /\ Then(SubSeq(q, n + 1, n + k), SubSeq(q, n + k + 1, Len(q))) = SubSeq(q, n + 1, Len(q))
<1>1. PICK l \in Nat : l = Len(q) /\ q \in Seq(Letter) /\ n + k <= l
  BY LenProperties DEF Texts
<1>2. SubSeq(q, n + 1, n + k) \in Seq(Letter) /\ Len(SubSeq(q, n + 1, n + k)) = k
  <2>1. \A i \in (n + 1)..(n + k) : q[i] \in Letter
    BY <1>1
  <2> QED
    BY <2>1, SubSeqProperties
<1>3. SubSeq(q, n + k + 1, l) \in Seq(Letter)
  <2>1. \A i \in (n + k + 1)..l : q[i] \in Letter
    BY <1>1
  <2> QED
    BY <2>1, SubSeqProperties
<1>4. SubSeq(q, n + 1, n + k) \o SubSeq(q, n + k + 1, Len(q)) = SubSeq(q, n + 1, Len(q))
  <2>1. PICK m \in Nat, j \in Nat : m = n + 1 /\ j = n + k
    OBVIOUS
  <2>2. m \in 1..(Len(q) + 1) /\ j \in (m - 1)..Len(q) /\ Len(q) \in j..Len(q)
    BY <1>1, <2>1
  <2>3. SubSeq(q, m, j) \o SubSeq(q, j + 1, Len(q)) = SubSeq(q, m, Len(q))
    BY <1>1, <2>2, ConcatAdjacentSubSeq
  <2> QED
    BY <2>1, <2>3
<1> QED
  BY <1>1, <1>2, <1>3, <1>4 DEF Texts, Then

\* e is what becomes of d when, of the first k letters of p, the t for which there is
\* room go behind it.
Fitted(d, p, room, k, t, e) ==
  /\ t \in 0..k /\ e \in Texts /\ Len(e) = Len(d) + t /\ Len(e) <= room
  /\ t = k => Then(d, p) = Then(e, SubSeq(p, k + 1, Len(p)))
  /\ t # k => Len(e) = room
  /\ \E rest \in Texts : Then(d, p) = Then(e, rest)

\* Of p, as much goes behind d as there is room for: if not all that should go does,
\* the room is used up.
LEMMA Room ==
  ASSUME NEW d \in Texts, NEW p \in Texts, NEW room \in Nat, Len(d) <= room,
         NEW k \in 0..Len(p),
         NEW t, t = IF Len(d) + k <= room THEN k ELSE room - Len(d),
         NEW e, e = Then(d, SubSeq(p, 1, t))
  PROVE  Fitted(d, p, room, k, t, e)
<1>1. /\ Len(d) \in Nat /\ Len(p) \in Nat
  BY LenProperties DEF Texts
<1>2. t \in 0..k /\ t \in 0..Len(p) /\ Len(d) + t <= room /\ (t # k => Len(d) + t = room)
  BY <1>1
<1>3. /\ SubSeq(p, 1, t) \in Texts /\ SubSeq(p, t + 1, Len(p)) \in Texts
      /\ Then(SubSeq(p, 1, t), SubSeq(p, t + 1, Len(p))) = p
  BY <1>2, Split
<1>4. Len(SubSeq(p, 1, t)) = t
  <2>1. t \in Nat /\ 0 + t <= Len(p) /\ 0 + 1 = 1 /\ 0 + t = t
    BY <1>1, <1>2
  <2>2. Len(SubSeq(p, 0 + 1, 0 + t)) = t
    BY <2>1, Between
  <2> QED
    BY <2>1, <2>2
<1>5. e \in Texts /\ Len(e) = Len(d) + t
  <2>1. PICK u \in Texts : u = SubSeq(p, 1, t)
    BY <1>3
  <2>2. e = Then(d, u) /\ Len(u) = t
    BY <1>4, <2>1
  <2> QED
    BY <2>2, Joined, Lengths, ZenonT(40)
<1>6. Then(d, p) = Then(e, SubSeq(p, t + 1, Len(p)))
  <2>1. Then(d, Then(SubSeq(p, 1, t), SubSeq(p, t + 1, Len(p)))) =
          Then(Then(d, SubSeq(p, 1, t)), SubSeq(p, t + 1, Len(p)))
    BY <1>3, Together
  <2> QED
    BY <1>3, <2>1
<1> QED
  BY <1>2, <1>3, <1>5, <1>6 DEF Fitted

-----------------------------------------------------------------------------
(* Induction, as a fact about sets of numbers, and what it gives: that     *)
(* functions over 0..n can be defined by recursion.                        *)

\* Numbers have a least one among them.
LEMMA Least ==
  ASSUME NEW S, S \subseteq Nat, S # {}
  PROVE  \E n \in S : \A k \in S : n <= k
<1> DEFINE R == {z \in Nat \X Nat : z[1] < z[2]}
<1>1. IsWellFoundedOn(R, Nat)
  BY NatLessThanWellFounded DEF OpToRel
<1>2. \A k, n \in Nat : k < n => <<k, n>> \in R
  OBVIOUS
<1> HIDE DEF R
<1>3. PICK n \in S : \A k \in S : <<k, n>> \notin R
  BY <1>1, WFMin
<1>4. \A k \in S : ~(k < n)
  BY <1>2, <1>3
<1>5. \A k \in S : n <= k
  BY <1>4
<1> QED
  BY <1>5

\* What holds of zero, and of the next number whenever of one, holds of them all.
LEMMA Climb ==
  ASSUME NEW S, 0 \in S, \A n \in Nat : n \in S => n + 1 \in S
  PROVE  Nat \subseteq S
<1> SUFFICES ASSUME Nat \ S # {}
             PROVE  FALSE
  OBVIOUS
<1>1. PICK n \in Nat \ S : \A k \in Nat \ S : n <= k
  BY Least
<1>2. n # 0 /\ n - 1 \in Nat
  BY <1>1
<1>3. n - 1 \in S
  BY <1>1, <1>2
<1> QED
  BY <1>1, <1>2, <1>3

\* f begins with x, and goes on as the functions G say.
Unrolls(f, x, G, n) == f[0] = x /\ \A i \in 1..n : f[i] = G[i][f[i - 1]]

\* A value for 0, and one for each number from that for the one before.
LEMMA Recursion ==
  ASSUME NEW S, NEW x \in S, NEW n \in Nat, NEW G \in [1..n -> [S -> S]]
  PROVE  \E f \in [0..n -> S] : Unrolls(f, x, G, n)
<1> DEFINE Good(f, k) == f[0] = x /\ \A i \in 1..k : f[i] = G[i][f[i - 1]]
           K == {k \in Nat : k <= n => \E f \in [0..k -> S] : Good(f, k)}
<1>1. 0 \in K
  <2>1. PICK f \in [0..0 -> S] : f = [i \in 0..0 |-> x]
    OBVIOUS
  <2>2. Good(f, 0)
    BY <2>1
  <2> QED
    BY <2>2
<1>2. ASSUME NEW k \in Nat, k \in K
      PROVE  k + 1 \in K
  <2> SUFFICES ASSUME k + 1 <= n
               PROVE  \E f \in [0..(k + 1) -> S] : Good(f, k + 1)
    OBVIOUS
  <2>1. PICK f \in [0..k -> S] : Good(f, k)
    BY <1>2
  <2>2. k \in 0..k /\ f[k] \in S /\ k + 1 \in 1..n
    OBVIOUS
  <2>3. PICK y \in S : y = G[k + 1][f[k]]
    BY <2>2
  <2>4. PICK g \in [0..(k + 1) -> S] :
          g = [i \in 0..(k + 1) |-> IF i = k + 1 THEN y ELSE f[i]]
    <3>1. \A i \in 0..(k + 1) : i = k + 1 \/ i \in 0..k
      OBVIOUS
    <3> QED
      BY <3>1
  <2>5. g[0] = x
    BY <2>1, <2>4
  <2>6. ASSUME NEW i \in 1..(k + 1)
        PROVE  g[i] = G[i][g[i - 1]]
    <3>1. CASE i = k + 1
      <4>1. i - 1 = k /\ k \in 0..(k + 1) /\ k # k + 1
        BY <3>1
      <4> QED
        BY <2>3, <2>4, <3>1, <4>1
    <3>2. CASE i # k + 1
      <4>1. i \in 1..k /\ i - 1 \in 0..(k + 1) /\ i - 1 # k + 1
        BY <3>2
      <4> QED
        BY <2>1, <2>4, <3>2, <4>1
    <3> QED
      BY <3>1, <3>2
  <2> QED
    BY <2>5, <2>6
<1>3. n \in K
  <2> HIDE DEF K
  <2> QED
    BY <1>1, <1>2, Climb
<1> QED
  BY <1>3 DEF Unrolls

\* A set of texts that has the empty one, and with each text those of one letter more,
\* has them all.
LEMMA LetterByLetter ==
  ASSUME NEW S, << >> \in S,
         \A a \in Texts, x \in Letter : a \in S => Then(a, <<x>>) \in S
  PROVE  Texts \subseteq S
<1> DEFINE K == {n \in Nat : \A a \in Texts : Len(a) = n => a \in S}
<1>1. 0 \in K
  <2>1. \A a \in Texts : Len(a) = 0 => a = << >>
    BY DEF Texts
  <2> QED
    BY <2>1
<1>2. ASSUME NEW n \in Nat, n \in K
      PROVE  n + 1 \in K
  <2> SUFFICES ASSUME NEW a \in Texts, Len(a) = n + 1
               PROVE  a \in S
    OBVIOUS
  <2>1. n \in 0..Len(a)
    OBVIOUS
  <2>2. PICK b \in Texts, c \in Texts : /\ b = SubSeq(a, 1, n) /\ c = SubSeq(a, n + 1, Len(a))
                                        /\ Then(b, c) = a
    BY <2>1, Split
  <2>3. Len(b) = n
    <3>1. n \in Nat /\ 0 + n <= Len(a) /\ 0 + 1 = 1 /\ 0 + n = n
      OBVIOUS
    <3>2. Len(SubSeq(a, 0 + 1, 0 + n)) = n
      BY <3>1, Between
    <3> QED
      BY <2>2, <3>1, <3>2
  <2>4. Len(c) = 1
    <3>1. Len(Then(b, c)) = Len(b) + Len(c) /\ Len(c) \in Nat
      BY Lengths
    <3> QED
      BY <2>2, <2>3, <3>1
  <2>5. PICK x \in Letter : c = <<x>>
    <3>1. c \in Seq(Letter) /\ c[1] \in Letter
      <4>1. c \in Seq(Letter)
        BY DEF Texts
      <4>2. 1 \in 1..Len(c)
        BY <2>4
      <4> QED
        BY <4>1, <4>2
    <3>2. PICK d : d = <<c[1]>>
      OBVIOUS
    <3>3. d \in Seq(Letter) /\ Len(d) = 1 /\ d[1] = c[1]
      BY <3>1, <3>2
    <3>4. c = d
      BY <2>4, <3>1, <3>3
    <3> QED
      BY <3>1, <3>2, <3>4
  <2>6. b \in S
    BY <1>2, <2>3
  <2> QED
    BY <2>2, <2>5, <2>6
<1> HIDE DEF K
<1>3. Nat \subseteq K
  BY <1>1, <1>2, Climb
<1> USE DEF K
<1>4. \A a \in Texts : Len(a) \in Nat
  BY DEF Texts
<1> QED
  BY <1>3, <1>4
=============================================================================
