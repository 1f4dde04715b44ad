--------------------------- MODULE BundlerProofs ---------------------------
(***************************************************************************)
(* Proofs about Bundler, for any tokens, files, templates and disks.       *)
(*                                                                         *)
(* First Spread: that it is what its definition says, letter by letter,    *)
(* and what follows by induction over texts; then how the other operators  *)
(* are made of it.  Then Typed, the invariant that all else rests on; then *)
(* imports that are left (Late), files without imports in them (Composed), *)
(* and the twin, which takes the imports one by one (OneByOne).            *)
(***************************************************************************)
EXTENDS Bundler, SequenceTheorems, TLAPS

INSTANCE TextLemmas WITH Letter <- Tokens

\* What tokens may be replaced by.
Puts == [Tokens -> Texts]

\* g tells what becomes of the first letters of s, up to n.
IsSpread(g, s, put, n) ==
  g = [i \in 0..n |-> IF i = 0 THEN << >> ELSE Then(g[i - 1], put[s[i]])]

\* The same, without saying on what numbers g is defined.
Spreads(g, s, put, n) ==
  g[0] = << >> /\ \A i \in 1..n : g[i] = Then(g[i - 1], put[s[i]])

\* There is a function that tells what becomes of the first letters.
LEMMA SpreadsOn ==
  ASSUME NEW put \in Puts, NEW s \in Texts
  PROVE  \E f \in [0..Len(s) -> Texts] : Spreads(f, s, put, Len(s))
<1>1. PICK n \in Nat : n = Len(s) /\ \A i \in 1..n : s[i] \in Tokens
  BY DEF Texts
<1>2. \A i \in 1..n : put[s[i]] \in Texts
  BY <1>1 DEF Puts
<1>3. PICK G \in [1..n -> [Texts -> Texts]] :
        G = [i \in 1..n |-> [a \in Texts |-> Then(a, put[s[i]])]]
  <2>1. \A i \in 1..n : \A a \in Texts : Then(a, put[s[i]]) \in Texts
    BY <1>2, Joined
  <2> QED
    BY <2>1
<1>4. PICK x \in Texts : x = << >>
  BY Nothing
<1>5. PICK f \in [0..n -> Texts] : Unrolls(f, x, G, n)
  BY Recursion
<1>6. ASSUME NEW i \in 1..n
      PROVE  f[i] = Then(f[i - 1], put[s[i]])
  <2>1. i - 1 \in 0..n /\ f[i - 1] \in Texts
    BY <1>4
  <2> QED
    BY <1>3, <1>5, <2>1 DEF Unrolls
<1> QED
  BY <1>1, <1>4, <1>5, <1>6 DEF Spreads, Unrolls

\* There is only one, so it is the one that the definition chooses.
LEMMA SpreadIs ==
  ASSUME NEW put, NEW s \in Texts, NEW n \in Nat, n = Len(s),
         NEW f \in [0..n -> Texts], Spreads(f, s, put, n)
  PROVE  Spread(s, put) = f[n]
<1>1. IsSpread(f, s, put, n)
  <2>1. ASSUME NEW i \in 0..n
        PROVE  f[i] = IF i = 0 THEN << >> ELSE Then(f[i - 1], put[s[i]])
    <3>1. CASE i = 0
      BY <3>1 DEF Spreads
    <3>2. CASE i \in 1..n
      <4>1. i # 0 /\ f[i] = Then(f[i - 1], put[s[i]])
        BY <3>2 DEF Spreads
      <4> QED
        BY <4>1, Zenon
    <3> QED
      BY <3>1, <3>2
  <2> QED
    BY <2>1 DEF IsSpread
<1>2. ASSUME NEW g, IsSpread(g, s, put, n)
      PROVE  g = f
  <2>1. g[0] = << >> /\ \A i \in 1..n : g[i] = Then(g[i - 1], put[s[i]])
    BY <1>2 DEF IsSpread
  <2> DEFINE K == {k \in Nat : k <= n => g[k] = f[k]}
  <2>2. 0 \in K
    BY <2>1 DEF Spreads
  <2>3. ASSUME NEW k \in Nat, k \in K
        PROVE  k + 1 \in K
    <3> SUFFICES ASSUME k + 1 <= n
                 PROVE  g[k + 1] = f[k + 1]
      OBVIOUS
    <3>1. k + 1 \in 1..n /\ (k + 1) - 1 = k /\ g[k] = f[k]
      BY <2>3
    <3>2. g[k + 1] = Then(g[k], put[s[k + 1]]) /\ f[k + 1] = Then(f[k], put[s[k + 1]])
      BY <2>1, <3>1 DEF Spreads
    <3> QED
      BY <3>1, <3>2
  <2> HIDE DEF K
  <2>4. Nat \subseteq K
    BY <2>2, <2>3, Climb
  <2> USE DEF K
  <2>5. \A k \in 0..n : g[k] = f[k]
    BY <2>4
  <2>6. g = [i \in 0..n |-> g[i]]
    BY <1>2 DEF IsSpread
  <2> QED
    BY <2>5, <2>6
<1>3. f = CHOOSE g : IsSpread(g, s, put, n)
  BY <1>1, <1>2
<1>4. Spread(s, put) = (CHOOSE g : IsSpread(g, s, put, Len(s)))[Len(s)]
  BY Zenon DEF Spread, IsSpread, Then
<1>5. Spread(s, put) = (CHOOSE g : IsSpread(g, s, put, n))[n]
  BY <1>4, Zenon
<1> QED
  BY <1>3, <1>5, Zenon

\* Nothing becomes nothing.
LEMMA SpreadNothing ==
  ASSUME NEW put \in Puts
  PROVE  Spread(<< >>, put) = << >>
<1>1. PICK s \in Texts : s = << >>
  BY Nothing
<1>2. Len(s) = 0
  BY <1>1
<1>3. PICK n \in Nat : n = Len(s) /\ n = 0
  BY <1>2
<1>4. PICK f \in [0..n -> Texts] : Spreads(f, s, put, n)
  BY <1>3, SpreadsOn
<1>5. Spread(s, put) = f[n]
  BY <1>3, <1>4, SpreadIs
<1> QED
  BY <1>1, <1>3, <1>4, <1>5 DEF Spreads

\* A letter more, and what it is replaced by comes behind.
LEMMA SpreadMore ==
  ASSUME NEW put \in Puts, NEW a \in Texts, NEW t \in Tokens
  PROVE  Spread(Then(a, <<t>>), put) = Then(Spread(a, put), put[t])
<1>1. PICK s \in Texts : s = Then(a, <<t>>)
  BY Joined, Appended
<1>2. PICK n \in Nat : n = Len(a) /\ Len(s) = n + 1 /\ s[n + 1] = t /\ \A i \in 1..n : s[i] = a[i]
  BY <1>1 DEF Texts, Then
<1>3. PICK f \in [0..(n + 1) -> Texts] : Spreads(f, s, put, n + 1)
  BY <1>2, SpreadsOn
<1>4. Spread(s, put) = f[n + 1]
  BY <1>2, <1>3, SpreadIs
<1>5. f[n + 1] = Then(f[n], put[t])
  <2>1. n + 1 \in 1..(n + 1) /\ (n + 1) - 1 = n
    OBVIOUS
  <2> QED
    BY <1>2, <1>3, <2>1 DEF Spreads
<1>6. PICK g \in [0..n -> Texts] : g = [i \in 0..n |-> f[i]]
  <2>1. \A i \in 0..n : i \in 0..(n + 1) /\ f[i] \in Texts
    OBVIOUS
  <2> QED
    BY <2>1
<1>7. Spreads(g, a, put, n)
  <2>1. g[0] = << >>
    BY <1>3, <1>6 DEF Spreads
  <2>2. ASSUME NEW i \in 1..n
        PROVE  g[i] = Then(g[i - 1], put[a[i]])
    <3>1. i \in 0..n /\ i - 1 \in 0..n /\ i \in 1..(n + 1) /\ s[i] = a[i]
      BY <1>2
    <3>2. f[i] = Then(f[i - 1], put[s[i]])
      BY <1>3, <3>1 DEF Spreads
    <3> QED
      BY <1>6, <3>1, <3>2
  <2> QED
    BY <2>1, <2>2 DEF Spreads
<1>8. Spread(a, put) = g[n] /\ g[n] = f[n]
  BY <1>2, <1>6, <1>7, SpreadIs, SMTT(30)
<1> QED
  BY <1>1, <1>4, <1>5, <1>8

\* What is made of a text is a text.
LEMMA SpreadText ==
  ASSUME NEW put \in Puts
  PROVE  \A a \in Texts : Spread(a, put) \in Texts
<1> DEFINE S == {a \in Texts : Spread(a, put) \in Texts}
<1>1. << >> \in S
  BY SpreadNothing, Nothing
<1>2. ASSUME NEW a \in Texts, NEW x \in Tokens, a \in S
      PROVE  Then(a, <<x>>) \in S
  <2>1. put[x] \in Texts /\ Spread(a, put) \in Texts
    BY <1>2 DEF Puts
  <2>2. Then(a, <<x>>) \in Texts /\ Then(Spread(a, put), put[x]) \in Texts
    BY <2>1, Joined, Appended
  <2> QED
    BY <2>2, SpreadMore
<1> HIDE DEF S
<1>3. Texts \subseteq S
  BY <1>1, <1>2, LetterByLetter
<1> QED
  BY <1>3 DEF S

\* What is made of two texts is what is made of the one, and then of the other.
LEMMA SpreadThen ==
  ASSUME NEW put \in Puts, NEW a \in Texts
  PROVE  \A b \in Texts : Spread(Then(a, b), put) = Then(Spread(a, put), Spread(b, put))
<1> DEFINE S == {b \in Texts : Spread(Then(a, b), put) = Then(Spread(a, put), Spread(b, put))}
<1>1. << >> \in S
  <2>1. Then(a, << >>) = a /\ Then(Spread(a, put), << >>) = Spread(a, put)
    BY Nothing, SpreadText
  <2> QED
    BY <2>1, SpreadNothing, Nothing
<1>2. ASSUME NEW b \in Texts, NEW x \in Tokens, b \in S
      PROVE  Then(b, <<x>>) \in S
  <2>1. PICK o \in Texts : o = <<x>>
    BY Appended
  <2>2. put[x] \in Texts /\ Spread(a, put) \in Texts /\ Spread(b, put) \in Texts
    BY SpreadText DEF Puts
  <2>3. Then(a, Then(b, o)) = Then(Then(a, b), o) /\ Then(a, b) \in Texts /\ Then(b, o) \in Texts
    BY Together, Joined
  <2>4. Spread(Then(Then(a, b), o), put) = Then(Spread(Then(a, b), put), put[x])
    BY <2>1, <2>3, SpreadMore
  <2>5. Spread(Then(b, o), put) = Then(Spread(b, put), put[x])
    BY <2>1, SpreadMore
  <2>6. Spread(Then(a, b), put) = Then(Spread(a, put), Spread(b, put))
    BY <1>2
  <2>7. Then(Then(Spread(a, put), Spread(b, put)), put[x]) =
          Then(Spread(a, put), Then(Spread(b, put), put[x]))
    BY <2>2, Together
  <2> QED
    BY <2>1, <2>3, <2>4, <2>5, <2>6, <2>7
<1> HIDE DEF S
<1>3. Texts \subseteq S
  BY <1>1, <1>2, LetterByLetter
<1> QED
  BY <1>3 DEF S

\* Of one letter, what it is replaced by.
LEMMA SpreadOne ==
  ASSUME NEW put \in Puts, NEW t \in Tokens
  PROVE  Spread(<<t>>, put) = put[t]
<1>1. << >> \in Texts /\ <<t>> \in Texts /\ put[t] \in Texts
  BY Nothing, Appended DEF Puts
<1>2. Then(<< >>, <<t>>) = <<t>> /\ Then(<< >>, put[t]) = put[t]
  BY <1>1, Nothing
<1> QED
  BY <1>1, <1>2, SpreadMore, SpreadNothing

\* To replace letters, and then those of the result, is to replace letters once.
LEMMA SpreadTwice ==
  ASSUME NEW put \in Puts, NEW more \in Puts, NEW both \in Puts,
         \A t \in Tokens : both[t] = Spread(put[t], more)
  PROVE  \A a \in Texts : Spread(Spread(a, put), more) = Spread(a, both)
<1> DEFINE S == {a \in Texts : Spread(Spread(a, put), more) = Spread(a, both)}
<1>1. << >> \in S
  BY SpreadNothing, Nothing
<1>2. ASSUME NEW a \in Texts, NEW x \in Tokens, a \in S
      PROVE  Then(a, <<x>>) \in S
  <2>1. Then(a, <<x>>) \in Texts /\ Spread(a, put) \in Texts /\ put[x] \in Texts
    BY Joined, Appended, SpreadText DEF Puts
  <2>2. Spread(Then(a, <<x>>), put) = Then(Spread(a, put), put[x])
    BY SpreadMore
  <2>3. Spread(Then(Spread(a, put), put[x]), more) =
          Then(Spread(Spread(a, put), more), Spread(put[x], more))
    BY <2>1, SpreadThen
  <2>4. Spread(Then(a, <<x>>), both) = Then(Spread(a, both), both[x])
    BY SpreadMore
  <2> QED
    BY <1>2, <2>1, <2>2, <2>3, <2>4
<1> HIDE DEF S
<1>3. Texts \subseteq S
  BY <1>1, <1>2, LetterByLetter
<1> QED
  BY <1>3 DEF S

-----------------------------------------------------------------------------
\* The letters of a text.
LEMMA Letters ==
  /\ Range(<< >>) = {}
  /\ \A x : Range(<<x>>) = {x}
  /\ \A a \in Texts : Range(a) \subseteq Tokens
  /\ \A a, b \in Texts : Range(Then(a, b)) = Range(a) \cup Range(b)
<1>1. Range(<< >>) = {}
  BY DEF Range
<1>2. ASSUME NEW x
      PROVE  Range(<<x>>) = {x}
  BY DEF Range
<1>3. ASSUME NEW a \in Texts
      PROVE  Range(a) \subseteq Tokens
  BY DEF Range, Texts
<1>4. ASSUME NEW a \in Texts, NEW b \in Texts
      PROVE  Range(Then(a, b)) = Range(a) \cup Range(b)
  BY RangeConcatenation DEF Texts, Then
<1> QED
  BY <1>1, <1>2, <1>3, <1>4

\* Only the letters of a text matter.
LEMMA SpreadAlike ==
  ASSUME NEW put \in Puts, NEW other, NEW s \in Texts, \A t \in Range(s) : other[t] = put[t]
  PROVE  Spread(s, other) = Spread(s, put)
<1>1. PICK n \in Nat : n = Len(s) /\ \A i \in 1..n : s[i] \in Range(s)
  <2>1. PICK n \in Nat : n = Len(s) /\ DOMAIN s = 1..n
    BY DEF Texts
  <2> QED
    BY <2>1 DEF Range
<1>2. PICK f \in [0..n -> Texts] : Spreads(f, s, put, n)
  BY <1>1, SpreadsOn
<1>3. Spreads(f, s, other, n)
  BY <1>1, <1>2 DEF Spreads
<1> QED
  BY <1>1, <1>2, <1>3, SpreadIs

\* A text stays as it is if its letters do.
LEMMA SpreadSelf ==
  ASSUME NEW put \in Puts, NEW T, \A t \in T : put[t] = <<t>>
  PROVE  \A a \in Texts : Range(a) \subseteq T => Spread(a, put) = a
<1> DEFINE S == {a \in Texts : Range(a) \subseteq T => Spread(a, put) = a}
<1>1. << >> \in S
  BY SpreadNothing, Nothing
<1>2. ASSUME NEW a \in Texts, NEW x \in Tokens, a \in S
      PROVE  Then(a, <<x>>) \in S
  <2>1. <<x>> \in Texts /\ Then(a, <<x>>) \in Texts
    BY Joined, Appended
  <2>2. Range(Then(a, <<x>>)) = Range(a) \cup {x}
    BY <2>1, Letters
  <2>3. Range(Then(a, <<x>>)) \subseteq T => Spread(a, put) = a /\ put[x] = <<x>>
    BY <1>2, <2>2
  <2> QED
    BY <2>1, <2>3, SpreadMore
<1> HIDE DEF S
<1>3. Texts \subseteq S
  BY <1>1, <1>2, LetterByLetter
<1> QED
  BY <1>3 DEF S

\* Nothing is left of a text if nothing is of its letters.
LEMMA SpreadGone ==
  ASSUME NEW put \in Puts, NEW T, \A t \in T : put[t] = << >>
  PROVE  \A a \in Texts : Range(a) \subseteq T => Spread(a, put) = << >>
<1> DEFINE S == {a \in Texts : Range(a) \subseteq T => Spread(a, put) = << >>}
<1>1. << >> \in S
  BY SpreadNothing, Nothing
<1>2. ASSUME NEW a \in Texts, NEW x \in Tokens, a \in S
      PROVE  Then(a, <<x>>) \in S
  <2>1. <<x>> \in Texts /\ Then(a, <<x>>) \in Texts
    BY Joined, Appended
  <2>2. Range(Then(a, <<x>>)) = Range(a) \cup {x}
    BY <2>1, Letters
  <2>3. Range(Then(a, <<x>>)) \subseteq T => Spread(a, put) = << >> /\ put[x] = << >>
    BY <1>2, <2>2
  <2>4. << >> \in Texts /\ Then(<< >>, << >>) = << >>
    BY Nothing
  <2> QED
    BY <2>1, <2>3, <2>4, SpreadMore
<1> HIDE DEF S
<1>3. Texts \subseteq S
  BY <1>1, <1>2, LetterByLetter
<1> QED
  BY <1>3 DEF S

\* Every letter of the result was put there for a letter of the text.
LEMMA SpreadLetters ==
  ASSUME NEW put \in Puts
  PROVE  \A a \in Texts : Range(Spread(a, put)) = UNION {Range(put[t]) : t \in Range(a)}
<1> DEFINE S == {a \in Texts : Range(Spread(a, put)) = UNION {Range(put[t]) : t \in Range(a)}}
<1>1. << >> \in S
  BY SpreadNothing, Nothing, Letters
<1>2. ASSUME NEW a \in Texts, NEW x \in Tokens, a \in S
      PROVE  Then(a, <<x>>) \in S
  <2>1. /\ <<x>> \in Texts /\ Then(a, <<x>>) \in Texts /\ Spread(a, put) \in Texts
        /\ put[x] \in Texts
    BY Joined, Appended, SpreadText DEF Puts
  <2>2. Range(Then(a, <<x>>)) = Range(a) \cup {x}
    BY <2>1, Letters
  <2>3. Range(Then(Spread(a, put), put[x])) = Range(Spread(a, put)) \cup Range(put[x])
    BY <2>1, Letters
  <2>4. UNION {Range(put[t]) : t \in Range(a) \cup {x}} =
          (UNION {Range(put[t]) : t \in Range(a)}) \cup Range(put[x])
    OBVIOUS
  <2>5. Range(Spread(a, put)) = UNION {Range(put[t]) : t \in Range(a)}
    BY <1>2
  <2>6. Spread(Then(a, <<x>>), put) = Then(Spread(a, put), put[x])
    BY SpreadMore
  <2> QED
    BY <2>1, <2>2, <2>3, <2>4, <2>5, <2>6
<1> HIDE DEF S
<1>3. Texts \subseteq S
  BY <1>1, <1>2, LetterByLetter
<1> QED
  BY <1>3 DEF S

-----------------------------------------------------------------------------
\* A set of numbers up to n has a greatest one and a least one, and Max and Min are
\* these.
LEMMA Extremes ==
  ASSUME NEW n \in Nat, NEW S, S \subseteq 1..n, S # {}
  PROVE  /\ Min(S) \in S /\ \A k \in S : Min(S) <= k
         /\ Max(S) \in S /\ \A k \in S : k <= Max(S)
<1>1. S \subseteq Nat
  OBVIOUS
<1>2. \E m \in S : \A k \in S : m <= k
  BY <1>1, Least
<1>3. \E m \in S : \A k \in S : k <= m
  <2> DEFINE R == {r \in Nat : n - r \in S}
  <2>1. R \subseteq Nat /\ R # {}
    <3>1. PICK k \in S : TRUE
      OBVIOUS
    <3>2. n - k \in Nat /\ n - (n - k) = k
      OBVIOUS
    <3> QED
      BY <3>1, <3>2
  <2> HIDE DEF R
  <2>2. PICK r \in R : \A q \in R : r <= q
    BY <2>1, Least
  <2>3. r \in Nat /\ n - r \in S
    BY DEF R
  <2>4. ASSUME NEW k \in S
        PROVE  k <= n - r
    <3>1. n - k \in Nat /\ n - (n - k) = k
      OBVIOUS
    <3>2. n - k \in R
      BY <3>1 DEF R
    <3>3. r <= n - k
      BY <2>2, <3>2
    <3> QED
      BY <2>3, <3>1, <3>3
  <2> QED
    BY <2>3, <2>4
<1>4. Min(S) \in S /\ \A k \in S : Min(S) <= k
  BY <1>2 DEF Min
<1>5. Max(S) \in S /\ \A k \in S : Max(S) >= k
  <2>1. \E m \in S : \A k \in S : m >= k
    BY <1>1, <1>3
  <2> QED
    BY <2>1 DEF Max
<1> QED
  BY <1>1, <1>4, <1>5

\* The letters of a part of a text are letters of the text at its places.
LEMMA PartOf ==
  ASSUME NEW s \in Texts, NEW m \in Nat, NEW n \in Nat, 1 <= m, n <= Len(s), NEW x,
         x \in Range(SubSeq(s, m, n))
  PROVE  \E i \in m..n : s[i] = x
<1>1. \A i \in m..n : s[i] \in Tokens
  BY DEF Texts
<1>2. PICK p : p = SubSeq(s, m, n)
  OBVIOUS
<1>3. /\ p \in Seq(Tokens) /\ Len(p) = (IF m <= n THEN n - m + 1 ELSE 0)
      /\ \A i \in 1..(n - m + 1) : p[i] = s[m + i - 1]
  BY <1>1, <1>2, SubSeqProperties
<1>4. PICK i \in 1..Len(p) : p[i] = x
  BY <1>2, <1>3 DEF Range
<1>5. m <= n /\ i \in 1..(n - m + 1) /\ m + i - 1 \in m..n
  BY <1>3, <1>4
<1> QED
  BY <1>3, <1>4, <1>5

\* Around what Strip leaves, only white space is taken away (winx_bundler.py:13).
LEMMA StripIs ==
  ASSUME NEW s \in Texts
  PROVE  \E a, b \in Texts : /\ Strip(s) \in Texts /\ s = Then(a, Then(Strip(s), b))
                             /\ Range(a) \subseteq {Blank} /\ Range(b) \subseteq {Blank}
<1>1. PICK n \in Nat : n = Len(s) /\ DOMAIN s = 1..n
  BY DEF Texts
<1>2. PICK S : S = {i \in DOMAIN s : s[i] # Blank}
  OBVIOUS
<1>3. Strip(s) = IF S = {} THEN << >> ELSE SubSeq(s, Min(S), Max(S))
  BY <1>2 DEF Strip
<1>4. CASE S = {}
  <2>1. \A i \in DOMAIN s : s[i] = Blank
    BY <1>2, <1>4
  <2>2. Range(s) \subseteq {Blank}
    BY <2>1 DEF Range
  <2>3. << >> \in Texts /\ Then(<< >>, << >>) = << >> /\ Then(s, << >>) = s
    BY Nothing
  <2>4. Range(<< >>) \subseteq {Blank}
    BY Letters
  <2> QED
    BY <1>3, <1>4, <2>2, <2>3, <2>4
<1>5. CASE S # {}
  <2>1. S \subseteq 1..n
    BY <1>1, <1>2
  <2>2. PICK lo \in 1..n, hi \in 1..n : /\ lo = Min(S) /\ hi = Max(S) /\ lo <= hi
                                        /\ \A k \in S : lo <= k /\ k <= hi
    <3>1. /\ Min(S) \in S /\ \A k \in S : Min(S) <= k
          /\ Max(S) \in S /\ \A k \in S : k <= Max(S)
      BY <1>5, <2>1, Extremes
    <3> QED
      BY <2>1, <3>1
  <2>3. PICK m \in Nat, k \in Nat : m = lo - 1 /\ m + 1 = lo /\ m + k = hi
    <3>1. lo - 1 \in Nat /\ hi - lo + 1 \in Nat /\ (lo - 1) + 1 = lo /\ (lo - 1) + (hi - lo + 1) = hi
      BY <2>2
    <3> QED
      BY <3>1
  <2>4. m \in 0..Len(s) /\ m + k <= Len(s)
    BY <1>1, <2>2, <2>3
  <2>5. /\ SubSeq(s, 1, m) \in Texts
        /\ Then(SubSeq(s, 1, m), SubSeq(s, m + 1, Len(s))) = s
    BY <2>4, Split
  <2>6. /\ SubSeq(s, m + 1, m + k) \in Texts /\ SubSeq(s, m + k + 1, Len(s)) \in Texts
        /\ Then(SubSeq(s, m + 1, m + k), SubSeq(s, m + k + 1, Len(s))) = SubSeq(s, m + 1, Len(s))
    BY <2>4, Between
  <2>7. Strip(s) = SubSeq(s, m + 1, m + k)
    BY <1>3, <1>5, <2>2, <2>3
  <2>8. ASSUME NEW x, x \in Range(SubSeq(s, 1, m))
        PROVE  x = Blank
    <3>1. m \in Nat /\ 1 \in Nat /\ 1 <= 1 /\ m <= Len(s)
      BY <1>1, <2>2, <2>3
    <3>2. PICK i \in 1..m : s[i] = x
      BY <2>8, <3>1, PartOf
    <3>3. i \in 1..n /\ ~(lo <= i)
      BY <2>2, <2>3
    <3>4. i \notin S
      BY <2>2, <3>3
    <3> QED
      BY <1>1, <1>2, <3>2, <3>3, <3>4
  <2>9. ASSUME NEW x, x \in Range(SubSeq(s, m + k + 1, Len(s)))
        PROVE  x = Blank
    <3>1. m + k + 1 \in Nat /\ 1 <= m + k + 1 /\ n \in Nat /\ n <= Len(s)
      BY <1>1
    <3>2. PICK i \in (m + k + 1)..n : s[i] = x
      BY <1>1, <2>9, <3>1, PartOf
    <3>3. i \in 1..n /\ ~(i <= hi)
      BY <2>2, <2>3
    <3>4. i \notin S
      BY <2>2, <3>3
    <3> QED
      BY <1>1, <1>2, <3>2, <3>3, <3>4
  <2> QED
    BY <2>5, <2>6, <2>7, <2>8, <2>9
<1> QED
  BY <1>4, <1>5

\* A text that has a letter in F has a first one.
LEMMA First ==
  ASSUME NEW F
  PROVE  \A s \in Texts :
           \/ Range(s) \cap F = {}
           \/ \E a, b \in Texts, f \in F \cap Tokens :
                s = Then(a, Then(<<f>>, b)) /\ Range(a) \cap F = {}
<1> DEFINE Has(s) == \E a, b \in Texts, f \in F \cap Tokens :
                       s = Then(a, Then(<<f>>, b)) /\ Range(a) \cap F = {}
           S == {s \in Texts : Range(s) \cap F = {} \/ Has(s)}
<1>1. << >> \in S
  BY Nothing, Letters
<1>2. ASSUME NEW s \in Texts, NEW x \in Tokens, s \in S
      PROVE  Then(s, <<x>>) \in S
  <2>1. <<x>> \in Texts /\ Then(s, <<x>>) \in Texts
    BY Joined, Appended
  <2>2. CASE Has(s)
    <3>1. PICK a \in Texts, b \in Texts, f \in F \cap Tokens :
            s = Then(a, Then(<<f>>, b)) /\ Range(a) \cap F = {}
      BY <2>2
    <3>2. <<f>> \in Texts /\ Then(b, <<x>>) \in Texts /\ Then(<<f>>, b) \in Texts
      BY <2>1, Joined, Appended
    <3>3. Then(Then(a, Then(<<f>>, b)), <<x>>) = Then(a, Then(Then(<<f>>, b), <<x>>))
      BY <2>1, <3>2, Together
    <3>4. Then(Then(<<f>>, b), <<x>>) = Then(<<f>>, Then(b, <<x>>))
      BY <2>1, <3>2, Together
    <3>5. Has(Then(s, <<x>>))
      BY <3>1, <3>2, <3>3, <3>4
    <3> QED
      BY <2>1, <3>5
  <2>3. CASE Range(s) \cap F = {} /\ x \in F
    <3>1. Then(s, <<x>>) = Then(s, Then(<<x>>, << >>)) /\ << >> \in Texts
      BY <2>1, Nothing
    <3>2. Has(Then(s, <<x>>))
      BY <2>3, <3>1
    <3> QED
      BY <2>1, <3>2
  <2>4. CASE Range(s) \cap F = {} /\ x \notin F
    <3>1. Range(Then(s, <<x>>)) = Range(s) \cup {x}
      BY <2>1, Letters
    <3> QED
      BY <2>1, <2>4, <3>1
  <2> QED
    BY <1>2, <2>2, <2>3, <2>4
<1> HIDE DEF S
<1>3. Texts \subseteq S
  BY <1>1, <1>2, LetterByLetter
<1> QED
  BY <1>3 DEF S

\* What a text ends with.
LEMMA Ending ==
  ASSUME NEW s \in Texts, NEW r \in Texts
  PROVE  SubSeq(Then(s, r), Len(s) + 1, Len(Then(s, r))) = r
<1>1. PICK m \in Nat, n \in Nat : m = Len(s) /\ n = Len(r) /\ Len(Then(s, r)) = m + n
  BY Lengths
<1>2. CASE n = 0
  <2>1. r = << >>
    <3>1. Len(r) = 0
      BY <1>1, <1>2
    <3> QED
      BY <3>1 DEF Texts
  <2>2. SubSeq(Then(s, r), m + 1, m + n) = << >>
    BY <1>2, SubSeqEmpty
  <2> QED
    BY <1>1, <2>1, <2>2
<1>3. CASE n # 0
  <2>1. m + 1 \in (m + 1)..(m + n) /\ m + n \in (m + 1)..(m + n)
    BY <1>3
  <2>2. SubSeq(s \o r, m + 1, m + n) = SubSeq(r, (m + 1) - m, (m + n) - m)
    BY <1>1, <2>1, SubSeqOfConcat2 DEF Texts
  <2>3. (m + 1) - m = 1 /\ (m + n) - m = n
    OBVIOUS
  <2>4. SubSeq(r, 1, n) = r
    BY <1>1, AllOut
  <2> QED
    BY <1>1, <2>2, <2>3, <2>4 DEF Then
<1> QED
  BY <1>2, <1>3

\* What f is replaced by.
Put(f, by) == [t \in Tokens |-> IF t = f THEN by ELSE <<t>>]

\* JavaScript's replace puts something for the first f (bundle.js:22).
LEMMA PutFirstIs ==
  ASSUME NEW a \in Texts, NEW b \in Texts, NEW f \in Tokens, f \notin Range(a), NEW by,
         NEW q \in Texts, q = PutAll(by, Pattern, <<f>>)
  PROVE  PutFirst(Then(a, Then(<<f>>, b)), f, by) = Then(a, Then(q, b))
<1>1. PICK o \in Texts : o = <<f>> /\ Len(o) = 1
  BY Appended
<1>2. PICK s \in Texts : s = Then(a, Then(o, b)) /\ s = Then(Then(a, o), b)
  BY Joined, Together
<1>3. PICK m \in Nat : m = Len(a)
  BY Lengths
<1>4. Then(a, o) \in Texts /\ Then(o, b) \in Texts /\ Len(Then(a, o)) = m + 1
  BY <1>1, <1>3, Joined, Lengths
<1>5. SubSeq(s, 1, m) = a
  BY <1>2, <1>3, <1>4, Beginning
<1>6. SubSeq(s, (m + 1) + 1, Len(s)) = b
  <2>1. PICK u \in Texts : u = Then(a, o) /\ Len(u) = m + 1 /\ s = Then(u, b)
    BY <1>2, <1>4
  <2>2. SubSeq(Then(u, b), Len(u) + 1, Len(Then(u, b))) = b
    BY Ending
  <2> QED
    BY <2>1, <2>2
<1>7. PICK S : S = {j \in DOMAIN s : s[j] = f}
  OBVIOUS
<1>8. PICK n \in Nat : n = Len(s) /\ DOMAIN s = 1..n /\ m + 1 <= n
  <2>1. Len(s) = (m + 1) + Len(b) /\ Len(b) \in Nat
    <3>1. PICK u \in Texts : u = Then(a, o) /\ Len(u) = m + 1 /\ s = Then(u, b)
      BY <1>2, <1>4
    <3>2. Len(Then(u, b)) = Len(u) + Len(b) /\ Len(b) \in Nat
      BY Lengths
    <3> QED
      BY <3>1, <3>2
  <2>2. DOMAIN s = 1..Len(s)
    BY DEF Texts
  <2> QED
    BY <2>1, <2>2
<1>9. /\ m + 1 \in S /\ f \in Range(s)
      /\ \A j \in S : m + 1 <= j
  <2>1. \A i \in 1..m : s[i] = a[i]
    BY <1>2, <1>3, <1>4 DEF Texts, Then
  <2>2. s[m + 1] = f
    <3>1. PICK c \in Texts : c = Then(o, b) /\ Len(c) = 1 + Len(b) /\ c[1] = f
      <4>1. Len(Then(o, b)) = 1 + Len(b) /\ Len(b) \in Nat
        BY <1>1, Lengths
      <4>2. Then(o, b)[1] = o[1]
        BY <1>1 DEF Texts, Then
      <4>3. o[1] = f
        BY <1>1
      <4> QED
        BY <1>4, <4>1, <4>2, <4>3
    <3>2. Len(b) \in Nat
      BY Lengths
    <3>3. s[m + 1] = c[1]
      BY <1>2, <1>3, <3>1, <3>2 DEF Texts, Then
    <3> QED
      BY <3>1, <3>3
  <2>3. m + 1 \in 1..n
    BY <1>8
  <2>4. \A i \in 1..m : a[i] # f
    <3>1. DOMAIN a = 1..m
      BY <1>3 DEF Texts
    <3> QED
      BY <3>1 DEF Range
  <2>5. \A j \in 1..n : s[j] = f => m + 1 <= j
    <3> SUFFICES ASSUME NEW j \in 1..n, s[j] = f, ~(m + 1 <= j)
                 PROVE  FALSE
      OBVIOUS
    <3>1. j \in 1..m
      OBVIOUS
    <3> QED
      BY <2>1, <2>4, <3>1
  <2> QED
    BY <1>7, <1>8, <2>2, <2>3, <2>5 DEF Range
<1>10. Min(S) = m + 1
  <2>1. S \subseteq 1..n /\ S # {}
    BY <1>7, <1>8, <1>9
  <2>2. Min(S) \in S /\ \A k \in S : Min(S) <= k
    BY <2>1, Extremes
  <2>3. Min(S) \in 1..n /\ Min(S) <= m + 1 /\ m + 1 <= Min(S)
    BY <1>9, <2>1, <2>2
  <2> QED
    BY <2>3
<1>11. PutFirst(s, f, by) =
         (SubSeq(s, 1, (m + 1) - 1) \o PutAll(by, Pattern, <<f>>)) \o SubSeq(s, (m + 1) + 1, Len(s))
  BY <1>7, <1>9, <1>10, Zenon DEF PutFirst
<1>12. (m + 1) - 1 = m
  OBVIOUS
<1>13. PutFirst(s, f, by) = Then(Then(a, q), b)
  BY <1>5, <1>6, <1>11, <1>12 DEF Then
<1> QED
  BY <1>1, <1>2, <1>13, Together

\* Putting something for all f.
LEMMA PutAllIs ==
  ASSUME NEW s \in Texts, NEW f, NEW by \in Texts
  PROVE  /\ Put(f, by) \in Puts /\ PutAll(s, f, by) = Spread(s, Put(f, by))
         /\ PutAll(s, f, by) \in Texts
<1>1. \A t \in Tokens : <<t>> \in Texts
  BY Appended
<1>2. Put(f, by) \in Puts
  BY <1>1 DEF Put, Puts
<1>3. PutAll(s, f, by) = Spread(s, Put(f, by))
  BY DEF PutAll, Put
<1> QED
  BY <1>2, <1>3, SpreadText

-----------------------------------------------------------------------------
\* How import statements are found.
Found == [t \in Tokens |-> IF t \in Files THEN <<t>> ELSE << >>]

\* What is found are the letters that are names of files.
LEMMA FoundIs ==
  /\ Found \in Puts
  /\ \A a \in Texts : Spread(a, Found) \in Texts /\ Range(Spread(a, Found)) = Range(a) \cap Files
<1>1. Found \in Puts
  BY Appended, Nothing DEF Found, Puts
<1>2. ASSUME NEW a \in Texts
      PROVE  Range(Spread(a, Found)) = Range(a) \cap Files
  <2>1. Range(Spread(a, Found)) = UNION {Range(Found[t]) : t \in Range(a)}
    BY <1>1, SpreadLetters
  <2>2. Range(a) \subseteq Tokens
    BY Letters
  <2>3. \A t \in Tokens : Range(Found[t]) = IF t \in Files THEN {t} ELSE {}
    BY Letters DEF Found
  <2>4. \A x : x \in Range(Spread(a, Found)) <=> \E t \in Range(a) : x \in Range(Found[t])
    BY <2>1
  <2>5. \A x : x \in Range(Spread(a, Found)) <=> x \in Range(a) /\ x \in Files
    <3>1. ASSUME NEW t \in Range(a), NEW x
          PROVE  x \in Range(Found[t]) <=> x = t /\ t \in Files
      <4>1. Range(Found[t]) = IF t \in Files THEN {t} ELSE {}
        BY <2>2, <2>3
      <4> QED
        BY <4>1
    <3> QED
      BY <2>4, <3>1
  <2> QED
    BY <2>5
<1> QED
  BY <1>1, <1>2, SpreadText

\* A file is in one of the two places.
There(f) == Exists(".", f) \/ Exists("polyfills", f)

\* What is known of every state, besides types: the bundle is written when no import
\* is left, and what was put in was there.
Typed ==
  /\ disk \in Disks /\ template \in Templates
  /\ text \in [Tools -> Texts] /\ next \in [Tools -> Nat]
  /\ done \in [Tools -> {"no", "written", "failed"}]
  /\ \A tool \in Tools : next[tool] >= 1
  /\ \A tool \in Tools : done[tool] = "written" => next[tool] > Len(imports)
  /\ \A j \in DOMAIN imports : j < next["winx_bundler.py"] => There(imports[j])

\* The imports are a text of names of files.
LEMMA ImportsAre ==
  ASSUME template \in Templates
  PROVE  /\ template \in Texts /\ imports = Spread(template, Found)
         /\ imports \in Texts /\ Range(imports) = Range(template) \cap Files
         /\ Len(imports) \in Nat /\ DOMAIN imports = 1..Len(imports)
         /\ \A j \in DOMAIN imports : imports[j] \in Files /\ imports[j] \in Range(imports)
<1>1. template \in Texts
  BY BundlerAssumption DEF Texts
<1>2. imports = Spread(template, Found)
  BY DEF imports, Found
<1>3. imports \in Texts /\ Range(imports) = Range(template) \cap Files
  BY <1>1, <1>2, FoundIs
<1>4. Len(imports) \in Nat /\ DOMAIN imports = 1..Len(imports)
  BY <1>3 DEF Texts
<1>5. \A j \in DOMAIN imports : imports[j] \in Range(imports)
  BY DEF Range
<1> QED
  BY <1>1, <1>2, <1>3, <1>4, <1>5

\* What is read is text.
LEMMA ReadsText ==
  ASSUME disk \in Disks, NEW f
  PROVE  /\ safe_read_file(f) \in Texts
         /\ There(f) => /\ Content(f) \in Texts /\ Strip(Content(f)) \in Texts
                        /\ Range(Strip(Content(f))) \subseteq Range(Content(f))
                        /\ read_file(f) = Strip(Content(f))
<1>1. \A p \in DOMAIN disk : disk[p] \in Texts
  BY BundlerAssumption DEF Texts
<1>2. safe_read_file(f) \in Texts
  BY <1>1, Nothing DEF safe_read_file, Exists
<1>3. ASSUME There(f)
      PROVE  /\ Content(f) \in Texts /\ Strip(Content(f)) \in Texts
             /\ Range(Strip(Content(f))) \subseteq Range(Content(f))
             /\ read_file(f) = Strip(Content(f))
  <2>1. PICK s \in Texts : s = Content(f)
    BY <1>1, <1>3 DEF Content, Exists, There
  <2>2. PICK a \in Texts, b \in Texts : Strip(s) \in Texts /\ s = Then(a, Then(Strip(s), b))
    BY StripIs
  <2>3. Then(Strip(s), b) \in Texts
    BY <2>2, Joined
  <2>4. Range(s) = Range(a) \cup (Range(Strip(s)) \cup Range(b))
    BY <2>2, <2>3, Letters
  <2>5. read_file(f) = Strip(Content(f))
    BY DEF read_file, Content
  <2> QED
    BY <2>1, <2>2, <2>4, <2>5
<1> QED
  BY <1>2, <1>3

\* Putting something for the first of a name, wherever it is, makes a text.
LEMMA PutFirstText ==
  ASSUME NEW s \in Texts, NEW f \in Tokens, NEW by \in Texts
  PROVE  PutFirst(s, f, by) \in Texts
<1>1. CASE f \notin Range(s)
  BY <1>1 DEF PutFirst
<1>2. CASE f \in Range(s)
  <2>1. PICK F : F = {f}
    OBVIOUS
  <2>2. PICK a \in Texts, b \in Texts, g \in F \cap Tokens :
          s = Then(a, Then(<<g>>, b)) /\ Range(a) \cap F = {}
    <3>1. Range(s) \cap F # {}
      BY <1>2, <2>1
    <3> QED
      BY <3>1, First
  <2>3. g = f /\ f \notin Range(a) /\ <<f>> \in Texts
    BY <2>1, <2>2, Appended
  <2>4. PICK q \in Texts : q = PutAll(by, Pattern, <<f>>)
    BY <2>3, PutAllIs
  <2>5. PutFirst(s, f, by) = Then(a, Then(q, b))
    BY <2>2, <2>3, <2>4, PutFirstIs
  <2> QED
    BY <2>5, Joined
<1> QED
  BY <1>1, <1>2

\* A tool replaces its import n, of f, and has s after that.
Turned(tool, n, f, s) ==
  /\ n = next[tool] /\ n \in DOMAIN imports /\ f = imports[n]
  /\ text' = [text EXCEPT ![tool] = s] /\ next' = [next EXCEPT ![tool] = n + 1]
  /\ done' = done

\* What a step does.
LEMMA Turns ==
  ASSUME Typed, [Next]_vars
  PROVE  /\ UNCHANGED <<disk, template>>
         /\ \/ \E n \in Nat, f \in Files :
                 /\ Turned("winx_bundler.py", n, f,
                           PutAll(text["winx_bundler.py"], f, Strip(Content(f))))
                 /\ There(f)
            \/ \E n \in Nat, f \in Files :
                 Turned("bundle.js", n, f, PutFirst(text["bundle.js"], f, safe_read_file(f)))
            \/ /\ UNCHANGED <<text, next>> /\ done' \in [Tools -> {"no", "written", "failed"}]
               /\ \A tool \in Tools :
                    done'[tool] = "written" =>
                      done[tool] = "written" \/ next[tool] > Len(imports)
<1>1. /\ {"winx_bundler.py", "bundle.js"} = Tools /\ disk \in Disks /\ template \in Templates
      /\ next \in [Tools -> Nat] /\ done \in [Tools -> {"no", "written", "failed"}]
  BY DEF Typed, Tools
<1>2. Len(imports) \in Nat /\ DOMAIN imports = 1..Len(imports) /\ \A t \in Tools : next[t] >= 1
  BY <1>1, ImportsAre DEF Typed
<1>3. CASE python
  <2>1. next["winx_bundler.py"] \in Nat /\ next["winx_bundler.py"] <= Len(imports)
    BY <1>1, <1>3 DEF python, Replacing
  <2>2. PICK n \in Nat : n = next["winx_bundler.py"] /\ n \in DOMAIN imports
    BY <1>1, <1>2, <2>1, ImportsAre
  <2>3. PICK f \in Files : f = imports[n]
    BY <1>1, <2>2, ImportsAre
  <2>4. CASE There(f)
    <3>1. /\ text' = [text EXCEPT !["winx_bundler.py"] = Replaced(f)]
          /\ next' = [next EXCEPT !["winx_bundler.py"] = @ + 1] /\ done' = done
          /\ UNCHANGED <<disk, template>>
      BY <1>3, <2>2, <2>3, <2>4, Zenon DEF python, There
    <3>2. Replaced(f) = PutAll(text["winx_bundler.py"], f, Strip(Content(f)))
      BY <1>1, <2>4, ReadsText DEF Replaced
    <3>3. next' = [next EXCEPT !["winx_bundler.py"] = n + 1]
      BY <2>2, <3>1
    <3> QED
      BY <2>2, <2>3, <2>4, <3>1, <3>2, <3>3 DEF Turned
  <2>5. CASE ~There(f)
    <3>1. /\ done' = [done EXCEPT !["winx_bundler.py"] = "failed"]
          /\ UNCHANGED <<text, next, disk, template>>
      BY <1>3, <2>2, <2>3, <2>5, Zenon DEF python, There
    <3> QED
      BY <1>1, <3>1
  <2> QED
    BY <2>4, <2>5
<1>4. CASE bundle
  <2>1. next["bundle.js"] \in Nat /\ next["bundle.js"] <= Len(imports)
    BY <1>1, <1>4 DEF bundle, Replacing
  <2>2. PICK n \in Nat : n = next["bundle.js"] /\ n \in DOMAIN imports
    BY <1>1, <1>2, <2>1, ImportsAre
  <2>3. PICK f \in Files : f = imports[n]
    BY <1>1, <2>2, ImportsAre
  <2>4. /\ text' = [text EXCEPT !["bundle.js"] =
                      PutFirst(text["bundle.js"], f, safe_read_file(f))]
        /\ next' = [next EXCEPT !["bundle.js"] = @ + 1] /\ done' = done
        /\ UNCHANGED <<disk, template>>
    BY <1>4, <2>2, <2>3, Zenon DEF bundle
  <2>5. next' = [next EXCEPT !["bundle.js"] = n + 1]
    BY <2>2, <2>4
  <2> QED
    BY <2>2, <2>3, <2>4, <2>5 DEF Turned
<1>5. ASSUME NEW tool \in Tools, Write(tool)
      PROVE  /\ UNCHANGED <<disk, template, text, next>>
             /\ done' \in [Tools -> {"no", "written", "failed"}]
             /\ \A t \in Tools :
                  done'[t] = "written" => done[t] = "written" \/ next[t] > Len(imports)
  BY <1>1, <1>5 DEF Write
<1>6. CASE UNCHANGED vars
  BY <1>1, <1>6 DEF vars
<1> QED
  BY <1>3, <1>4, <1>5, <1>6 DEF Next

\* While files and template stay as they are, so does what is read of them.
LEMMA Steady ==
  ASSUME UNCHANGED <<disk, template>>
  PROVE  /\ imports' = imports
         /\ \A f : Content(f)' = Content(f) /\ (There(f)' <=> There(f))
<1>1. disk' = disk /\ template' = template
  OBVIOUS
<1>2. imports' = imports
  BY <1>1 DEF imports
<1>3. ASSUME NEW f
      PROVE  Content(f)' = Content(f) /\ (There(f)' <=> There(f))
  BY <1>1 DEF Content, There, Exists
<1> QED
  BY <1>2, <1>3

\* Every state is as Typed says.
LEMMA TypedHolds == Spec => []Typed
<1>1. Init => Typed
  <2> SUFFICES ASSUME Init
               PROVE  Typed
    OBVIOUS
  <2>1. template \in Texts /\ Strip(template) \in Texts
    <3>1. template \in Texts
      BY BundlerAssumption DEF Init, Texts
    <3> QED
      BY <3>1, StripIs
  <2>2. text \in [Tools -> Texts] /\ next \in [Tools -> Nat]
    BY <2>1 DEF Init
  <2>3. \A tool \in Tools : next[tool] >= 1 /\ done[tool] = "no"
    BY DEF Init
  <2>4. \A j \in DOMAIN imports : ~(j < next["winx_bundler.py"])
    <3>1. next["winx_bundler.py"] = 1
      BY DEF Init, Tools
    <3>2. \A j \in DOMAIN imports : j \in Nat /\ 1 <= j
      BY ImportsAre DEF Init
    <3> QED
      BY <3>1, <3>2
  <2> QED
    BY <2>2, <2>3, <2>4 DEF Typed, Init
<1>2. Typed /\ [Next]_vars => Typed'
  <2> SUFFICES ASSUME Typed, [Next]_vars
               PROVE  Typed'
    OBVIOUS
  <2>1. UNCHANGED <<disk, template>>
    BY Turns
  <2>2. /\ imports' = imports /\ \A f : There(f)' <=> There(f)
        /\ template \in Templates /\ disk \in Disks
    BY <2>1, Steady DEF Typed
  <2>3. /\ "winx_bundler.py" \in Tools /\ "bundle.js" \in Tools
        /\ text \in [Tools -> Texts] /\ next \in [Tools -> Nat]
        /\ \A t \in Files : t \in Tokens
    BY BundlerAssumption DEF Tools, Typed
  <2>4. ASSUME NEW tool \in Tools, NEW n \in Nat, NEW f \in Files, NEW s \in Texts,
               Turned(tool, n, f, s), tool = "winx_bundler.py" => There(f)
        PROVE  Typed'
    <3>1. text' \in [Tools -> Texts] /\ next' \in [Tools -> Nat]
      BY <2>3, <2>4 DEF Turned
    <3>2. /\ done' = done /\ next[tool] = n /\ next'[tool] = n + 1
          /\ \A t \in Tools : t # tool => next'[t] = next[t]
      BY <2>3, <2>4 DEF Turned
    <3>3. \A t \in Tools : next'[t] >= 1 /\ next'[t] >= next[t]
      <4>1. \A t \in Tools : next[t] \in Nat /\ next[t] >= 1
        BY <2>3 DEF Typed
      <4>2. n + 1 >= 1 /\ n + 1 >= n
        OBVIOUS
      <4> QED
        BY <3>2, <4>1, <4>2
    <3>4. ASSUME NEW t \in Tools, done'[t] = "written"
          PROVE  next'[t] > Len(imports)
      <4>1. next[t] > Len(imports) /\ next[t] \in Nat /\ Len(imports) \in Nat
        BY <2>2, <2>3, <3>2, <3>4, ImportsAre DEF Typed
      <4>2. next'[t] \in Nat /\ next'[t] >= next[t]
        BY <3>1, <3>3
      <4> QED
        BY <4>1, <4>2
    <3>5. ASSUME NEW j \in DOMAIN imports, j < next'["winx_bundler.py"]
          PROVE  There(imports[j])
      <4>1. j \in Nat
        BY <2>2, ImportsAre
      <4>2. CASE j < next["winx_bundler.py"]
        BY <4>2 DEF Typed
      <4>3. CASE ~(j < next["winx_bundler.py"])
        <5>1. tool = "winx_bundler.py" /\ next'["winx_bundler.py"] = n + 1
          BY <2>3, <3>2, <3>5, <4>3
        <5>2. j = n
          BY <3>2, <3>5, <4>1, <4>3, <5>1
        <5> QED
          BY <2>4, <5>1, <5>2 DEF Turned
      <4> QED
        BY <4>2, <4>3
    <3> QED
      BY <2>1, <2>2, <3>1, <3>2, <3>3, <3>4, <3>5 DEF Typed
  <2>5. ASSUME NEW n \in Nat, NEW f \in Files,
               Turned("winx_bundler.py", n, f,
                      PutAll(text["winx_bundler.py"], f, Strip(Content(f)))),
               There(f)
        PROVE  Typed'
    <3>1. PutAll(text["winx_bundler.py"], f, Strip(Content(f))) \in Texts
      BY <2>2, <2>3, <2>5, ReadsText, PutAllIs
    <3> QED
      BY <2>3, <2>4, <2>5, <3>1
  <2>6. ASSUME NEW n \in Nat, NEW f \in Files,
               Turned("bundle.js", n, f, PutFirst(text["bundle.js"], f, safe_read_file(f)))
        PROVE  Typed'
    <3>1. PutFirst(text["bundle.js"], f, safe_read_file(f)) \in Texts
      BY <2>2, <2>3, ReadsText, PutFirstText
    <3> QED
      BY <2>3, <2>4, <2>6, <3>1
  <2>7. CASE /\ UNCHANGED <<text, next>> /\ done' \in [Tools -> {"no", "written", "failed"}]
             /\ \A tool \in Tools :
                  done'[tool] = "written" =>
                    done[tool] = "written" \/ next[tool] > Len(imports)
    BY <2>1, <2>2, <2>7 DEF Typed
  <2> QED
    BY <2>5, <2>6, <2>7, Turns
<1> QED
  BY <1>1, <1>2, PTL DEF Spec

-----------------------------------------------------------------------------
(* Imports that are left.                                                  *)

\* An import of f is still to be replaced; one that is there came too late for that.
Pending(f) == \E j \in DOMAIN imports : next["winx_bundler.py"] <= j /\ imports[j] = f
CameLate(f) ==
  \E i \in DOMAIN imports :
    /\ i < next["winx_bundler.py"] /\ f \in Range(Content(imports[i]))
    /\ \A j \in DOMAIN imports : imports[j] = f => j <= i
Late == \A f \in Files \cap Range(text["winx_bundler.py"]) : Pending(f) \/ CameLate(f)

\* Every import that is in the text is pending or came late.
LEMMA LateHolds == Spec => []Late
<1>1. Init => Late
  <2> SUFFICES ASSUME Init, NEW f \in Files, f \in Range(text["winx_bundler.py"])
               PROVE  Pending(f)
    BY DEF Late
  <2>1. text["winx_bundler.py"] = Strip(template) /\ next["winx_bundler.py"] = 1
    BY DEF Init, Tools
  <2>2. template \in Texts /\ Range(imports) = Range(template) \cap Files
    BY ImportsAre DEF Init
  <2>3. PICK a \in Texts, b \in Texts :
          Strip(template) \in Texts /\ template = Then(a, Then(Strip(template), b))
    BY <2>2, StripIs
  <2>4. Then(Strip(template), b) \in Texts
    BY <2>3, Joined
  <2>5. Range(template) = Range(a) \cup (Range(Strip(template)) \cup Range(b))
    BY <2>3, <2>4, Letters
  <2>6. f \in Range(imports)
    BY <2>1, <2>2, <2>5
  <2>7. PICK j \in DOMAIN imports : imports[j] = f
    BY <2>6 DEF Range
  <2>8. 1 <= j
    BY ImportsAre DEF Init
  <2> QED
    BY <2>1, <2>7, <2>8 DEF Pending
<1>2. Typed /\ Late /\ [Next]_vars => Late'
  <2> SUFFICES ASSUME Typed, Late, [Next]_vars
               PROVE  Late'
    OBVIOUS
  <2>1. /\ imports' = imports /\ \A f : Content(f)' = Content(f)
        /\ template \in Templates /\ disk \in Disks
    BY Turns, Steady DEF Typed
  <2>2. /\ "winx_bundler.py" \in Tools /\ "bundle.js" \in Tools
        /\ "winx_bundler.py" # "bundle.js"
        /\ text \in [Tools -> Texts] /\ next \in [Tools -> Nat]
    BY DEF Tools, Typed
  <2>3. CASE UNCHANGED <<text, next>>
    BY <2>1, <2>3 DEF Late, Pending, CameLate
  <2>4. ASSUME NEW n \in Nat, NEW f, NEW s, Turned("bundle.js", n, f, s)
        PROVE  Late'
    <3>1. /\ text'["winx_bundler.py"] = text["winx_bundler.py"]
          /\ next'["winx_bundler.py"] = next["winx_bundler.py"]
      BY <2>2, <2>4 DEF Turned
    <3> QED
      BY <2>1, <3>1 DEF Late, Pending, CameLate
  <2>5. ASSUME NEW n \in Nat, NEW f \in Files,
               Turned("winx_bundler.py", n, f,
                      PutAll(text["winx_bundler.py"], f, Strip(Content(f)))),
               There(f)
        PROVE  Late'
    <3>1. PICK by \in Texts : by = Strip(Content(f)) /\ Range(by) \subseteq Range(Content(f))
      BY <2>1, <2>5, ReadsText
    <3>2. PICK was \in Texts, is \in Texts : /\ was = text["winx_bundler.py"] /\ is = PutAll(was, f, by)
                                             /\ is = text'["winx_bundler.py"]
      <4>1. text["winx_bundler.py"] \in Texts
        BY <2>2
      <4>2. PutAll(text["winx_bundler.py"], f, by) \in Texts
        BY <4>1, PutAllIs
      <4>3. text'["winx_bundler.py"] = PutAll(text["winx_bundler.py"], f, by)
        BY <2>2, <2>5, <3>1 DEF Turned
      <4> QED
        BY <4>1, <4>2, <4>3
    <3>3. /\ next["winx_bundler.py"] = n /\ next'["winx_bundler.py"] = n + 1
          /\ n \in DOMAIN imports /\ f = imports[n]
      BY <2>2, <2>5 DEF Turned
    <3>4. ASSUME NEW g \in Range(is)
          PROVE  (g \in Range(was) /\ g # f) \/ g \in Range(Content(f))
      <4>1. Range(is) = UNION {Range(Put(f, by)[t]) : t \in Range(was)}
        <5>1. PICK put \in Puts : put = Put(f, by) /\ is = Spread(was, put)
          <6>1. Put(f, by) \in Puts /\ PutAll(was, f, by) = Spread(was, Put(f, by))
            BY PutAllIs
          <6> QED
            BY <3>2, <6>1
        <5>2. Range(Spread(was, put)) = UNION {Range(put[t]) : t \in Range(was)}
          BY SpreadLetters
        <5> QED
          BY <5>1, <5>2
      <4>2. PICK t \in Range(was) : g \in Range(Put(f, by)[t])
        BY <4>1
      <4>3. t \in Tokens
        BY Letters
      <4>4. CASE t = f
        BY <3>1, <4>2, <4>3, <4>4 DEF Put
      <4>5. CASE t # f
        <5>1. Range(Put(f, by)[t]) = {t}
          BY <4>3, <4>5, Letters DEF Put
        <5> QED
          BY <4>2, <4>5, <5>1
      <4> QED
        BY <4>4, <4>5
    <3>5. DOMAIN imports \subseteq Nat
      BY <2>1, ImportsAre
    <3>6. ASSUME NEW g \in Files, g \in Range(is)
          PROVE  \/ \E j \in DOMAIN imports : n + 1 <= j /\ imports[j] = g
                 \/ \E i \in DOMAIN imports :
                      /\ i < n + 1 /\ g \in Range(Content(imports[i]))
                      /\ \A j \in DOMAIN imports : imports[j] = g => j <= i
      <4>1. CASE g \in Range(was) /\ g # f
        <5>1. CASE Pending(g)
          <6>1. PICK j \in DOMAIN imports : n <= j /\ imports[j] = g
            BY <3>3, <5>1 DEF Pending
          <6>2. j # n /\ j \in Nat
            BY <3>3, <3>5, <4>1, <6>1
          <6>3. n + 1 <= j
            BY <6>1, <6>2
          <6> QED
            BY <6>1, <6>3
        <5>2. CASE CameLate(g)
          <6>1. PICK i \in DOMAIN imports :
                  /\ i < n /\ g \in Range(Content(imports[i]))
                  /\ \A j \in DOMAIN imports : imports[j] = g => j <= i
            BY <3>3, <5>2 DEF CameLate
          <6>2. i < n + 1
            BY <3>5, <6>1
          <6> QED
            BY <6>1, <6>2
        <5> QED
          BY <3>2, <4>1, <5>1, <5>2 DEF Late
      <4>2. CASE g \in Range(Content(f))
        <5>1. CASE \E j \in DOMAIN imports : n + 1 <= j /\ imports[j] = g
          BY <5>1
        <5>2. CASE \A j \in DOMAIN imports : imports[j] = g => ~(n + 1 <= j)
          <6>1. \A j \in DOMAIN imports : imports[j] = g => j <= n
            BY <3>5, <5>2
          <6> QED
            BY <3>3, <4>2, <6>1
        <5> QED
          BY <5>1, <5>2
      <4> QED
        BY <3>4, <3>6, <4>1, <4>2
    <3> QED
      BY <2>1, <3>2, <3>3, <3>6 DEF Late, Pending, CameLate
  <2> QED
    BY <2>3, <2>4, <2>5, Turns
<1> QED
  BY <1>1, <1>2, TypedHolds, PTL DEF Spec

\* An import is left in the bundle only if it came with a file that was put in no sooner
\* than all files of that name, however deep imports nest (winx_bundler.py:21-23).
THEOREM ImportsAreLeftLate == Spec => []LeftImportsCameLate
<1>1. Typed /\ Late => LeftImportsCameLate
  <2> SUFFICES ASSUME Typed, Late, done["winx_bundler.py"] = "written",
                      NEW f \in Files, f \in Range(text["winx_bundler.py"])
               PROVE  \E i \in DOMAIN imports :
                        /\ f \in Range(Content(imports[i]))
                        /\ \A j \in DOMAIN imports : imports[j] = f => j <= i
    BY DEF LeftImportsCameLate
  <2>1. /\ next["winx_bundler.py"] > Len(imports) /\ next["winx_bundler.py"] \in Nat
        /\ DOMAIN imports = 1..Len(imports) /\ Len(imports) \in Nat
    BY ImportsAre DEF Typed, Tools
  <2>2. ~Pending(f)
    BY <2>1 DEF Pending
  <2> QED
    BY <2>2 DEF Late, CameLate
<1> QED
  BY <1>1, TypedHolds, LateHolds, PTL

-----------------------------------------------------------------------------
(* Files without imports in them.                                          *)

\* No file that is put in holds an import.
Clean == \A f \in Range(imports) : Range(Content(f)) \cap Files = {}

\* The import of t is one of the first n - 1.
Passed(t, n) == \E j \in DOMAIN imports : j < n /\ imports[j] = t

\* What has become of tokens before import n is replaced.
SoFar(n) == [t \in Tokens |-> IF Passed(t, n) THEN Strip(Content(t)) ELSE <<t>>]

\* The text is the stripped template with these put in.
Composed ==
  Clean => text["winx_bundler.py"] = Spread(Strip(template), SoFar(next["winx_bundler.py"]))

\* What is put in is text.
LEMMA SoFarIs ==
  ASSUME disk \in Disks, NEW n \in Nat, \A j \in DOMAIN imports : j < n => There(imports[j])
  PROVE  SoFar(n) \in Puts
<1>1. ASSUME NEW t \in Tokens, Passed(t, n)
      PROVE  Strip(Content(t)) \in Texts
  <2>1. There(t)
    BY <1>1 DEF Passed
  <2> QED
    BY <2>1, ReadsText
<1>2. \A t \in Tokens : <<t>> \in Texts
  BY Appended, Nothing
<1> QED
  BY <1>1, <1>2 DEF SoFar, Puts

\* Replacing import n in what has been put together so far is putting it in.
LEMMA OneMore ==
  ASSUME Typed, Clean, NEW n \in Nat, n = next["winx_bundler.py"], n \in DOMAIN imports,
         NEW f \in Files, f = imports[n], There(f), NEW by \in Texts, by = Strip(Content(f)),
         NEW s \in Texts
  PROVE  PutAll(Spread(s, SoFar(n)), f, by) = Spread(s, SoFar(n + 1))
<1>1. PICK was \in Puts : was = SoFar(n)
  BY SoFarIs DEF Typed
<1>2. PICK is \in Puts : is = SoFar(n + 1)
  <2>1. ASSUME NEW j \in DOMAIN imports, j < n + 1
        PROVE  There(imports[j])
    <3>1. j = n \/ j < n
      BY <2>1, ImportsAre DEF Typed
    <3> QED
      BY <3>1 DEF Typed
  <2>2. n + 1 \in Nat /\ disk \in Disks
    BY DEF Typed
  <2> QED
    BY <2>1, <2>2, SoFarIs
<1>3. PICK put \in Puts : put = Put(f, by)
  BY PutAllIs, Nothing
<1>4. f \in Tokens /\ DOMAIN imports \subseteq Nat /\ \A j \in DOMAIN imports : imports[j] \in Range(imports)
  BY ImportsAre, BundlerAssumption DEF Typed
<1>5. ASSUME NEW t \in Tokens
      PROVE  is[t] = Spread(was[t], put)
  <2>1. CASE Passed(t, n)
    <3>1. PICK j \in DOMAIN imports : j < n /\ imports[j] = t
      BY <2>1 DEF Passed
    <3>2. Passed(t, n + 1)
      <4>1. j < n + 1
        BY <1>4, <3>1
      <4> QED
        BY <3>1, <4>1 DEF Passed
    <3>3. PICK c \in Texts : c = Strip(Content(t)) /\ was[t] = c /\ is[t] = c
      BY <1>1, <1>2, <2>1, <3>2 DEF SoFar, Puts
    <3>4. Range(c) \cap Files = {}
      <4>1. There(t)
        <5>1. j < next["winx_bundler.py"] /\ disk \in Disks
          BY <1>4, <3>1 DEF Typed, Tools
        <5> QED
          BY <3>1, <5>1 DEF Typed
      <4>2. Range(c) \subseteq Range(Content(t))
        BY <3>3, <4>1, ReadsText DEF Typed
      <4>3. Range(Content(t)) \cap Files = {}
        BY <1>4, <3>1 DEF Clean
      <4> QED
        BY <4>2, <4>3
    <3>5. \A x \in Range(c) : put[x] = <<x>>
      BY <1>3, <3>4, Letters DEF Put
    <3>6. Spread(c, put) = c
      BY <3>5, SpreadSelf
    <3> QED
      BY <3>3, <3>6
  <2>2. CASE ~Passed(t, n) /\ t = f
    <3>1. was[t] = <<t>>
      BY <1>1, <2>2 DEF SoFar
    <3>2. Passed(t, n + 1)
      <4>1. n < n + 1
        OBVIOUS
      <4> QED
        BY <2>2, <4>1 DEF Passed
    <3>3. is[t] = by
      BY <1>2, <2>2, <3>2 DEF SoFar
    <3>4. Spread(<<t>>, put) = put[t] /\ put[t] = by
      BY <1>3, <2>2, SpreadOne DEF Put
    <3> QED
      BY <3>1, <3>3, <3>4
  <2>3. CASE ~Passed(t, n) /\ t # f
    <3>1. was[t] = <<t>>
      BY <1>1, <2>3 DEF SoFar
    <3>2. ~Passed(t, n + 1)
      <4>1. ASSUME NEW j \in DOMAIN imports, j < n + 1, imports[j] = t
            PROVE  FALSE
        <5>1. j # n /\ j \in Nat
          BY <1>4, <2>3, <4>1
        <5>2. j < n
          BY <4>1, <5>1
        <5> QED
          BY <2>3, <4>1, <5>2 DEF Passed
      <4> QED
        BY <4>1 DEF Passed
    <3>3. is[t] = <<t>>
      BY <1>2, <3>2 DEF SoFar
    <3>4. Spread(<<t>>, put) = put[t] /\ put[t] = <<t>>
      BY <1>3, <2>3, SpreadOne DEF Put
    <3> QED
      BY <3>1, <3>3, <3>4
  <2> QED
    BY <2>1, <2>2, <2>3
<1>6. Spread(Spread(s, was), put) = Spread(s, is)
  BY <1>5, SpreadTwice
<1>7. Spread(s, was) \in Texts
  BY SpreadText
<1>8. PutAll(Spread(s, was), f, by) = Spread(Spread(s, was), put)
  BY <1>3, <1>7, PutAllIs
<1> QED
  BY <1>1, <1>2, <1>6, <1>8

\* Replacing one by one is composing.
LEMMA ComposedHolds == Spec => []Composed
<1>1. Init => Composed
  <2> SUFFICES ASSUME Init
               PROVE  text["winx_bundler.py"] =
                        Spread(Strip(template), SoFar(next["winx_bundler.py"]))
    BY DEF Composed
  <2>1. text["winx_bundler.py"] = Strip(template) /\ next["winx_bundler.py"] = 1
    BY DEF Init, Tools
  <2>2. DOMAIN imports \subseteq Nat \ {0} /\ template \in Texts
    BY ImportsAre DEF Init
  <2>3. \A t : ~Passed(t, 1)
    <3>1. \A j \in Nat \ {0} : ~(j < 1)
      OBVIOUS
    <3> QED
      BY <2>2, <3>1 DEF Passed
  <2>4. \A t \in Tokens : <<t>> \in Texts
    BY Appended, Nothing
  <2>5. SoFar(1) \in Puts /\ \A t \in Tokens : SoFar(1)[t] = <<t>>
    BY <2>3, <2>4 DEF SoFar, Puts
  <2>6. Strip(template) \in Texts
    BY <2>2, StripIs
  <2>7. Range(Strip(template)) \subseteq Tokens
    BY <2>6, Letters
  <2>8. Spread(Strip(template), SoFar(1)) = Strip(template)
    BY <2>5, <2>6, <2>7, SpreadSelf
  <2> QED
    BY <2>1, <2>8
<1>2. Typed /\ Composed /\ [Next]_vars => Composed'
  <2> SUFFICES ASSUME Typed, Composed, [Next]_vars
               PROVE  Composed'
    OBVIOUS
  <2>1. UNCHANGED <<disk, template>>
    BY Turns
  <2>2. imports' = imports /\ \A f : Content(f)' = Content(f)
    BY <2>1, Steady
  <2>3. Clean' <=> Clean
    BY <2>2 DEF Clean
  <2>4. \A n : SoFar(n)' = SoFar(n)
    <3>1. \A t, n : Passed(t, n)' <=> Passed(t, n)
      BY <2>2 DEF Passed
    <3> QED
      BY <2>2, <3>1 DEF SoFar
  <2>5. Strip(template)' = Strip(template)
    BY <2>1 DEF Strip
  <2>6. /\ "winx_bundler.py" \in Tools /\ "bundle.js" \in Tools
        /\ "winx_bundler.py" # "bundle.js"
        /\ text \in [Tools -> Texts] /\ next \in [Tools -> Nat]
    BY DEF Tools, Typed
  <2>7. ASSUME text'["winx_bundler.py"] = text["winx_bundler.py"],
               next'["winx_bundler.py"] = next["winx_bundler.py"]
        PROVE  Composed'
    BY <2>3, <2>4, <2>5, <2>7 DEF Composed
  <2>8. ASSUME NEW n \in Nat, NEW f, NEW s, Turned("bundle.js", n, f, s)
        PROVE  Composed'
    <3>1. /\ text'["winx_bundler.py"] = text["winx_bundler.py"]
          /\ next'["winx_bundler.py"] = next["winx_bundler.py"]
      BY <2>6, <2>8 DEF Turned
    <3> QED
      BY <2>7, <3>1
  <2>9. ASSUME NEW n \in Nat, NEW f \in Files,
               Turned("winx_bundler.py", n, f,
                      PutAll(text["winx_bundler.py"], f, Strip(Content(f)))),
               There(f), Clean
        PROVE  Composed'
    <3>1. PICK by \in Texts : by = Strip(Content(f))
      BY <2>9, ReadsText DEF Typed
    <3>2. PICK s \in Texts : s = Strip(template)
      <4>1. template \in Texts
        BY ImportsAre DEF Typed
      <4> QED
        BY <4>1, StripIs
    <3>3. /\ next["winx_bundler.py"] = n /\ next'["winx_bundler.py"] = n + 1
          /\ n \in DOMAIN imports /\ f = imports[n]
          /\ text'["winx_bundler.py"] = PutAll(text["winx_bundler.py"], f, by)
      BY <2>6, <2>9, <3>1 DEF Turned
    <3>4. text["winx_bundler.py"] = Spread(s, SoFar(n))
      BY <2>9, <3>2, <3>3 DEF Composed
    <3>5. PutAll(Spread(s, SoFar(n)), f, by) = Spread(s, SoFar(n + 1))
      BY <2>9, <3>1, <3>3, OneMore
    <3>6. text'["winx_bundler.py"] = Spread(Strip(template), SoFar(n + 1))
      BY <3>2, <3>3, <3>4, <3>5
    <3> QED
      BY <2>4, <2>5, <3>3, <3>6 DEF Composed
  <2>10. CASE ~Clean
    BY <2>3, <2>10 DEF Composed
  <2>11. CASE UNCHANGED <<text, next>>
    BY <2>7, <2>11
  <2> QED
    BY <2>8, <2>9, <2>10, <2>11, Turns
<1> QED
  BY <1>1, <1>2, TypedHolds, PTL DEF Spec

\* What Strip leaves of the template has none but its letters.
LEMMA StrippedTemplate ==
  ASSUME template \in Templates
  PROVE  Strip(template) \in Texts /\ Range(Strip(template)) \subseteq Range(template)
<1>1. template \in Texts
  BY ImportsAre
<1>2. PICK a \in Texts, b \in Texts :
        Strip(template) \in Texts /\ template = Then(a, Then(Strip(template), b))
  BY <1>1, StripIs
<1>3. Then(Strip(template), b) \in Texts
  BY <1>2, Joined
<1>4. Range(template) = Range(a) \cup (Range(Strip(template)) \cup Range(b))
  BY <1>2, <1>3, Letters
<1> QED
  BY <1>2, <1>4

\* When the bundle is written, all imports are put in.
LEMMA PutTogether ==
  ASSUME Typed, Composed, done["winx_bundler.py"] = "written", Clean,
         NEW m, m = next["winx_bundler.py"]
  PROVE  /\ SoFar(m) \in Puts /\ text["winx_bundler.py"] = Spread(Strip(template), SoFar(m))
         /\ \A t \in Tokens :
              t \in Range(template) =>
                SoFar(m)[t] = IF t \in Files THEN Strip(Content(t)) ELSE <<t>>
<1>1. m \in Nat /\ m > Len(imports) /\ disk \in Disks /\ template \in Templates
  BY DEF Typed, Tools
<1>2. SoFar(m) \in Puts
  BY <1>1, SoFarIs DEF Typed
<1>3. \A t \in Range(template) : Passed(t, m) <=> t \in Files
  <2>1. /\ Len(imports) \in Nat /\ DOMAIN imports = 1..Len(imports)
        /\ Range(imports) = Range(template) \cap Files
        /\ \A j \in DOMAIN imports : imports[j] \in Files
    BY <1>1, ImportsAre
  <2>2. \A j \in DOMAIN imports : j < m
    BY <1>1, <2>1
  <2>3. ASSUME NEW t \in Range(template), t \in Files
        PROVE  Passed(t, m)
    <3>1. t \in Range(imports)
      BY <2>1, <2>3
    <3>2. PICK j \in DOMAIN imports : imports[j] = t
      BY <3>1 DEF Range
    <3> QED
      BY <2>2, <3>2 DEF Passed
  <2>4. ASSUME NEW t \in Range(template), Passed(t, m)
        PROVE  t \in Files
    BY <2>1, <2>4 DEF Passed
  <2> QED
    BY <2>3, <2>4
<1>4. \A t \in Tokens : SoFar(m)[t] = IF Passed(t, m) THEN Strip(Content(t)) ELSE <<t>>
  BY DEF SoFar
<1> QED
  BY <1>2, <1>3, <1>4 DEF Composed

\* If no file that is put in holds an import, the bundle is the template with each import
\* replaced by its file and nothing else changed, however many there are, in whatever
\* order (winx_bundler.py:20-23).
THEOREM WholeFilesAreComposed == Spec => []ComposesWholeFiles
<1>1. Typed /\ Composed => ComposesWholeFiles
  <2> DEFINE Whole == [t \in Tokens |-> IF t \in Files THEN Strip(Content(t)) ELSE <<t>>]
  <2> SUFFICES ASSUME Typed, Composed, done["winx_bundler.py"] = "written", Clean
               PROVE  text["winx_bundler.py"] = Spread(Strip(template), Whole)
    BY DEF ComposesWholeFiles, Clean
  <2>1. PICK m : m = next["winx_bundler.py"]
    OBVIOUS
  <2>2. SoFar(m) \in Puts /\ text["winx_bundler.py"] = Spread(Strip(template), SoFar(m))
    BY <2>1, PutTogether
  <2>3. PICK s \in Texts : s = Strip(template) /\ Range(s) \subseteq Range(template)
    BY StrippedTemplate DEF Typed
  <2>4. \A t \in Range(s) : Whole[t] = SoFar(m)[t]
    <3> TAKE t \in Range(s)
    <3>1. t \in Tokens /\ t \in Range(template)
      BY <2>3, Letters
    <3>2. SoFar(m)[t] = IF t \in Files THEN Strip(Content(t)) ELSE <<t>>
      BY <2>1, <3>1, PutTogether
    <3> QED
      BY <3>1, <3>2
  <2> HIDE DEF Whole
  <2>5. Spread(s, Whole) = Spread(s, SoFar(m))
    BY <2>2, <2>4, SpreadAlike
  <2> QED
    BY <2>2, <2>3, <2>5
<1> QED
  BY <1>1, TypedHolds, ComposedHolds, PTL

-----------------------------------------------------------------------------
(* The twin.                                                               *)

\* Files that are in one place only, and have neither imports nor patterns in them.
Free == \A f \in Range(imports) : Alone(f) /\ Range(Content(f)) \cap (Files \cup {Pattern}) = {}

\* What the twin puts in.
JsPut == [t \in Tokens |-> IF t \in Files THEN safe_read_file(t) ELSE <<t>>]

\* It has replaced all imports of the beginning a of the template, and none of the rest b.
Halfway(a, b) ==
  /\ template = Then(a, b) /\ Len(Spread(a, Found)) + 1 = next["bundle.js"]
  /\ text["bundle.js"] = Then(Spread(a, JsPut), b)
OneByOne == Free => \E a, b \in Texts : Halfway(a, b)

\* What the twin reads is what the bundler reads, but for white space.
LEMMA TwinReads ==
  ASSUME Free, NEW f \in Range(imports)
  PROVE  There(f) /\ safe_read_file(f) = Content(f)
<1>1. Alone(f)
  BY DEF Free
<1>2. CASE Exists(".", f) /\ ~Exists("polyfills", f)
  BY <1>2 DEF There, safe_read_file, Content
<1>3. CASE ~Exists(".", f) /\ Exists("polyfills", f)
  BY <1>3 DEF There, safe_read_file, Content
<1>4. \/ Exists(".", f) /\ ~Exists("polyfills", f)
      \/ ~Exists(".", f) /\ Exists("polyfills", f)
  BY <1>1 DEF Alone, Exists
<1> QED
  BY <1>2, <1>3, <1>4

\* What is put in has no imports in it.
LEMMA TwinPuts ==
  ASSUME Free, disk \in Disks, template \in Templates
  PROVE  /\ JsPut \in Puts
         /\ \A a \in Texts : Range(a) \subseteq Range(template) =>
                               Range(Spread(a, JsPut)) \cap Files = {}
<1>1. JsPut \in Puts
  <2>1. \A t \in Tokens : <<t>> \in Texts /\ safe_read_file(t) \in Texts
    BY Appended, Nothing, ReadsText
  <2> QED
    BY <2>1 DEF JsPut, Puts
<1>2. ASSUME NEW a \in Texts, Range(a) \subseteq Range(template)
      PROVE  Range(Spread(a, JsPut)) \cap Files = {}
  <2>1. Range(Spread(a, JsPut)) = UNION {Range(JsPut[t]) : t \in Range(a)}
    BY <1>1, SpreadLetters
  <2>2. ASSUME NEW t \in Range(a)
        PROVE  Range(JsPut[t]) \cap Files = {}
    <3>1. t \in Tokens /\ t \in Range(template)
      BY <1>2, Letters
    <3>2. CASE t \in Files
      <4>1. t \in Range(imports)
        BY <3>1, <3>2, ImportsAre
      <4>2. JsPut[t] = Content(t)
        BY <3>1, <3>2, <4>1, TwinReads DEF JsPut
      <4> QED
        BY <4>1, <4>2 DEF Free
    <3>3. CASE t \notin Files
      <4>1. JsPut[t] = <<t>>
        BY <3>1, <3>3 DEF JsPut
      <4> QED
        BY <3>3, <4>1, Letters
    <3> QED
      BY <3>2, <3>3
  <2> QED
    BY <2>1, <2>2
<1> QED
  BY <1>1, <1>2

\* The imports are those of the beginning and those of the rest.
LEMMA Halves ==
  ASSUME template \in Templates, NEW a \in Texts, NEW b \in Texts, template = Then(a, b)
  PROVE  \E A, B \in Texts : /\ A = Spread(a, Found) /\ B = Spread(b, Found)
                             /\ imports = Then(A, B) /\ Len(imports) = Len(A) + Len(B)
                             /\ Len(A) \in Nat /\ Len(B) \in Nat
<1>1. PICK A \in Texts, B \in Texts : A = Spread(a, Found) /\ B = Spread(b, Found)
  BY FoundIs
<1>2. imports = Then(A, B)
  BY <1>1, FoundIs, SpreadThen, ImportsAre
<1> QED
  BY <1>1, <1>2, Lengths

\* Replacing the next import, which is the first of the rest.
LEMMA OneTaken ==
  ASSUME Typed, Free, NEW a \in Texts, NEW b \in Texts, Halfway(a, b),
         NEW n \in Nat, n = next["bundle.js"], n \in DOMAIN imports,
         NEW f \in Files, f = imports[n]
  PROVE  \E c, d \in Texts :
           /\ template = Then(c, d) /\ Len(Spread(c, Found)) + 1 = n + 1
           /\ PutFirst(text["bundle.js"], f, safe_read_file(f)) = Then(Spread(c, JsPut), d)
<1>1. /\ disk \in Disks /\ template \in Templates /\ template = Then(a, b)
      /\ f \in Tokens /\ f \in Range(imports) /\ n <= Len(imports)
  <2>1. disk \in Disks /\ template \in Templates /\ template = Then(a, b)
    BY DEF Typed, Halfway
  <2>2. f \in Tokens /\ f \in Range(imports) /\ n <= Len(imports)
    BY <2>1, ImportsAre, BundlerAssumption
  <2> QED
    BY <2>1, <2>2
<1>2. PICK A \in Texts, B \in Texts :
        /\ A = Spread(a, Found) /\ B = Spread(b, Found)
        /\ imports = Then(A, B) /\ Len(imports) = Len(A) + Len(B)
        /\ Len(A) \in Nat /\ Len(B) \in Nat
  BY <1>1, Halves
<1>3. n = Len(A) + 1 /\ Len(B) >= 1
  <2>1. n = Len(A) + 1
    BY <1>2 DEF Halfway
  <2> QED
    BY <1>1, <1>2, <2>1
<1>4. f = B[1]
  BY <1>2, <1>3 DEF Texts, Then
<1>5. Found \in Puts /\ \A t \in Tokens \ Files : Found[t] = << >>
  BY FoundIs DEF Found
<1>6. Range(b) \cap Files # {}
  <2> SUFFICES ASSUME Range(b) \cap Files = {}
               PROVE  FALSE
    OBVIOUS
  <2>1. Range(b) \subseteq Tokens \ Files
    BY Letters
  <2>2. B = << >>
    BY <1>2, <1>5, <2>1, SpreadGone
  <2> QED
    BY <1>3, <2>2
<1>7. PICK c \in Texts, d \in Texts, g \in Files \cap Tokens :
        b = Then(c, Then(<<g>>, d)) /\ Range(c) \cap Files = {}
  BY <1>6, First, ZenonT(40)
<1>8. PICK o \in Texts : o = <<g>> /\ Len(o) = 1 /\ o[1] = g
  BY Appended
<1>9. Then(o, d) \in Texts /\ Then(c, o) \in Texts
  BY <1>8, Joined
<1>10. Range(c) \subseteq Tokens \ Files
  BY <1>7, Letters
<1>11. Spread(c, Found) = << >> /\ Spread(o, Found) = o
  <2>1. Spread(<<g>>, Found) = Found[g] /\ Found[g] = <<g>>
    BY <1>5, SpreadOne DEF Found
  <2> QED
    BY <1>5, <1>8, <1>10, <2>1, SpreadGone
<1>12. f = g
  <2>1. PICK D \in Texts : D = Spread(d, Found)
    BY FoundIs
  <2>2. B = Then(<< >>, Then(o, D))
    BY <1>2, <1>5, <1>7, <1>8, <1>9, <1>11, <2>1, SpreadThen
  <2>3. B = Then(o, D)
    BY <2>1, <2>2, Nothing, Joined
  <2>4. Then(o, D)[1] = o[1]
    BY <1>8 DEF Texts, Then
  <2> QED
    BY <1>4, <1>8, <2>3, <2>4
<1>13. PICK by \in Texts : by = safe_read_file(f) /\ by = Content(f)
  BY <1>1, ReadsText, TwinReads
<1>14. Range(by) \cap (Files \cup {Pattern}) = {}
  BY <1>1, <1>13 DEF Free
<1>15. PutAll(by, Pattern, <<f>>) = by
  <2>1. PICK put \in Puts : put = Put(Pattern, o) /\ PutAll(by, Pattern, o) = Spread(by, put)
    BY PutAllIs
  <2>2. \A t \in Range(by) : put[t] = <<t>>
    BY <1>14, <2>1, Letters DEF Put
  <2>3. Spread(by, put) = by
    BY <2>2, SpreadSelf
  <2> QED
    BY <1>8, <1>12, <2>1, <2>3
<1>16. JsPut \in Puts /\ Range(a) \subseteq Range(template)
  BY <1>1, TwinPuts, Letters
<1>17. PICK S \in Texts : S = Spread(a, JsPut) /\ f \notin Range(S)
  <2>1. Spread(a, JsPut) \in Texts
    BY <1>16, SpreadText
  <2>2. Range(Spread(a, JsPut)) \cap Files = {}
    BY <1>1, <1>16, TwinPuts
  <2> QED
    BY <2>1, <2>2
<1>18. PICK e \in Texts : e = Then(S, c) /\ f \notin Range(e)
  <2>1. Then(S, c) \in Texts /\ Range(Then(S, c)) = Range(S) \cup Range(c)
    BY Joined, Letters
  <2> QED
    BY <1>7, <1>17, <2>1
<1>19. text["bundle.js"] = Then(e, Then(o, d))
  <2>1. text["bundle.js"] = Then(S, Then(c, Then(o, d)))
    BY <1>7, <1>8, <1>17 DEF Halfway
  <2> QED
    BY <1>9, <1>18, <2>1, Together
<1>20. PutFirst(text["bundle.js"], f, by) = Then(e, Then(by, d))
  BY <1>1, <1>8, <1>12, <1>15, <1>18, <1>19, PutFirstIs
<1>21. PICK h \in Texts : h = Then(a, Then(c, o))
  BY <1>9, Joined
<1>22. template = Then(h, d)
  <2>1. template = Then(a, Then(c, Then(o, d)))
    BY <1>1, <1>7, <1>8
  <2>2. Then(c, Then(o, d)) = Then(Then(c, o), d)
    BY Together
  <2> QED
    BY <1>9, <1>21, <2>1, <2>2, Together
<1>23. Len(Spread(h, Found)) + 1 = n + 1
  <2>1. Spread(h, Found) = Then(A, Then(<< >>, o))
    BY <1>2, <1>5, <1>9, <1>11, <1>21, SpreadThen
  <2>2. Spread(h, Found) = Then(A, o)
    BY <2>1, Nothing
  <2>3. Len(Then(A, o)) = Len(A) + 1
    BY <1>8, Lengths
  <2> QED
    BY <1>3, <2>2, <2>3
<1>24. Spread(h, JsPut) = Then(S, Then(c, by))
  <2>1. \A t \in Tokens \ Files : JsPut[t] = <<t>>
    BY DEF JsPut
  <2>2. Spread(c, JsPut) = c
    BY <1>10, <1>16, <2>1, SpreadSelf
  <2>3. Spread(o, JsPut) = JsPut[g]
    BY <1>8, <1>16, SpreadOne
  <2>4. JsPut[g] = by
    BY <1>12, <1>13 DEF JsPut
  <2> QED
    BY <1>9, <1>16, <1>17, <1>21, <2>2, <2>3, <2>4, SpreadThen
<1>25. Then(e, Then(by, d)) = Then(Spread(h, JsPut), d)
  <2>1. Then(S, Then(c, by)) = Then(e, by)
    BY <1>18, Together
  <2> QED
    BY <1>18, <1>24, <2>1, Together
<1> QED
  BY <1>13, <1>20, <1>22, <1>23, <1>25

\* The twin replaces the imports one by one.
LEMMA OneByOneHolds == Spec => []OneByOne
<1>1. Init => OneByOne
  <2> SUFFICES ASSUME Init
               PROVE  Halfway(<< >>, template) /\ template \in Texts
    BY Nothing DEF OneByOne
  <2>1. template \in Texts /\ template = Then(<< >>, template)
    BY ImportsAre, Nothing DEF Init
  <2>2. text["bundle.js"] = template /\ next["bundle.js"] = 1
    BY DEF Init, Tools
  <2>3. \A t \in Tokens : <<t>> \in Texts /\ safe_read_file(t) \in Texts
    BY Appended, Nothing, ReadsText DEF Init
  <2>4. JsPut \in Puts
    BY <2>3 DEF JsPut, Puts
  <2>5. Spread(<< >>, JsPut) = << >> /\ Spread(<< >>, Found) = << >>
    BY <2>4, FoundIs, SpreadNothing
  <2> QED
    BY <2>1, <2>2, <2>5 DEF Halfway
<1>2. Typed /\ OneByOne /\ [Next]_vars => OneByOne'
  <2> SUFFICES ASSUME Typed, OneByOne, [Next]_vars, Free'
               PROVE  \E a, b \in Texts : Halfway(a, b)'
    BY DEF OneByOne
  <2>1. UNCHANGED <<disk, template>>
    BY Turns
  <2>2. imports' = imports /\ \A f : Content(f)' = Content(f)
    BY <2>1, Steady
  <2>3. Free
    BY <2>1, <2>2 DEF Free, Alone, Exists
  <2>4. JsPut' = JsPut
    BY <2>1 DEF JsPut, safe_read_file, Exists
  <2>5. PICK a \in Texts, b \in Texts : Halfway(a, b)
    BY <2>3 DEF OneByOne
  <2>6. /\ "winx_bundler.py" \in Tools /\ "bundle.js" \in Tools
        /\ "winx_bundler.py" # "bundle.js"
        /\ text \in [Tools -> Texts] /\ next \in [Tools -> Nat]
    BY DEF Tools, Typed
  <2>7. ASSUME text'["bundle.js"] = text["bundle.js"], next'["bundle.js"] = next["bundle.js"]
        PROVE  Halfway(a, b)'
    BY <2>1, <2>4, <2>5, <2>7 DEF Halfway
  <2>8. ASSUME NEW n \in Nat, NEW f, NEW s, Turned("winx_bundler.py", n, f, s)
        PROVE  Halfway(a, b)'
    <3>1. text'["bundle.js"] = text["bundle.js"] /\ next'["bundle.js"] = next["bundle.js"]
      BY <2>6, <2>8 DEF Turned
    <3> QED
      BY <2>7, <3>1
  <2>9. ASSUME NEW n \in Nat, NEW f \in Files,
               Turned("bundle.js", n, f, PutFirst(text["bundle.js"], f, safe_read_file(f)))
        PROVE  \E c, d \in Texts : Halfway(c, d)'
    <3>1. /\ next["bundle.js"] = n /\ next'["bundle.js"] = n + 1
          /\ n \in DOMAIN imports /\ f = imports[n]
          /\ text'["bundle.js"] = PutFirst(text["bundle.js"], f, safe_read_file(f))
      BY <2>6, <2>9 DEF Turned
    <3>2. PICK c \in Texts, d \in Texts :
            /\ template = Then(c, d) /\ Len(Spread(c, Found)) + 1 = n + 1
            /\ PutFirst(text["bundle.js"], f, safe_read_file(f)) = Then(Spread(c, JsPut), d)
      BY <2>3, <2>5, <3>1, OneTaken
    <3>3. Halfway(c, d)'
      BY <2>1, <2>4, <3>1, <3>2 DEF Halfway
    <3> QED
      BY <3>3
  <2>10. CASE UNCHANGED <<text, next>>
    BY <2>7, <2>10
  <2> QED
    BY <2>5, <2>8, <2>9, <2>10, Turns
<1> QED
  BY <1>1, <1>2, TypedHolds, PTL DEF Spec

\* Taking white space away.
NoBlank == Put(Blank, << >>)

\* What Strip takes away is white space.
LEMMA StripsBlanks ==
  /\ NoBlank \in Puts
  /\ \A s \in Texts : NoBlanks(s) = Spread(s, NoBlank)
  /\ \A s \in Texts : Strip(s) \in Texts /\ Spread(Strip(s), NoBlank) = Spread(s, NoBlank)
<1>1. PICK nb \in Puts : nb = NoBlank /\ nb[Blank] = << >>
  <2>1. NoBlank \in Puts
    BY Nothing, PutAllIs DEF NoBlank
  <2>2. NoBlank[Blank] = << >>
    BY BundlerAssumption DEF NoBlank, Put
  <2> QED
    BY <2>1, <2>2
<1>2. \A s \in Texts : NoBlanks(s) = Spread(s, NoBlank)
  BY Nothing, PutAllIs DEF NoBlanks, NoBlank
<1>3. ASSUME NEW s \in Texts
      PROVE  Strip(s) \in Texts /\ Spread(Strip(s), nb) = Spread(s, nb)
  <2>1. PICK a \in Texts, b \in Texts :
          /\ Strip(s) \in Texts /\ s = Then(a, Then(Strip(s), b))
          /\ Range(a) \subseteq {Blank} /\ Range(b) \subseteq {Blank}
    BY StripIs
  <2>2. PICK c \in Texts : c = Strip(s) /\ s = Then(a, Then(c, b)) /\ Then(c, b) \in Texts
    BY <2>1, Joined
  <2>3. \A t \in {Blank} : nb[t] = << >>
    BY <1>1
  <2>4. Spread(a, nb) = << >> /\ Spread(b, nb) = << >>
    BY <2>1, <2>3, SpreadGone
  <2>5. PICK r \in Texts : r = Spread(c, nb)
    BY SpreadText
  <2>6. Spread(s, nb) = Then(<< >>, Then(r, << >>))
    <3>1. PICK e \in Texts : e = Then(c, b)
      BY <2>2
    <3>2. Spread(Then(a, e), nb) = Then(<< >>, Spread(e, nb))
      BY <2>4, SpreadThen
    <3>3. Spread(e, nb) = Then(r, << >>)
      BY <2>4, <2>5, <3>1, SpreadThen
    <3> QED
      BY <2>2, <3>1, <3>2, <3>3
  <2> QED
    BY <2>2, <2>5, <2>6, Nothing
<1> QED
  BY <1>1, <1>2, <1>3

\* When the twin is done, it has put in all files.
LEMMA TwinComposes ==
  ASSUME Typed, OneByOne, done["bundle.js"] = "written", Free
  PROVE  JsPut \in Puts /\ text["bundle.js"] = Spread(template, JsPut)
<1>1. disk \in Disks /\ template \in Templates /\ next["bundle.js"] > Len(imports)
  BY DEF Typed, Tools
<1>2. PICK a \in Texts, b \in Texts : Halfway(a, b)
  BY DEF OneByOne
<1>3. template = Then(a, b)
  BY <1>2 DEF Halfway
<1>4. PICK A \in Texts, B \in Texts :
        /\ A = Spread(a, Found) /\ B = Spread(b, Found)
        /\ Len(imports) = Len(A) + Len(B) /\ Len(A) \in Nat /\ Len(B) \in Nat
  BY <1>1, <1>3, Halves
<1>5. B = << >>
  <2>1. Len(A) + 1 = next["bundle.js"]
    BY <1>2, <1>4 DEF Halfway
  <2>2. Len(B) = 0
    BY <1>1, <1>4, <2>1
  <2> QED
    BY <2>2 DEF Texts
<1>6. Range(b) \cap Files = {}
  BY <1>4, <1>5, FoundIs, Letters
<1>7. JsPut \in Puts
  BY <1>1, TwinPuts
<1>8. Spread(b, JsPut) = b
  <2>1. Range(b) \subseteq Tokens \ Files
    BY <1>6, Letters
  <2>2. \A t \in Tokens \ Files : JsPut[t] = <<t>>
    BY DEF JsPut
  <2> QED
    BY <1>7, <2>1, <2>2, SpreadSelf
<1>9. text["bundle.js"] = Then(Spread(a, JsPut), b)
  BY <1>2 DEF Halfway
<1> QED
  BY <1>3, <1>7, <1>8, <1>9, SpreadThen

\* The bundler and its twin make the same bundle, white space aside, of files that are in
\* one place only and hold neither imports nor patterns, although the one replaces all
\* statements of a name and the other the first (winx_bundler.py:20-23, bundle.js:16-23).
THEOREM TwinsMakeTheSame == Spec => []TwinsAgree
<1>1. Typed /\ Composed /\ OneByOne => TwinsAgree
  <2> SUFFICES ASSUME Typed, Composed, OneByOne, Free,
                      done["winx_bundler.py"] = "written", done["bundle.js"] = "written"
               PROVE  NoBlanks(text["bundle.js"]) = NoBlanks(text["winx_bundler.py"])
    BY DEF TwinsAgree, Free, Tools
  <2>1. disk \in Disks /\ template \in Templates /\ template \in Texts
    BY ImportsAre DEF Typed
  <2>2. PICK nb \in Puts :
          /\ nb = NoBlank
          /\ \A s \in Texts : /\ NoBlanks(s) = Spread(s, nb)
                              /\ Strip(s) \in Texts /\ Spread(Strip(s), nb) = Spread(s, nb)
    BY StripsBlanks
  <2>3. Clean
    BY DEF Clean, Free
  <2>4. PICK m : m = next["winx_bundler.py"]
    OBVIOUS
  <2>5. PICK was \in Puts : was = SoFar(m) /\ text["winx_bundler.py"] = Spread(Strip(template), was)
    BY <2>3, <2>4, PutTogether
  <2>6. PICK put \in Puts : put = JsPut /\ text["bundle.js"] = Spread(template, put)
    BY TwinComposes
  <2>7. PICK one \in Puts : \A t \in Tokens : one[t] = Spread(was[t], nb)
    <3>1. \A t \in Tokens : Spread(was[t], nb) \in Texts
      BY SpreadText DEF Puts
    <3>2. [t \in Tokens |-> Spread(was[t], nb)] \in Puts
      BY <3>1 DEF Puts
    <3> QED
      BY <3>2
  <2>8. PICK two \in Puts : \A t \in Tokens : two[t] = Spread(put[t], nb)
    <3>1. \A t \in Tokens : Spread(put[t], nb) \in Texts
      BY SpreadText DEF Puts
    <3>2. [t \in Tokens |-> Spread(put[t], nb)] \in Puts
      BY <3>1 DEF Puts
    <3> QED
      BY <3>2
  <2>9. PICK s \in Texts, a \in Texts, b \in Texts :
          /\ s = Strip(template) /\ template = Then(a, Then(s, b)) /\ Then(s, b) \in Texts
          /\ Range(a) \subseteq {Blank} /\ Range(b) \subseteq {Blank}
    BY <2>1, StripIs, Joined
  <2>10. NoBlanks(text["winx_bundler.py"]) = Spread(s, one)
    <3>1. Spread(s, was) \in Texts
      BY SpreadText
    <3>2. Spread(Spread(s, was), nb) = Spread(s, one)
      BY <2>7, SpreadTwice
    <3> QED
      BY <2>2, <2>5, <2>9, <3>1, <3>2
  <2>11. NoBlanks(text["bundle.js"]) = Spread(template, two)
    <3>1. Spread(template, put) \in Texts
      BY <2>1, SpreadText
    <3>2. Spread(Spread(template, put), nb) = Spread(template, two)
      BY <2>1, <2>8, SpreadTwice
    <3> QED
      BY <2>2, <2>6, <3>1, <3>2
  <2>12. Spread(template, two) = Spread(s, two)
    <3>1. two[Blank] = << >>
      <4>1. Blank \in Tokens \ Files
        BY BundlerAssumption
      <4>2. put[Blank] = <<Blank>>
        BY <2>6, <4>1 DEF JsPut
      <4>3. Spread(<<Blank>>, nb) = nb[Blank]
        BY <4>1, SpreadOne
      <4>4. nb[Blank] = << >>
        BY <2>2, <4>1 DEF NoBlank, Put
      <4> QED
        BY <2>8, <4>1, <4>2, <4>3, <4>4
    <3>2. \A t \in {Blank} : two[t] = << >>
      BY <3>1
    <3>3. Spread(a, two) = << >> /\ Spread(b, two) = << >>
      BY <2>9, <3>2, SpreadGone
    <3>4. PICK r \in Texts : r = Spread(s, two)
      BY SpreadText
    <3>5. Spread(template, two) = Then(<< >>, Then(r, << >>))
      <4>1. PICK e \in Texts : e = Then(s, b)
        BY <2>9
      <4>2. Spread(Then(a, e), two) = Then(<< >>, Spread(e, two))
        BY <3>3, SpreadThen
      <4>3. Spread(e, two) = Then(r, << >>)
        BY <3>3, <3>4, <4>1, SpreadThen
      <4> QED
        BY <2>9, <4>1, <4>2, <4>3
    <3> QED
      BY <3>4, <3>5, Nothing
  <2>13. \A t \in Range(s) : one[t] = two[t]
    <3> TAKE t \in Range(s)
    <3>1. t \in Tokens /\ t \in Range(template)
      BY <2>9, Letters
    <3>2. was[t] = IF t \in Files THEN Strip(Content(t)) ELSE <<t>>
      BY <2>3, <2>4, <2>5, <3>1, PutTogether
    <3>3. CASE t \in Files
      <4>1. t \in Range(imports)
        BY <2>1, <3>1, <3>3, ImportsAre
      <4>2. PICK c \in Texts : c = Content(t) /\ c = safe_read_file(t)
        BY <2>1, <4>1, ReadsText, TwinReads
      <4>3. was[t] = Strip(c) /\ put[t] = c
        BY <2>6, <3>1, <3>2, <3>3, <4>2 DEF JsPut
      <4>4. Spread(Strip(c), nb) = Spread(c, nb)
        BY <2>2
      <4> QED
        BY <2>7, <2>8, <3>1, <4>3, <4>4
    <3>4. CASE t \notin Files
      <4>1. was[t] = <<t>> /\ put[t] = <<t>>
        BY <2>6, <3>1, <3>2, <3>4 DEF JsPut
      <4> QED
        BY <2>7, <2>8, <3>1, <4>1
    <3> QED
      BY <3>3, <3>4
  <2>14. Spread(s, one) = Spread(s, two)
    BY <2>13, SpreadAlike
  <2> QED
    BY <2>10, <2>11, <2>12, <2>14
<1> QED
  BY <1>1, TypedHolds, ComposedHolds, OneByOneHolds, PTL
=============================================================================
