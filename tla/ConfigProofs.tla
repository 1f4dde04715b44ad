---------------------------- MODULE ConfigProofs ----------------------------
(***************************************************************************)
(* Proofs about the configuration: that the flags of a [v8] table reach V8 *)
(* with their values, for every table, and whatever flags V8 has.          *)
(*                                                                         *)
(* First, what the two recursive functions of Config are: Reading, V8's    *)
(* state after each word, and Written, the words of the first entries.     *)
(* Then what one word does; where the words of an entry come to stand; and *)
(* by induction along the words, that V8 reads on until it comes to an     *)
(* entry, that this sets its flag, and that the flag stands to the end.    *)
(***************************************************************************)
EXTENDS Config, SequenceTheorems, TLAPS

INSTANCE TextLemmas WITH Letter <- Nat

\* What V8 knows while it reads, of flags with the values V.
Known(V) == [flags: [DOMAIN Flags -> V], expects: {None} \cup DOMAIN Flags, stopped: BOOLEAN]

\* What it knows before the first word.
Ignorant == [flags |-> [f \in DOMAIN Flags |-> None], expects |-> None, stopped |-> FALSE]

\* What setting a flag changes.
LEMMA SetTyped ==
  ASSUME NEW V, None \in V, Garbled \in V, NEW s \in Known(V),
         NEW f \in DOMAIN Flags, NEW v \in V, NEW ok \in BOOLEAN
  PROVE  /\ SetFlag(s, f, v, ok) \in Known(V)
         /\ SetFlag(s, f, v, ok).flags =
              [s.flags EXCEPT ![f] = IF Flags[f] = "bool" \/ Reads(f, v) THEN v ELSE Garbled]
         /\ SetFlag(s, f, v, ok).expects = None
         /\ SetFlag(s, f, v, ok).stopped = ~ok
  BY DEF SetFlag, Known

\* Every word leaves V8 knowing values in V, if the word's own is in V.
LEMMA TakeTyped ==
  ASSUME None \notin DOMAIN Flags, NEW V, {None, Garbled, "true", "false"} \subseteq V,
         NEW s \in Known(V), NEW w, w.value \in V
  PROVE  TakeWord(s, w) \in Known(V)
<1>0. s.stopped \in BOOLEAN /\ s.expects \in {None} \cup DOMAIN Flags
  BY DEF Known
<1>1. CASE s.stopped
  BY <1>1 DEF TakeWord
<1>2. CASE ~s.stopped /\ s.expects # None
  <2>1. PICK v : v = IF w.name = None THEN w.value ELSE Garbled
    OBVIOUS
  <2>2. TakeWord(s, w) = SetFlag(s, s.expects, v, Reads(s.expects, v))
    BY <1>2, <2>1 DEF TakeWord
  <2>3. PICK f \in DOMAIN Flags : f = s.expects
    BY <1>0, <1>2
  <2>4. v \in V /\ Reads(f, v) \in BOOLEAN
    BY <2>1 DEF Reads
  <2>5. SetFlag(s, f, v, Reads(f, v)) \in Known(V)
    BY <2>4, SetTyped
  <2> QED
    BY <2>2, <2>3, <2>5
<1>3. CASE ~s.stopped /\ s.expects = None
  <2>1. CASE w.name = None
    <3>1. TakeWord(s, w) = s
      BY <1>3, <2>1 DEF TakeWord
    <3> QED
      BY <3>1
  <2>2. CASE w.name # None /\ w.name \notin DOMAIN Flags
    <3>1. TakeWord(s, w) = [s EXCEPT !.stopped = TRUE]
      BY <1>3, <2>2 DEF TakeWord
    <3> QED
      BY <3>1 DEF Known
  <2>3. CASE w.name # None /\ w.name \in DOMAIN Flags /\ Flags[w.name] = "bool"
    <3>1. TakeWord(s, w) = SetFlag(s, w.name, IF w.no THEN "false" ELSE "true", w.value = None)
      BY <1>3, <2>3 DEF TakeWord
    <3>2. (IF w.no THEN "false" ELSE "true") \in V /\ (w.value = None) \in BOOLEAN
      OBVIOUS
    <3>3. SetFlag(s, w.name, IF w.no THEN "false" ELSE "true", w.value = None) \in Known(V)
      BY <2>3, <3>2, SetTyped
    <3> QED
      BY <3>1, <3>3
  <2>4. CASE w.name # None /\ w.name \in DOMAIN Flags /\ Flags[w.name] # "bool"
    <3>1. TakeWord(s, w) = IF w.value = None THEN [s EXCEPT !.expects = w.name]
                           ELSE SetFlag(s, w.name, w.value, Reads(w.name, w.value))
      BY <1>3, <2>4 DEF TakeWord
    <3>2. [s EXCEPT !.expects = w.name] \in Known(V)
      BY <2>4 DEF Known
    <3>3. SetFlag(s, w.name, w.value, Reads(w.name, w.value)) \in Known(V)
      BY <2>4, SetTyped DEF Reads
    <3> QED
      BY <3>1, <3>2, <3>3
  <2> QED
    BY <2>1, <2>2, <2>3, <2>4
<1> QED
  BY <1>0, <1>1, <1>2, <1>3

\* g tells what V8 knows after each of the first n words.
IsReading(g, words, n) ==
  g = [i \in 0..n |-> IF i = 0 THEN Ignorant ELSE TakeWord(g[i - 1], words[i])]

\* The same, without saying on what numbers g is defined.
ReadsThem(g, words, n) ==
  g[0] = Ignorant /\ \A i \in 1..n : g[i] = TakeWord(g[i - 1], words[i])

\* No word leads out of the set S.
StaysIn(S, words, n) == \A i \in 1..n : \A s \in S : TakeWord(s, words[i]) \in S

\* There is a function that tells what V8 knows after each word.
LEMMA ReadsOn ==
  ASSUME NEW S, Ignorant \in S, NEW words, NEW n \in Nat, StaysIn(S, words, n)
  PROVE  \E f \in [0..n -> S] : ReadsThem(f, words, n)
<1>1. PICK G \in [1..n -> [S -> S]] :
        G = [i \in 1..n |-> [s \in S |-> TakeWord(s, words[i])]]
  BY DEF StaysIn
<1>2. PICK x \in S : x = Ignorant
  OBVIOUS
<1>3. PICK f \in [0..n -> S] : Unrolls(f, x, G, n)
  BY Recursion
<1>4. ASSUME NEW i \in 1..n
      PROVE  f[i] = TakeWord(f[i - 1], words[i])
  <2>1. i - 1 \in 0..n
    OBVIOUS
  <2> QED
    BY <1>1, <1>3, <2>1 DEF Unrolls
<1> QED
  BY <1>2, <1>3, <1>4 DEF ReadsThem, Unrolls

\* There is only one.
LEMMA ReadsOneWay ==
  ASSUME NEW words, NEW n \in Nat, NEW S,
         NEW f \in [0..n -> S], ReadsThem(f, words, n)
  PROVE  /\ IsReading(f, words, n)
         /\ \A g : IsReading(g, words, n) => g = f
<1>1. IsReading(f, words, n)
  <2>1. \A i \in 0..n : f[i] = IF i = 0 THEN Ignorant ELSE TakeWord(f[i - 1], words[i])
    BY DEF ReadsThem
  <2> QED
    BY <2>1 DEF IsReading
<1>2. ASSUME NEW g, IsReading(g, words, n)
      PROVE  g = f
  <2>1. g[0] = Ignorant /\ \A i \in 1..n : g[i] = TakeWord(g[i - 1], words[i])
    BY <1>2 DEF IsReading
  <2> DEFINE K == {k \in Nat : k <= n => g[k] = f[k]}
  <2>2. 0 \in K
    BY <2>1 DEF ReadsThem
  <2>3. ASSUME NEW k \in Nat, k \in K
        PROVE  k + 1 \in K
    <3> SUFFICES ASSUME k + 1 <= n
                 PROVE  g[k + 1] = f[k + 1]
      OBVIOUS
    <3>1. k + 1 \in 1..n /\ (k + 1) - 1 = k /\ g[k] = f[k]
      BY <2>3
    <3>2. g[k + 1] = TakeWord(g[k], words[k + 1]) /\ f[k + 1] = TakeWord(f[k], words[k + 1])
      BY <2>1, <3>1 DEF ReadsThem
    <3> QED
      BY <3>1, <3>2
  <2> HIDE DEF K
  <2>4. Nat \subseteq K
    BY <2>2, <2>3, Climb
  <2> USE DEF K
  <2>5. \A k \in 0..n : g[k] = f[k]
    BY <2>4
  <2>6. g = [i \in 0..n |-> g[i]]
    BY <1>2 DEF IsReading
  <2> QED
    BY <2>5, <2>6
<1> QED
  BY <1>1, <1>2

\* So it is the one that the definition chooses.
LEMMA ReadsAll ==
  ASSUME NEW S, Ignorant \in S, NEW words, NEW n \in Nat, StaysIn(S, words, n)
  PROVE  \E f \in [0..n -> S] :
           f = (CHOOSE g : IsReading(g, words, n)) /\ ReadsThem(f, words, n)
<1>1. PICK f \in [0..n -> S] : ReadsThem(f, words, n)
  BY ReadsOn
<1>2. IsReading(f, words, n) /\ \A g : IsReading(g, words, n) => g = f
  BY <1>1, ReadsOneWay
<1>3. f = CHOOSE g : IsReading(g, words, n)
  BY <1>2
<1> QED
  BY <1>1, <1>3

\* Reading tells what V8 knows after each word.
LEMMA ReadingIs ==
  ASSUME None \notin DOMAIN Flags, NEW V, {None, Garbled, "true", "false"} \subseteq V,
         NEW words, NEW n \in Nat, \A i \in 1..n : words[i].value \in V
  PROVE  \E A \in [0..n -> Known(V)] :
           (Len(words) = n => A = Reading(words)) /\ ReadsThem(A, words, n)
<1>1. Ignorant \in Known(V)
  BY DEF Ignorant, Known
<1>2. StaysIn(Known(V), words, n)
  BY TakeTyped DEF StaysIn
<1>3. PICK A \in [0..n -> Known(V)] :
        A = (CHOOSE g : IsReading(g, words, n)) /\ ReadsThem(A, words, n)
  BY <1>1, <1>2, ReadsAll
<1>4. Len(words) = n => (CHOOSE g : IsReading(g, words, n)) = Reading(words)
  BY Zenon DEF Reading, IsReading, Ignorant
<1> QED
  BY <1>3, <1>4, Zenon

-----------------------------------------------------------------------------
\* g tells the words that the first of n entries are written as.
IsWritten(g, v8, n) ==
  g = [i \in 0..n |-> IF i = 0 THEN << >> ELSE Then(g[i - 1], Words(v8[i]))]

\* The same, without saying on what numbers g is defined.
WritesThem(g, v8, n) ==
  g[0] = << >> /\ \A i \in 1..n : g[i] = Then(g[i - 1], Words(v8[i]))

\* There is a function that tells the words of the first entries.
LEMMA WritesOn ==
  ASSUME NEW W, NEW v8, NEW n \in Nat, \A i \in 1..n : Words(v8[i]) \in Seq(W)
  PROVE  \E f \in [0..n -> Seq(W)] : WritesThem(f, v8, n)
<1>1. PICK G \in [1..n -> [Seq(W) -> Seq(W)]] :
        G = [i \in 1..n |-> [s \in Seq(W) |-> Then(s, Words(v8[i]))]]
  <2>1. \A i \in 1..n : \A s \in Seq(W) : Then(s, Words(v8[i])) \in Seq(W)
    BY ConcatProperties DEF Then
  <2> QED
    BY <2>1
<1>2. PICK x \in Seq(W) : x = << >>
  BY EmptySeq
<1>3. PICK f \in [0..n -> Seq(W)] : Unrolls(f, x, G, n)
  BY Recursion
<1>4. ASSUME NEW i \in 1..n
      PROVE  f[i] = Then(f[i - 1], Words(v8[i]))
  <2>1. i - 1 \in 0..n /\ f[i - 1] \in Seq(W)
    BY <1>2
  <2> QED
    BY <1>1, <1>3, <2>1 DEF Unrolls
<1> QED
  BY <1>2, <1>3, <1>4 DEF WritesThem, Unrolls

\* There is only one.
LEMMA WritesOneWay ==
  ASSUME NEW v8, NEW n \in Nat, NEW S, NEW f \in [0..n -> S], WritesThem(f, v8, n)
  PROVE  /\ IsWritten(f, v8, n)
         /\ \A g : IsWritten(g, v8, n) => g = f
<1>1. IsWritten(f, v8, n)
  <2>1. ASSUME NEW i \in 0..n
        PROVE  f[i] = IF i = 0 THEN << >> ELSE Then(f[i - 1], Words(v8[i]))
    <3>1. CASE i = 0
      BY <3>1 DEF WritesThem
    <3>2. CASE i \in 1..n
      <4>1. i # 0 /\ f[i] = Then(f[i - 1], Words(v8[i]))
        BY <3>2 DEF WritesThem
      <4> QED
        BY <4>1, Zenon
    <3> QED
      BY <3>1, <3>2
  <2> QED
    BY <2>1 DEF IsWritten
<1>2. ASSUME NEW g, IsWritten(g, v8, n)
      PROVE  g = f
  <2>1. g[0] = << >> /\ \A i \in 1..n : g[i] = Then(g[i - 1], Words(v8[i]))
    BY <1>2 DEF IsWritten
  <2> DEFINE K == {k \in Nat : k <= n => g[k] = f[k]}
  <2>2. 0 \in K
    BY <2>1 DEF WritesThem
  <2>3. ASSUME NEW k \in Nat, k \in K
        PROVE  k + 1 \in K
    <3> SUFFICES ASSUME k + 1 <= n
                 PROVE  g[k + 1] = f[k + 1]
      OBVIOUS
    <3>1. k + 1 \in 1..n /\ (k + 1) - 1 = k /\ g[k] = f[k]
      BY <2>3
    <3>2. g[k + 1] = Then(g[k], Words(v8[k + 1])) /\ f[k + 1] = Then(f[k], Words(v8[k + 1]))
      BY <2>1, <3>1 DEF WritesThem
    <3> QED
      BY <3>1, <3>2
  <2> HIDE DEF K
  <2>4. Nat \subseteq K
    BY <2>2, <2>3, Climb
  <2> USE DEF K
  <2>5. \A k \in 0..n : g[k] = f[k]
    BY <2>4
  <2>6. g = [i \in 0..n |-> g[i]]
    BY <1>2 DEF IsWritten
  <2> QED
    BY <2>5, <2>6
<1> QED
  BY <1>1, <1>2

\* Written tells the words of the first entries.
LEMMA WrittenIs ==
  ASSUME NEW W, NEW v8, NEW n \in Nat, \A i \in 1..n : Words(v8[i]) \in Seq(W)
  PROVE  \E T \in [0..n -> Seq(W)] :
           (Len(v8) = n => T = Written(v8)) /\ WritesThem(T, v8, n)
<1>1. PICK T \in [0..n -> Seq(W)] : WritesThem(T, v8, n)
  BY WritesOn
<1>2. IsWritten(T, v8, n) /\ \A g : IsWritten(g, v8, n) => g = T
  BY <1>1, WritesOneWay
<1>3. T = CHOOSE g : IsWritten(g, v8, n)
  BY <1>2
<1>4. Len(v8) = n => (CHOOSE g : IsWritten(g, v8, n)) = Written(v8)
  BY Zenon DEF Written, IsWritten, Then
<1> QED
  BY <1>1, <1>3, <1>4, Zenon

-----------------------------------------------------------------------------
\* The word with the key of an entry.
FirstWord(e) == IF e.type = "bool" THEN BoolWord(e) ELSE Word(e.key, FALSE, e.value)

\* What an entry is written as, told by length and place.
WrittenAs(e, words, n) ==
  /\ n \in Nat
  /\ Dropped(e) => n = 0
  /\ ~Dropped(e) => n >= 1 /\ words[1] = FirstWord(e)
  /\ e.more = << >> => n <= 1
  /\ \A q \in 2..n : q - 1 \in DOMAIN e.more /\ words[q] = e.more[q - 1]

\* That is how Words writes an entry (winx_config.cpp:40-54).
LEMMA WordsAre ==
  ASSUME NEW e, e.more \in Seq(Range(e.more))
  PROVE  /\ Words(e) \in Seq({FirstWord(e)} \cup Range(e.more))
         /\ WrittenAs(e, Words(e), Len(Words(e)))
<1> DEFINE W == {FirstWord(e)} \cup Range(e.more)
<1>1. PICK w \in W : w = FirstWord(e)
  OBVIOUS
<1>2. PICK m \in Seq(W) : m = e.more
  <2>1. Range(e.more) \subseteq W
    OBVIOUS
  <2> QED
    BY <2>1, SeqMonotonic
<1> HIDE DEF W
<1>3. <<w>> \in Seq(W) /\ Len(<<w>>) = 1 /\ <<w>>[1] = w
  OBVIOUS
<1>4. CASE e.type = "string"
  <2>1. Words(e) = <<w>> \o m
    BY <1>1, <1>2, <1>4 DEF Words, FirstWord
  <2>2. PICK n \in Nat : n = Len(m) /\ DOMAIN m = 1..n
    BY LenProperties
  <2>3. PICK u : u = <<w>>
    OBVIOUS
  <2>4. PICK t : t = u \o m
    OBVIOUS
  <2>5. t \in Seq(W) /\ Len(t) = 1 + n /\ \A q \in 1..(1 + n) : t[q] = IF q <= 1 THEN u[q] ELSE m[q - 1]
    BY <1>3, <2>2, <2>3, <2>4, ConcatProperties
  <2>6. Words(e) = t
    BY <2>1, <2>3, <2>4
  <2>7. t[1] = w
    BY <1>3, <2>3, <2>5
  <2>8. \A q \in 2..(1 + n) : q - 1 \in DOMAIN m /\ t[q] = m[q - 1]
    BY <2>2, <2>5
  <2>9. m = << >> => n = 0
    BY <2>2
  <2>10. WrittenAs(e, t, 1 + n)
    BY <1>1, <1>2, <1>4, <2>7, <2>8, <2>9 DEF WrittenAs, Dropped
  <2> QED
    BY <2>5, <2>6, <2>10 DEF W
<1>5. CASE e.type \in {"bool", "int"}
  <2>1. Words(e) = <<w>>
    BY <1>1, <1>5 DEF Words, FirstWord
  <2>2. WrittenAs(e, <<w>>, 1)
    BY <1>1, <1>3, <1>5 DEF WrittenAs, Dropped
  <2> QED
    BY <1>3, <2>1, <2>2 DEF W
<1>6. CASE e.type \notin {"string", "bool", "int"}
  <2>1. Words(e) = << >>
    BY <1>6 DEF Words
  <2>2. WrittenAs(e, << >>, 0)
    BY <1>6 DEF WrittenAs, Dropped
  <2>3. << >> \in Seq(W) /\ Len(<< >>) = 0
    OBVIOUS
  <2> QED
    BY <2>1, <2>2, <2>3 DEF W
<1> QED
  BY <1>4, <1>5, <1>6

\* The state in which V8 takes the next entry.
Ready(s) == ~s.stopped /\ s.expects = None

\* An entry that fits sets its flag to its value.
LEMMA FittingWord ==
  ASSUME None \notin DOMAIN Flags, NEW V, NEW s \in Known(V), Ready(s),
         NEW e, Fits(e), e.value # None,
         e.type = "bool" => e.value \in {"true", "false"}
  PROVE  /\ Ready(TakeWord(s, FirstWord(e)))
         /\ TakeWord(s, FirstWord(e)).flags[e.key] = e.value
<1>1. PICK f \in DOMAIN Flags : f = e.key
  BY DEF Fits
<1>2. ~s.stopped /\ s.expects = None /\ s.flags \in [DOMAIN Flags -> V]
  BY DEF Ready, Known
<1>3. f # None
  OBVIOUS
<1>4. CASE Flags[f] = "bool"
  <2>1. e.type = "bool"
    BY <1>1, <1>4 DEF Fits
  <2>2. PICK w : w = Word(f, e.value = "false", None)
    OBVIOUS
  <2>3. FirstWord(e) = w /\ w.name = f /\ w.no = (e.value = "false") /\ w.value = None
    BY <1>1, <2>1, <2>2 DEF FirstWord, BoolWord, Word
  <2>4. TakeWord(s, w) = SetFlag(s, f, IF e.value = "false" THEN "false" ELSE "true", TRUE)
    BY <1>2, <1>3, <1>4, <2>3 DEF TakeWord
  <2>5. TakeWord(s, w) = SetFlag(s, f, e.value, TRUE)
    BY <2>1, <2>4
  <2> QED
    BY <1>1, <1>2, <1>4, <2>3, <2>5 DEF SetFlag, Ready, Known
<1>5. CASE Flags[f] # "bool"
  <2>1. e.type # "bool" /\ Reads(f, e.value)
    BY <1>1, <1>5 DEF Fits
  <2>2. PICK w : w = Word(f, FALSE, e.value)
    OBVIOUS
  <2>3. FirstWord(e) = w /\ w.name = f /\ w.value = e.value
    BY <1>1, <2>1, <2>2 DEF FirstWord, Word
  <2>4. TakeWord(s, w) = SetFlag(s, f, e.value, TRUE)
    BY <1>2, <1>3, <1>5, <2>1, <2>3 DEF TakeWord, Reads
  <2> QED
    BY <1>1, <1>2, <1>5, <2>1, <2>3, <2>4 DEF SetFlag, Ready, Known
<1> QED
  BY <1>4, <1>5

\* A flag has its value, and no word is expected that would change it.
Stands(s, f, v) == s.flags[f] = v /\ s.expects # f

\* A word that does not name the flag leaves it alone, whatever V8 makes of it.
LEMMA OtherWord ==
  ASSUME None \notin DOMAIN Flags, NEW V, NEW s \in Known(V),
         NEW f \in DOMAIN Flags, NEW v, Stands(s, f, v), NEW w, w.name # f
  PROVE  Stands(TakeWord(s, w), f, v)
<1>1. ASSUME NEW g \in DOMAIN Flags, g # f, NEW x, NEW ok
      PROVE  Stands(SetFlag(s, g, x, ok), f, v)
  BY <1>1 DEF SetFlag, Stands, Known
<1>2. CASE s.stopped
  BY <1>2 DEF TakeWord
<1>3. CASE ~s.stopped /\ s.expects # None
  <2>1. s.expects \in DOMAIN Flags /\ s.expects # f
    BY <1>3 DEF Known, Stands
  <2>2. PICK x : x = IF w.name = None THEN w.value ELSE Garbled
    OBVIOUS
  <2>3. TakeWord(s, w) = SetFlag(s, s.expects, x, Reads(s.expects, x))
    BY <1>3, <2>2 DEF TakeWord
  <2> QED
    BY <1>1, <2>1, <2>3
<1>4. CASE ~s.stopped /\ s.expects = None
  <2>1. CASE w.name = None
    <3>1. TakeWord(s, w) = s
      BY <1>4, <2>1 DEF TakeWord
    <3> QED
      BY <3>1
  <2>2. CASE w.name # None /\ w.name \notin DOMAIN Flags
    <3>1. TakeWord(s, w) = [s EXCEPT !.stopped = TRUE]
      BY <1>4, <2>2 DEF TakeWord
    <3> QED
      BY <3>1 DEF Known, Stands
  <2>3. CASE w.name # None /\ w.name \in DOMAIN Flags /\ Flags[w.name] = "bool"
    <3>1. TakeWord(s, w) = SetFlag(s, w.name, IF w.no THEN "false" ELSE "true", w.value = None)
      BY <1>4, <2>3 DEF TakeWord
    <3> QED
      BY <1>1, <2>3, <3>1
  <2>4. CASE w.name # None /\ w.name \in DOMAIN Flags /\ Flags[w.name] # "bool"
    <3>1. TakeWord(s, w) = IF w.value = None THEN [s EXCEPT !.expects = w.name]
                           ELSE SetFlag(s, w.name, w.value, Reads(w.name, w.value))
      BY <1>4, <2>4 DEF TakeWord
    <3>2. Stands([s EXCEPT !.expects = w.name], f, v)
      BY DEF Known, Stands
    <3>3. Stands(SetFlag(s, w.name, w.value, Reads(w.name, w.value)), f, v)
      BY <1>1, <2>4
    <3> QED
      BY <3>1, <3>2, <3>3
  <2> QED
    BY <2>1, <2>2, <2>3, <2>4
<1> QED
  BY <1>2, <1>3, <1>4

-----------------------------------------------------------------------------
\* T and P are the words, and the lengths, of the first entries: the words of entry i
\* are behind the first P[i - 1].
Placed(v8, l, T, P) ==
  /\ P \in [0..l -> Nat] /\ P[0] = 0
  /\ \A i \in 1..l :
       /\ Len(Words(v8[i])) \in Nat /\ P[i] = P[i - 1] + Len(Words(v8[i]))
       /\ \A p \in 1..P[i] :
            T[i][p] = IF p <= P[i - 1] THEN T[i - 1][p] ELSE Words(v8[i])[p - P[i - 1]]

\* The same, with what the words of each entry are.
LaidOut(v8, l, T, P) ==
  /\ Placed(v8, l, T, P)
  /\ \A i \in 1..l : WrittenAs(v8[i], Words(v8[i]), Len(Words(v8[i])))

\* The words of the first j entries are the first ones of the first i entries too.
StillThere(T, P, j, i) == P[j] <= P[i] /\ \A p \in 1..P[j] : T[i][p] = T[j][p]

\* Where the words of the entries end up.
LEMMA Layout ==
  ASSUME NEW W, NEW v8, NEW l \in Nat, \A i \in 1..l : Words(v8[i]) \in Seq(W),
         NEW T \in [0..l -> Seq(W)], WritesThem(T, v8, l),
         NEW P, P = [i \in 0..l |-> Len(T[i])]
  PROVE  Placed(v8, l, T, P)
<1>1. P \in [0..l -> Nat]
  <2>1. \A i \in 0..l : Len(T[i]) \in Nat
    BY LenProperties
  <2> QED
    BY <2>1
<1>2. P[0] = 0
  BY DEF WritesThem
<1>3. ASSUME NEW i \in 1..l
      PROVE  /\ Len(Words(v8[i])) \in Nat /\ P[i] = P[i - 1] + Len(Words(v8[i]))
             /\ \A p \in 1..P[i] :
                  T[i][p] = IF p <= P[i - 1] THEN T[i - 1][p] ELSE Words(v8[i])[p - P[i - 1]]
  <2>1. i - 1 \in 0..l /\ i \in 0..l
    OBVIOUS
  <2>2. PICK a \in Seq(W), b \in Seq(W) : a = T[i - 1] /\ b = Words(v8[i])
    BY <2>1
  <2>6. PICK c : c = Then(a, b)
    OBVIOUS
  <2>3. T[i] = c
    BY <2>2, <2>6 DEF WritesThem
  <2>4. /\ Len(c) = Len(a) + Len(b) /\ Len(b) \in Nat
        /\ \A p \in 1..(Len(a) + Len(b)) : c[p] = IF p <= Len(a) THEN a[p] ELSE b[p - Len(a)]
    BY <2>2, <2>6, ConcatProperties, LenProperties, ZenonT(40) DEF Then
  <2>5. P[i] = Len(c) /\ P[i - 1] = Len(a)
    BY <2>1, <2>2, <2>3
  <2> QED
    BY <2>2, <2>3, <2>4, <2>5
<1> QED
  BY <1>1, <1>2, <1>3, Zenon DEF Placed

\* What is written first stays there.
LEMMA Stays ==
  ASSUME NEW v8, NEW l \in Nat, NEW T, NEW P, Placed(v8, l, T, P), NEW j \in 0..l
  PROVE  \A i \in j..l : StillThere(T, P, j, i)
<1> DEFINE K == {d \in Nat : j + d <= l => StillThere(T, P, j, j + d)}
<1>1. 0 \in K
  BY DEF StillThere, Placed
<1>2. ASSUME NEW d \in Nat, d \in K
      PROVE  d + 1 \in K
  <2> SUFFICES ASSUME j + (d + 1) <= l
               PROVE  StillThere(T, P, j, j + (d + 1))
    OBVIOUS
  <2>1. PICK i \in 1..l : i = j + (d + 1) /\ i - 1 = j + d /\ i - 1 \in 0..l /\ i \in 0..l
    OBVIOUS
  <2>2. P[j] <= P[i - 1] /\ \A p \in 1..P[j] : T[i - 1][p] = T[j][p]
    BY <1>2, <2>1 DEF StillThere
  <2>3. P[j] \in Nat /\ P[i - 1] \in Nat /\ P[i] \in Nat /\ P[i - 1] <= P[i]
    BY <2>1 DEF Placed
  <2>4. \A p \in 1..P[j] : p \in 1..P[i] /\ p <= P[i - 1] /\ T[i][p] = T[i - 1][p]
    <3>1. \A p \in 1..P[i] : p <= P[i - 1] => T[i][p] = T[i - 1][p]
      BY Zenon DEF Placed
    <3>2. \A p \in 1..P[j] : p \in 1..P[i] /\ p <= P[i - 1]
      BY <2>2, <2>3
    <3> QED
      BY <3>1, <3>2
  <2>5. StillThere(T, P, j, i)
    BY <2>2, <2>3, <2>4 DEF StillThere
  <2> QED
    BY <2>1, <2>5
<1>3. Nat \subseteq K
  <2> HIDE DEF K
  <2> QED
    BY <1>1, <1>2, Climb
<1> SUFFICES ASSUME NEW i \in j..l
             PROVE  StillThere(T, P, j, i)
  OBVIOUS
<1>4. PICK d \in Nat : d = i - j /\ j + d = i /\ i <= l
  OBVIOUS
<1>5. d \in K
  BY <1>3
<1> QED
  BY <1>4, <1>5

\* The words behind place a + 1, up to place n, name other flags than f.
OnlyOthers(words, a, n, f) == \A p \in (a + 2)..n : words[p].name # f

\* No word behind the one that sets the flag of entry i names that flag.
LEMMA OthersFollow ==
  ASSUME NEW v8, NEW l \in Nat, NEW T, NEW P, LaidOut(v8, l, T, P),
         NEW i \in 1..l, NEW f, \A j \in (i + 1)..l : v8[j].key # f,
         \A j \in i..l : \A k \in DOMAIN v8[j].more : v8[j].more[k].name # f
  PROVE  OnlyOthers(T[l], P[i - 1], P[l], f)
<1>1. ASSUME NEW j \in 1..l, j >= i, NEW q \in 1..Len(Words(v8[j])), j # i \/ q # 1
      PROVE  Words(v8[j])[q].name # f
  <2>1. WrittenAs(v8[j], Words(v8[j]), Len(Words(v8[j])))
    BY DEF LaidOut, Placed
  <2>2. PICK n : n = Len(Words(v8[j]))
    OBVIOUS
  <2>3. CASE q = 1
    <3>1. j \in (i + 1)..l
      BY <1>1, <2>3
    <3>2. n \in Nat /\ 1 <= n /\ ~Dropped(v8[j])
      BY <2>1, <2>2, <2>3 DEF WrittenAs
    <3>3. Words(v8[j])[q] = FirstWord(v8[j])
      BY <2>1, <2>3, <3>2 DEF WrittenAs
    <3>4. FirstWord(v8[j]).name = v8[j].key
      BY DEF FirstWord, BoolWord, Word
    <3> QED
      BY <3>1, <3>3, <3>4
  <2>4. CASE q # 1
    <3>1. q \in 2..n
      BY <2>1, <2>2, <2>4 DEF WrittenAs
    <3>2. q - 1 \in DOMAIN v8[j].more /\ Words(v8[j])[q] = v8[j].more[q - 1]
      BY <2>1, <2>2, <3>1 DEF WrittenAs
    <3>3. j \in i..l
      BY <1>1
    <3> QED
      BY <3>2, <3>3
  <2> QED
    BY <2>3, <2>4
<1> DEFINE K == {d \in Nat : i + d <= l =>
                   \A p \in (P[i - 1] + 2)..P[i + d] : T[i + d][p].name # f}
<1>2. P[i - 1] \in Nat /\ P[i] \in Nat
  BY DEF LaidOut, Placed
<1>3. 0 \in K
  <2> SUFFICES ASSUME NEW p \in (P[i - 1] + 2)..P[i]
               PROVE  T[i][p].name # f
    OBVIOUS
  <2>1. PICK q : q = p - P[i - 1]
    OBVIOUS
  <2>2. Len(Words(v8[i])) \in Nat /\ P[i] = P[i - 1] + Len(Words(v8[i]))
    BY DEF LaidOut, Placed
  <2>3. q \in 1..Len(Words(v8[i])) /\ q # 1 /\ p \in 1..P[i] /\ ~(p <= P[i - 1])
    BY <1>2, <2>1, <2>2, SMTT(30)
  <2>4. T[i][p] = Words(v8[i])[q]
    BY <2>1, <2>3 DEF LaidOut, Placed
  <2>5. Words(v8[i])[q].name # f
    BY <1>1, <2>3
  <2> QED
    BY <2>4, <2>5
<1>4. ASSUME NEW d \in Nat, d \in K
      PROVE  d + 1 \in K
  <2> SUFFICES ASSUME i + (d + 1) <= l, NEW p \in (P[i - 1] + 2)..P[i + (d + 1)]
               PROVE  T[i + (d + 1)][p].name # f
    OBVIOUS
  <2>1. PICK j \in 1..l : j = i + (d + 1) /\ j - 1 = i + d /\ j - 1 \in 0..l /\ j >= i /\ j # i
    OBVIOUS
  <2>2. /\ Len(Words(v8[j])) \in Nat /\ P[j] = P[j - 1] + Len(Words(v8[j]))
        /\ P[j - 1] \in Nat /\ P[j] \in Nat
    BY <2>1 DEF LaidOut, Placed
  <2>3. p \in 1..P[j] /\ p >= P[i - 1] + 2
    BY <1>2, <2>1, <2>2
  <2>4. T[j][p] = IF p <= P[j - 1] THEN T[j - 1][p] ELSE Words(v8[j])[p - P[j - 1]]
    BY <2>3 DEF LaidOut, Placed
  <2>5. CASE p <= P[j - 1]
    <3>1. p \in (P[i - 1] + 2)..P[j - 1]
      BY <1>2, <2>2, <2>3, <2>5
    <3>2. T[j - 1][p].name # f
      BY <1>4, <2>1, <3>1
    <3> QED
      BY <2>1, <2>4, <2>5, <3>2
  <2>6. CASE ~(p <= P[j - 1])
    <3>1. PICK q \in 1..Len(Words(v8[j])) : q = p - P[j - 1]
      BY <2>2, <2>3, <2>6, SMTT(30)
    <3>2. Words(v8[j])[q].name # f
      BY <1>1, <2>1
    <3> QED
      BY <2>1, <2>4, <2>6, <3>1, <3>2
  <2> QED
    BY <2>5, <2>6
<1>5. Nat \subseteq K
  <2> HIDE DEF K
  <2> QED
    BY <1>3, <1>4, Climb
<1>6. PICK d \in Nat : d = l - i /\ i + d = l
  OBVIOUS
<1>7. d \in K
  BY <1>5
<1> QED
  BY <1>6, <1>7 DEF OnlyOthers

\* V8 reads on until it comes to entry i.
LEMMA ReadyForIt ==
  ASSUME None \notin DOMAIN Flags, NEW v8, NEW l \in Nat, NEW T, NEW P, LaidOut(v8, l, T, P),
         \A j \in 0..l : \A p \in 1..P[j] : p \in 1..P[l] /\ T[l][p] = T[j][p],
         NEW V, NEW A \in [0..P[l] -> Known(V)], ReadsThem(A, T[l], P[l]),
         NEW i \in 1..l,
         \A j \in 1..(i - 1) : Dropped(v8[j]) \/ (Fits(v8[j]) /\ v8[j].more = << >>),
         \A j \in 1..l : /\ v8[j].value # None
                         /\ v8[j].type = "bool" => v8[j].value \in {"true", "false"}
  PROVE  Ready(A[P[i - 1]])
<1> DEFINE K == {j \in Nat : j <= i - 1 => Ready(A[P[j]])}
<1>1. 0 \in K
  BY DEF LaidOut, Placed, ReadsThem, Ready, Ignorant
<1>2. ASSUME NEW h \in Nat, h \in K
      PROVE  h + 1 \in K
  <2> SUFFICES ASSUME h + 1 <= i - 1
               PROVE  Ready(A[P[h + 1]])
    OBVIOUS
  <2>1. PICK j \in 1..l : j = h + 1 /\ j - 1 = h /\ j \in 1..(i - 1) /\ h \in 0..l /\ j \in 0..l
    OBVIOUS
  <2>2. PICK n \in Nat : n = Len(Words(v8[j])) /\ P[j] = P[h] + n
    BY <2>1, ZenonT(40) DEF LaidOut, Placed
  <2>3. WrittenAs(v8[j], Words(v8[j]), n)
    BY <2>2 DEF LaidOut, Placed
  <2>4. Ready(A[P[h]]) /\ P[h] \in Nat /\ P[j] \in Nat /\ P[l] \in Nat
    BY <1>2, <2>1 DEF LaidOut, Placed
  <2>5. CASE Dropped(v8[j])
    <3>1. n = 0
      BY <2>3, <2>5 DEF WrittenAs
    <3> QED
      BY <2>1, <2>2, <2>4, <3>1
  <2>6. CASE Fits(v8[j]) /\ v8[j].more = << >>
    <3>1. n = 1 /\ Words(v8[j])[1] = FirstWord(v8[j])
      BY <2>3, <2>6 DEF WrittenAs, Fits, Dropped
    <3>2. PICK p \in Nat, a \in Nat : p = P[j] /\ a = P[h]
      BY <2>4
    <3>3. p = a + 1 /\ p \in 1..p /\ p - 1 = a /\ ~(p <= a) /\ p - a = 1
      <4>1. P[j] = P[h] + n
        BY <2>2
      <4>2. p = a + 1
        BY <3>1, <3>2, <4>1
      <4> QED
        BY <3>2, <4>2
    <3>4. T[j][p] = FirstWord(v8[j])
      <4>1. T[j][p] = IF p <= P[j - 1] THEN T[j - 1][p] ELSE Words(v8[j])[p - P[j - 1]]
        BY <3>2, <3>3 DEF LaidOut, Placed
      <4>2. P[j - 1] = a
        BY <2>1, <3>2
      <4> QED
        BY <3>1, <3>3, <4>1, <4>2
    <3>5. p \in 1..P[l] /\ T[l][p] = T[j][p]
      BY <2>1, <3>2, <3>3
    <3>6. A[p] = TakeWord(A[P[h]], FirstWord(v8[j]))
      BY <3>2, <3>3, <3>4, <3>5, ZenonT(40) DEF ReadsThem
    <3>7. A[P[h]] \in Known(V)
      <4>1. p = a + 1
        BY <3>3
      <4>2. P[h] \in 0..P[l]
        BY <2>4, <3>2, <3>5, <4>1
      <4> QED
        BY <4>2
    <3>8. Ready(TakeWord(A[P[h]], FirstWord(v8[j])))
      BY <2>4, <2>6, <3>7, FittingWord
    <3> QED
      BY <2>1, <3>2, <3>6, <3>8
  <2> QED
    BY <2>1, <2>5, <2>6
<1>3. Nat \subseteq K
  <2> HIDE DEF K
  <2> QED
    BY <1>1, <1>2, Climb
<1>4. i - 1 \in Nat /\ i - 1 <= i - 1
  OBVIOUS
<1>5. i - 1 \in K
  BY <1>3, <1>4
<1> QED
  BY <1>4, <1>5

\* Once the first word of entry i has set its flag, and as none behind it names
\* that flag, the flag stands.
LEMMA StandsToTheEnd ==
  ASSUME None \notin DOMAIN Flags, NEW l \in Nat, NEW n \in Nat, NEW words,
         NEW V, NEW A \in [0..n -> Known(V)], ReadsThem(A, words, n),
         NEW a \in Nat, a + 1 <= n, NEW f \in DOMAIN Flags, NEW v, Stands(A[a + 1], f, v),
         \A p \in (a + 2)..n : words[p].name # f
  PROVE  Stands(A[n], f, v)
<1> DEFINE K == {d \in Nat : a + 1 + d <= n => Stands(A[a + 1 + d], f, v)}
<1>1. 0 \in K
  OBVIOUS
<1>2. ASSUME NEW d \in Nat, d \in K
      PROVE  d + 1 \in K
  <2> SUFFICES ASSUME a + 1 + (d + 1) <= n
               PROVE  Stands(A[a + 1 + (d + 1)], f, v)
    OBVIOUS
  <2>1. PICK p \in Nat : p = a + 1 + (d + 1)
    OBVIOUS
  <2>2. p \in 1..n /\ p - 1 = a + 1 + d /\ p - 1 \in 0..n /\ p \in (a + 2)..n
    BY <2>1
  <2>3. Stands(A[p - 1], f, v) /\ A[p - 1] \in Known(V)
    BY <1>2, <2>2
  <2>4. A[p] = TakeWord(A[p - 1], words[p])
    BY <2>2 DEF ReadsThem
  <2>5. words[p].name # f
    BY <2>2
  <2>6. Stands(TakeWord(A[p - 1], words[p]), f, v)
    BY <2>3, <2>5, OtherWord
  <2> QED
    BY <2>1, <2>4, <2>6
<1>3. Nat \subseteq K
  <2> HIDE DEF K
  <2> QED
    BY <1>1, <1>2, Climb
<1>4. PICK d \in Nat : d = n - (a + 1) /\ a + 1 + d = n
  OBVIOUS
<1>5. d \in K
  BY <1>3
<1> QED
  BY <1>4, <1>5

\* How the words of a table are laid out, and that V8 reads them.
LEMMA TablesAreRead ==
  ASSUME None \notin DOMAIN Flags, NEW v8, Table(v8)
  PROVE  \E l \in Nat :
           /\ l = Len(v8) /\ DOMAIN v8 = 1..l
           /\ \E T, P, A : /\ LaidOut(v8, l, T, P) /\ T = Written(v8)
                          /\ P[l] = Len(T[l])
                          /\ A \in [0..P[l] -> Known(Values(v8))]
                          /\ ReadsThem(A, T[l], P[l]) /\ A = Reading(T[l])
<1>1. PICK l \in Nat : l = Len(v8) /\ DOMAIN v8 = 1..l
  BY LenProperties DEF Table
<1>2. \A i \in 1..l : /\ Words(v8[i]) \in Seq({FirstWord(v8[i])} \cup Range(v8[i].more))
                      /\ WrittenAs(v8[i], Words(v8[i]), Len(Words(v8[i])))
  BY <1>1, WordsAre DEF Table
<1>3. PICK W : W = UNION {{FirstWord(v8[i])} \cup Range(v8[i].more) : i \in 1..l}
  OBVIOUS
<1>4. ASSUME NEW i \in 1..l
      PROVE  Words(v8[i]) \in Seq(W)
  <2>1. {FirstWord(v8[i])} \cup Range(v8[i].more) \subseteq W
    BY <1>3
  <2> QED
    BY <1>2, <2>1, SeqMonotonic
<1>5. PICK T \in [0..l -> Seq(W)] : (Len(v8) = l => T = Written(v8)) /\ WritesThem(T, v8, l)
  BY <1>4, WrittenIs
<1>6. PICK P : P = [i \in 0..l |-> Len(T[i])]
  OBVIOUS
<1>7. LaidOut(v8, l, T, P)
  <2>1. WritesThem(T, v8, l)
    BY <1>5
  <2>2. Placed(v8, l, T, P)
    BY <1>4, <1>6, <2>1, Layout
  <2> QED
    BY <1>2, <2>2 DEF LaidOut
<1>8. PICK n \in Nat : n = P[l] /\ n = Len(T[l])
  BY <1>6, <1>7 DEF LaidOut, Placed
<1>9. PICK V : V = Values(v8)
  OBVIOUS
<1>10. PICK words \in Seq(W) : words = T[l]
  OBVIOUS
<1>11. {None, Garbled, "true", "false"} \subseteq V /\ \A p \in 1..n : words[p].value \in V
  <2>1. ASSUME NEW w \in W
        PROVE  w.value \in V
    <3>1. PICK i \in 1..l : w = FirstWord(v8[i]) \/ w \in Range(v8[i].more)
      BY <1>3
    <3>2. CASE w = FirstWord(v8[i])
      <4>1. w.value = None \/ w.value = v8[i].value
        BY <3>2 DEF FirstWord, BoolWord, Word
      <4>2. None \in V
        BY <1>9 DEF Values
      <4>3. v8[i].value \in V
        <5>1. PICK each : each = [k \in 1..l |-> {v8[k].value} \cup {u.value : u \in Range(v8[k].more)}]
          OBVIOUS
        <5>2. V = {None, Garbled, "true", "false"} \cup UNION {each[k] : k \in 1..l}
          <6>1. UNION {each[k] : k \in 1..l} =
                  UNION {{v8[k].value} \cup {u.value : u \in Range(v8[k].more)} : k \in DOMAIN v8}
            BY <1>1, <5>1
          <6> QED
            BY <1>9, <6>1, Zenon DEF Values
        <5>3. v8[i].value \in each[i]
          BY <5>1
        <5> QED
          BY <5>2, <5>3
      <4> QED
        BY <4>1, <4>2, <4>3
    <3>3. CASE w \in Range(v8[i].more)
      <4>1. w.value \in {u.value : u \in Range(v8[i].more)}
        BY <3>3
      <4>2. {u.value : u \in Range(v8[i].more)} \subseteq V
        BY <1>1, <1>9 DEF Values
      <4> QED
        BY <4>1, <4>2
    <3> QED
      BY <3>1, <3>2, <3>3
  <2>2. \A p \in 1..n : words[p] \in W
    BY <1>8, <1>10, ElementOfSeq
  <2> QED
    BY <1>9, <2>1, <2>2 DEF Values
<1>12. PICK A \in [0..n -> Known(V)] :
         (Len(words) = n => A = Reading(words)) /\ ReadsThem(A, words, n)
  BY <1>11, ReadingIs
<1> QED
  BY <1>1, <1>5, <1>7, <1>8, <1>9, <1>10, <1>12, Zenon

\* V8's flags get values that the table has, or that V8 makes of its words.
LEMMA FlagsTyped ==
  ASSUME None \notin DOMAIN Flags, NEW config, config.parses => Table(config.v8)
  PROVE  SetFlagsFromString(get_v8_flags(config)) \in [DOMAIN Flags -> Values(config.v8)]
<1>1. PICK v8, V : v8 = config.v8 /\ V = Values(v8)
  OBVIOUS
<1>2. CASE config.parses
  <2>1. PICK l \in Nat :
          /\ l = Len(v8) /\ DOMAIN v8 = 1..l
          /\ \E T, P, A : /\ LaidOut(v8, l, T, P) /\ T = Written(v8)
                         /\ P[l] = Len(T[l])
                         /\ A \in [0..P[l] -> Known(Values(v8))]
                         /\ ReadsThem(A, T[l], P[l]) /\ A = Reading(T[l])
    BY <1>1, <1>2, TablesAreRead
  <2>2. PICK T, P, A :
          /\ LaidOut(v8, l, T, P) /\ T = Written(v8) /\ P[l] = Len(T[l])
          /\ A \in [0..P[l] -> Known(V)] /\ A = Reading(T[l])
    BY <1>1, <2>1
  <2>3. PICK n \in Nat : n = P[l]
    BY <2>2 DEF LaidOut, Placed
  <2>4. A[n] \in Known(V)
    BY <2>2, <2>3
  <2>5. SetFlagsFromString(get_v8_flags(config)) = A[n].flags
    BY <1>1, <1>2, <2>1, <2>2, <2>3 DEF SetFlagsFromString, get_v8_flags
  <2> QED
    BY <1>1, <2>4, <2>5 DEF Known
<1>3. CASE ~config.parses
  <2>1. {None, Garbled, "true", "false"} \subseteq V
    BY <1>1 DEF Values
  <2>2. PICK words : words = << >>
    OBVIOUS
  <2>8. PICK z \in Nat : z = 0
    OBVIOUS
  <2>3. \A i \in 1..z : words[i].value \in V
    BY <2>8
  <2>4. PICK A \in [0..z -> Known(V)] :
          (Len(words) = z => A = Reading(words)) /\ ReadsThem(A, words, z)
    BY <2>1, <2>3, ReadingIs
  <2>5. Len(words) = z /\ get_v8_flags(config) = words
    BY <1>3, <2>2, <2>8 DEF get_v8_flags
  <2>6. SetFlagsFromString(get_v8_flags(config)) = A[z].flags
    BY <2>4, <2>5 DEF SetFlagsFromString
  <2>7. A[z] \in Known(V)
    OBVIOUS
  <2> QED
    BY <1>1, <2>6, <2>7 DEF Known
<1> QED
  BY <1>2, <1>3

\* The flag of an entry that arrives is set to its value, whatever else is in the
\* table (winx_config.cpp:37-56).
THEOREM FlagsArrive ==
  ASSUME None \notin DOMAIN Flags, NEW config, config.parses, Table(config.v8),
         NEW i \in DOMAIN config.v8, Arrives(config.v8, i)
  PROVE  SetFlagsFromString(get_v8_flags(config))[config.v8[i].key] = config.v8[i].value
<1>1. PICK v8 : v8 = config.v8
  OBVIOUS
<1>2. PICK l \in Nat :
        /\ l = Len(v8) /\ DOMAIN v8 = 1..l
        /\ \E T, P, A : /\ LaidOut(v8, l, T, P) /\ T = Written(v8)
                       /\ P[l] = Len(T[l])
                       /\ A \in [0..P[l] -> Known(Values(v8))]
                       /\ ReadsThem(A, T[l], P[l]) /\ A = Reading(T[l])
  BY <1>1, TablesAreRead
<1>3. PICK T, P, A, V :
        /\ LaidOut(v8, l, T, P) /\ T = Written(v8) /\ P[l] = Len(T[l])
        /\ A \in [0..P[l] -> Known(V)] /\ ReadsThem(A, T[l], P[l])
        /\ A = Reading(T[l])
  BY <1>2
<1>4. PICK e : e = v8[i]
  OBVIOUS
<1>5. /\ i \in 1..l /\ Fits(e) /\ e.key \in DOMAIN Flags
      /\ \A j \in 1..(i - 1) : Dropped(v8[j]) \/ (Fits(v8[j]) /\ v8[j].more = << >>)
      /\ \A j \in i..l : \A k \in DOMAIN v8[j].more : v8[j].more[k].name # e.key
  BY <1>1, <1>2, <1>4 DEF Arrives, Fits
<1>6. /\ \A j \in 1..l : /\ v8[j].value # None
                         /\ v8[j].type = "bool" => v8[j].value \in {"true", "false"}
      /\ \A j \in (i + 1)..l : v8[j].key # e.key
  <2>1. \A j \in (i + 1)..l : j \in 1..l /\ j # i
    BY <1>5
  <2> QED
    BY <1>1, <1>2, <1>4, <1>5, <2>1 DEF Table
<1>7. \A j \in 0..l : \A p \in 1..P[j] : p \in 1..P[l] /\ T[l][p] = T[j][p]
  <2>1. \A j \in 0..l : \A k \in j..l : StillThere(T, P, j, k)
    BY <1>3, Stays DEF LaidOut
  <2>2. P[l] \in Nat /\ \A j \in 0..l : P[j] \in Nat /\ l \in j..l
    BY <1>3 DEF LaidOut, Placed
  <2>3. \A j \in 0..l : StillThere(T, P, j, l)
    BY <2>1, <2>2
  <2> QED
    BY <2>2, <2>3 DEF StillThere
<1>8. Ready(A[P[i - 1]])
  BY <1>3, <1>5, <1>6, <1>7, ReadyForIt, ZenonT(40)
<1>9. PICK a \in Nat, m \in Nat, n \in Nat :
        /\ a = P[i - 1] /\ m = Len(Words(e)) /\ P[i] = a + m /\ n = P[l]
        /\ WrittenAs(e, Words(e), m)
  <2>1. i - 1 \in 0..l /\ l \in 0..l
    BY <1>5
  <2>2. P \in [0..l -> Nat]
    BY <1>3 DEF LaidOut, Placed
  <2>3. Len(Words(e)) \in Nat /\ P[i] = P[i - 1] + Len(Words(e))
    BY <1>3, <1>4, <1>5 DEF LaidOut, Placed
  <2>4. WrittenAs(e, Words(e), Len(Words(e)))
    BY <1>3, <1>4, <1>5 DEF LaidOut
  <2> QED
    BY <2>1, <2>2, <2>3, <2>4
<1>10. m >= 1 /\ Words(e)[1] = FirstWord(e)
  BY <1>5, <1>9 DEF WrittenAs, Fits, Dropped
<1>11. PICK p \in Nat : p = a + 1 /\ p \in 1..P[i] /\ p - 1 = a /\ ~(p <= a) /\ p - a = 1
  <2>1. P[i] = a + m
    BY <1>9
  <2> QED
    BY <1>10, <2>1
<1>12. p \in 1..n /\ T[l][p] = FirstWord(e)
  <2>1. p \in 1..P[l] /\ T[l][p] = T[i][p]
    BY <1>5, <1>7, <1>11
  <2>2. T[i][p] = IF p <= P[i - 1] THEN T[i - 1][p] ELSE Words(v8[i])[p - P[i - 1]]
    BY <1>3, <1>5, <1>11 DEF LaidOut, Placed
  <2>3. T[i][p] = Words(e)[1]
    BY <1>4, <1>9, <1>11, <2>2
  <2> QED
    BY <1>9, <1>10, <2>1, <2>3
<1>13. A[p] = TakeWord(A[a], FirstWord(e)) /\ A[a] \in Known(V)
  <2>1. n = P[l]
    BY <1>9
  <2>2. a \in 0..n /\ p \in 1..n
    BY <1>11, <1>12
  <2> QED
    BY <1>3, <1>11, <1>12, <2>1, <2>2 DEF ReadsThem
<1>14. Stands(A[p], e.key, e.value)
  <2>1. e.value # None /\ (e.type = "bool" => e.value \in {"true", "false"})
    BY <1>4, <1>5, <1>6
  <2>2. Ready(A[p]) /\ A[p].flags[e.key] = e.value
    BY <1>5, <1>8, <1>9, <1>13, <2>1, FittingWord
  <2> QED
    BY <1>5, <2>2 DEF Ready, Stands
<1>15. OnlyOthers(T[l], a, n, e.key)
  <2>1. OnlyOthers(T[l], P[i - 1], P[l], e.key)
    BY <1>3, <1>5, <1>6, OthersFollow
  <2>2. a = P[i - 1] /\ n = P[l]
    BY <1>9
  <2> QED
    BY <2>1, <2>2
<1>16. Stands(A[n], e.key, e.value)
  <2>1. PICK words : words = T[l]
    OBVIOUS
  <2>2. A \in [0..n -> Known(V)] /\ ReadsThem(A, words, n)
    BY <1>3, <1>9, <2>1
  <2>3. a + 1 <= n /\ Stands(A[a + 1], e.key, e.value)
    BY <1>11, <1>12, <1>14
  <2>4. \A q \in (a + 2)..n : words[q].name # e.key
    BY <1>15, <2>1 DEF OnlyOthers
  <2> QED
    BY <1>5, <2>2, <2>3, <2>4, StandsToTheEnd
<1>17. SetFlagsFromString(get_v8_flags(config)) = A[n].flags
  BY <1>1, <1>2, <1>3, <1>9 DEF SetFlagsFromString, get_v8_flags
<1> QED
  BY <1>1, <1>4, <1>16, <1>17 DEF Stands
=============================================================================
