----------------------------- MODULE StdStreams -----------------------------
(***************************************************************************)
(* What the file bindings of Winx take from the C++ library, the operating *)
(* system and V8: C strings, UTF-8 decoding, 32-bit sizes and writing at   *)
(* an offset.  None of it is code of this repository; every operator is    *)
(* modelled from how src/winx_fs.hpp and src/winx_util.cpp use it.         *)
(*                                                                         *)
(* A file is a sequence of bytes.  A byte stands for one well-formed       *)
(* character of text, except the three marks below.                        *)
(***************************************************************************)
EXTENDS Integers, Sequences, FiniteSets

CONSTANTS
  Byte,     \* every byte a file can hold, the marks Nul, Bad and Repl included
  Nul,      \* the character U+0000
  Bad,      \* a byte that is not UTF-8
  Repl,     \* U+FFFD, what V8 decodes Bad to
  Junk,     \* a byte of memory nobody initialized: not a byte of any file
  IntRange, \* how many values a C++ int has: 2^32 in the build
  MaxString \* String::kMaxLength: the longest text V8 makes a string of

ASSUME ByteAssumption == {Nul, Bad, Repl} \subseteq Byte /\ Junk \notin Byte
ASSUME IntRangeAssumption ==
  IntRange \in Nat \ {0} /\ IntRange % 2 = 0 /\ MaxString \in Nat

\* Text is what a JavaScript string holds once encoded: never a malformed byte.
Text == Seq(Byte \ {Bad})

\* The std::string built from the char* of s: it ends before the first Nul,
\* that is, it has the positions no Nul is at or before.
CStr(s) ==
  SubSeq(s, 1, Cardinality({k \in DOMAIN s : \A j \in 1..k : s[j] # Nul}))

\* String::NewFromUtf8: every malformed byte is replaced, nothing fails.
Decode(s) == [k \in DOMAIN s |-> IF s[k] = Bad THEN Repl ELSE s[k]]

\* The value of an int assigned a file size n: two's complement wrap-around.
ToInt(n) ==
  LET r == n % IntRange
  IN  IF r < IntRange \div 2 THEN r ELSE r - IntRange

\* The n bytes of a fresh array of which only those of s were ever written.
Fill(s, n) == [k \in 1..n |-> IF k <= Len(s) THEN s[k] ELSE Junk]

\* The file s after b is written at offset p; a gap reads back as Nul.
WriteAt(s, p, b) ==
  LET end == p + Len(b)
      len == IF end > Len(s) THEN end ELSE Len(s)
  IN  IF b = << >>
      THEN s
      ELSE [k \in 1..len |->
              IF k > p /\ k <= end THEN b[k - p]
              ELSE IF k <= Len(s) THEN s[k]
              ELSE Nul]

\* What a reader at offset p of the file s still has to read.
Rest(s, p) == SubSeq(s, p + 1, Len(s))

\* A function over allocated addresses: one more, or one fewer, of them.
Alloc(f, a, v) == [x \in DOMAIN f \cup {a} |-> IF x = a THEN v ELSE f[x]]
Dealloc(f, a)  == [x \in DOMAIN f \ {a} |-> f[x]]
=============================================================================
