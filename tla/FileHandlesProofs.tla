------------------------- MODULE FileHandlesProofs -------------------------
(***************************************************************************)
(* Proofs about FileHandles, for every value of its constants: any number  *)
(* of files, handles, writes and nested conversions.                       *)
(*                                                                         *)
(* First, what the operators of the C++ library and of the heap return;    *)
(* then what a call may do to the files and the streams; then the          *)
(* invariant Inv, action by action; then, for programs that close no       *)
(* handle twice, that handles own their structs.                           *)
(*                                                                         *)
(* After that, for every program, also one that uses closed handles, the   *)
(* contents of files: what writing behind the end of a file makes of it;   *)
(* Settled, which says of a file, its history and its only writer what     *)
(* both promises follow from; that each action keeps it; and that no byte  *)
(* is written over, that FileHandles implements DurableFiles, and that     *)
(* reads return what was written.                                          *)
(***************************************************************************)
EXTENDS FileHandles, TLAPS, FiniteSetTheorems, SequenceTheorems

\* A std::string made of a char* is a sequence of the same bytes, no longer
\* than what it was made of (winx_fs.hpp:61, 124, 133).
LEMMA CStrType ==
  ASSUME NEW S, NEW s \in Seq(S)
  PROVE  CStr(s) \in Seq(S) /\ Len(CStr(s)) \in 0..Len(s)
<1> DEFINE P == {k \in DOMAIN s : \A j \in 1..k : s[j] # Nul}
<1>1. PICK n \in Nat : n = Len(s)
  OBVIOUS
<1>1a. IsFiniteSet(1..n) /\ Cardinality(1..n) = IF 1 > n THEN 0 ELSE n - 1 + 1
  BY FS_Interval
<1>2. P \subseteq 1..n
  BY <1>1
<1>3. Cardinality(P) \in 0..n
  BY <1>1a, <1>2, FS_Subset, FS_CardinalityType
<1>4. CStr(s) = SubSeq(s, 1, Cardinality(P))
  BY DEF CStr
<1> HIDE DEF P
<1> QED
  BY <1>1, <1>3, <1>4

\* Decoding a text that a read returned gives bytes of files, or junk where
\* there was junk (winx_fs.hpp:48, 125).
LEMMA DecodeType ==
  ASSUME NEW s \in Seq(Byte \cup {Junk})
  PROVE  Decode(s) \in Seq(Byte \cup {Junk})
  BY ByteAssumption DEF Decode

\* The array a blind read returns holds bytes of the file and, past its end,
\* bytes nobody wrote (winx_util.cpp:13-20).
LEMMA FillType ==
  ASSUME NEW s \in Seq(Byte), NEW n \in Nat
  PROVE  Fill(s, n) \in Seq(Byte \cup {Junk})
  BY DEF Fill

\* A file that is written anywhere stays a sequence of bytes, the gap
\* included (winx_util.cpp:27, 92).
LEMMA WriteAtType ==
  ASSUME NEW s \in Seq(Byte), NEW p \in Nat, NEW b \in Seq(Byte)
  PROVE  WriteAt(s, p, b) \in Seq(Byte)
  BY ByteAssumption DEF WriteAt

\* What a handle has still to read is a sequence of bytes of the file
\* (winx_util.cpp:83-85).
LEMMA RestType ==
  ASSUME NEW s \in Seq(Byte), NEW p \in Nat
  PROVE  Rest(s, p) \in Seq(Byte)
  BY DEF Rest

\* The stack of writes in progress, less its innermost (winx_fs.hpp:134).
LEMMA PopType ==
  ASSUME NEW S, NEW s \in Seq(S), s # << >>
  PROVE  /\ Len(s) \in DOMAIN s
         /\ SubSeq(s, 1, Len(s) - 1) \in Seq(S)
         /\ \A k \in DOMAIN SubSeq(s, 1, Len(s) - 1) :
              k \in DOMAIN s /\ SubSeq(s, 1, Len(s) - 1)[k] = s[k]
<1>1. PICK n \in Nat : n = Len(s) /\ n # 0
  OBVIOUS
<1>2. SubSeq(s, 1, n - 1) \in Seq(S) /\ Len(SubSeq(s, 1, n - 1)) = n - 1
  BY <1>1
<1>3. \A k \in 1..(n - 1) : SubSeq(s, 1, n - 1)[k] = s[k]
  BY <1>1
<1> QED
  BY <1>1, <1>2, <1>3

\* operator new makes one more address valid, with the value constructed
\* there, and leaves every other as it was (winx_util.cpp:34-60).
LEMMA AllocType ==
  ASSUME NEW S, NEW T, NEW f, f \in [DOMAIN f -> T], DOMAIN f \subseteq S,
         NEW a \in S, NEW v \in T
  PROVE  /\ DOMAIN Alloc(f, a, v) = DOMAIN f \cup {a}
         /\ Alloc(f, a, v) \in [DOMAIN Alloc(f, a, v) -> T]
         /\ DOMAIN Alloc(f, a, v) \subseteq S
         /\ Alloc(f, a, v)[a] = v
         /\ \A x \in DOMAIN f \ {a} : Alloc(f, a, v)[x] = f[x]
  BY DEF Alloc

\* operator delete makes one address invalid and leaves every other as it
\* was (winx_util.cpp:66-75).
LEMMA DeallocType ==
  ASSUME NEW S, NEW T, NEW f, f \in [DOMAIN f -> T], DOMAIN f \subseteq S, NEW a
  PROVE  /\ DOMAIN Dealloc(f, a) = DOMAIN f \ {a}
         /\ Dealloc(f, a) \in [DOMAIN Dealloc(f, a) -> T]
         /\ DOMAIN Dealloc(f, a) \subseteq S
         /\ \A x \in DOMAIN f \ {a} : Dealloc(f, a)[x] = f[x]
  BY DEF Dealloc

-----------------------------------------------------------------------------
\* A file takes at most the bytes an ofstream gives it, whether or not the file
\* system takes more (winx_util.cpp:28, 92).
LEMMA TakenType ==
  ASSUME TypeOK, FilesKnown, NEW q \in DOMAIN outs, outs[q].file # NoFile, NEW k \in Nat
  PROVE  /\ disk[outs[q].file] \in Seq(Byte) /\ Offset(outs[q]) \in Nat
         /\ Taken(outs[q], k) \in 0..k
<1>1. outs[q] \in OutStream /\ outs[q].file \in DOMAIN disk
  BY DEF TypeOK, FilesKnown
<1>2. disk[outs[q].file] \in Seq(Byte) /\ Offset(outs[q]) \in Nat
  BY <1>1 DEF TypeOK, OutStream, Offset
<1> QED
  BY <1>2, BoundsAssumption DEF Taken

\* Bytes that leave an ofstream change the content of its file and of no
\* other, and the file stays a file (winx_util.cpp:72, 92).
LEMMA FlushedType ==
  ASSUME TypeOK, FilesKnown, NEW q \in DOMAIN outs, outs[q].file # NoFile,
         NEW pending \in Seq(Byte), NEW k \in 0..Len(pending)
  PROVE  /\ DOMAIN Flushed(outs[q], pending, k) = DOMAIN disk
         /\ Flushed(outs[q], pending, k) \in [DOMAIN disk -> Seq(Byte)]
<1> DEFINE s  == outs[q]
           at == Offset(s)
           b  == SubSeq(pending, 1, Taken(s, k))
<1>1. s \in OutStream /\ s.file \in DOMAIN disk
  BY DEF TypeOK, FilesKnown
<1>2. disk[s.file] \in Seq(Byte) /\ at \in Nat /\ Taken(s, k) \in 0..k
  BY <1>1, TakenType
<1>3. b \in Seq(Byte)
  BY <1>2
<1>4. WriteAt(disk[s.file], at, b) \in Seq(Byte)
  <2> HIDE DEF at, b
  <2> QED BY <1>2, <1>3, WriteAtType
<1>5. Flushed(s, pending, k) = [disk EXCEPT ![s.file] = WriteAt(disk[s.file], at, b)]
  BY DEF Flushed
<1> HIDE DEF s, at, b
<1>6. /\ DOMAIN Flushed(s, pending, k) = DOMAIN disk
      /\ Flushed(s, pending, k) \in [DOMAIN disk -> Seq(Byte)]
  BY <1>1, <1>4, <1>5 DEF TypeOK
<1> QED
  BY <1>6 DEF s

\* A handle's write creates no file and opens or moves no stream to another
\* file (winx_util.cpp:88-94).
LEMMA InsertType ==
  ASSUME TypeOK, FilesKnown, NEW q \in DOMAIN outs, NEW b \in Seq(Byte), Insert(q, b)
  PROVE  /\ DOMAIN disk' = DOMAIN disk /\ disk' \in [DOMAIN disk -> Seq(Byte)]
         /\ DOMAIN outs' = DOMAIN outs /\ outs' \in [DOMAIN outs -> OutStream]
         /\ \A p \in DOMAIN outs : outs'[p].file = outs[p].file
<1>1. CASE outs[q].file = NoFile \/ outs[q].bad
  BY <1>1 DEF Insert, TypeOK
<1>2. CASE outs[q].file # NoFile /\ ~outs[q].bad
  <2> DEFINE s == outs[q]
             pending == s.buf \o b
  <2>1. s \in OutStream /\ pending \in Seq(Byte)
    BY DEF TypeOK, OutStream
  <2>2. PICK k \in 0..Len(pending) :
          /\ disk' = Flushed(outs[q], pending, k)
          /\ outs' = [outs EXCEPT
                ![q].buf = IF Taken(s, k) = k THEN SubSeq(pending, k + 1, Len(pending)) ELSE @,
                ![q].pos = IF s.app THEN @ ELSE @ + Taken(s, k),
                ![q].bad = Taken(s, k) # k]
    BY <1>2 DEF Insert
  <2> HIDE DEF pending
  <2>3. DOMAIN disk' = DOMAIN disk /\ disk' \in [DOMAIN disk -> Seq(Byte)]
    BY <1>2, <2>1, <2>2, FlushedType
  <2>3a. Taken(s, k) \in 0..k
    BY <1>2, TakenType
  <2> DEFINE buf == IF Taken(s, k) = k THEN SubSeq(pending, k + 1, Len(pending)) ELSE s.buf
             pos == IF s.app THEN s.pos ELSE s.pos + Taken(s, k)
             bad == Taken(s, k) # k
  <2>4. buf \in Seq(Byte)
    BY <2>1 DEF OutStream
  <2>4a. pos \in Nat
    BY <2>1, <2>3a DEF OutStream
  <2>4b. bad \in BOOLEAN
    OBVIOUS
  <2>5. outs' = [outs EXCEPT ![q] = [s EXCEPT !.buf = buf, !.pos = pos, !.bad = bad]]
    BY <2>2
  <2> HIDE DEF buf, pos, bad
  <2>6. [s EXCEPT !.buf = buf, !.pos = pos, !.bad = bad] \in OutStream
    <3> HIDE DEF s
    <3> QED
      BY <2>1, <2>4, <2>4a, <2>4b DEF OutStream
  <2> QED
    BY <2>1, <2>3, <2>5, <2>6 DEF TypeOK, OutStream
<1> QED
  BY <1>1, <1>2

\* close_file frees the ofstream it closes and no other, and the files
\* remain files (winx_util.cpp:70-74).
LEMMA FlushAndFreeType ==
  ASSUME TypeOK, FilesKnown, NEW q \in DOMAIN outs, FlushAndFree(q)
  PROVE  /\ DOMAIN disk' = DOMAIN disk /\ disk' \in [DOMAIN disk -> Seq(Byte)]
         /\ DOMAIN outs' = DOMAIN outs \ {q}
         /\ \A p \in DOMAIN outs' : outs'[p] = outs[p]
         /\ outs' \in [DOMAIN outs' -> OutStream]
<1>1. outs' = Dealloc(outs, q) /\ outs \in [DOMAIN outs -> OutStream]
  BY DEF FlushAndFree, TypeOK
<1>2. outs[q].buf \in Seq(Byte) /\ Len(outs[q].buf) \in 0..Len(outs[q].buf)
  BY DEF TypeOK, OutStream
<1>3. DOMAIN disk' = DOMAIN disk /\ disk' \in [DOMAIN disk -> Seq(Byte)]
  BY <1>2, FlushedType DEF FlushAndFree, TypeOK
<1> QED
  BY <1>1, <1>3 DEF Dealloc, TypeOK

\* Opening an ofstream may create a file but loses none, and every path
\* names a file that exists (winx_util.cpp:25, 46, 50).
LEMMA OpenToWriteType ==
  ASSUME TypeOK, FilesKnown, NEW n \in Names, NEW i \in Inodes \cup {NoFile},
         NEW trunc, NEW k, NEW now \in Seq(Byte),
         OpenToWrite(n, i, trunc, k, now)
  PROVE  /\ DOMAIN dir' \subseteq Names /\ dir' \in [DOMAIN dir' -> Inodes]
         /\ DOMAIN disk' \subseteq Inodes /\ disk' \in [DOMAIN disk' -> Seq(Byte)]
         /\ DOMAIN sent' = DOMAIN disk' /\ sent' \in [DOMAIN disk' -> Seq(Byte)]
         /\ raced' \subseteq Inodes
         /\ DOMAIN disk \subseteq DOMAIN disk' /\ i \in DOMAIN disk' \cup {NoFile}
         /\ \A m \in DOMAIN dir' : dir'[m] \in DOMAIN disk'
<1>1. CASE ~(n \in Writable /\ OpenFds + k < MaxFds)
  BY <1>1 DEF OpenToWrite, TypeOK, FilesKnown, fileVars, history
<1>2. CASE n \in Writable /\ OpenFds + k < MaxFds
  <2> DEFINE empty == trunc \/ n \notin DOMAIN dir
  <2>1. /\ IF n \in DOMAIN dir THEN i = dir[n] ELSE i \in Inodes \ DOMAIN disk
        /\ dir' = Alloc(dir, n, i)
        /\ disk' = Alloc(disk, i, IF empty THEN << >> ELSE disk[i])
        /\ sent' = Alloc(sent, i, IF empty THEN now ELSE sent[i])
        /\ raced' = IF Writers(i) # {} THEN raced \cup {i}
                    ELSE IF trunc THEN raced \ {i} ELSE raced
    BY <1>2 DEF OpenToWrite
  <2>2. i \in Inodes /\ (n \in DOMAIN dir => i \in DOMAIN disk)
    BY <2>1 DEF TypeOK, FilesKnown
  <2>3. /\ (IF empty THEN << >> ELSE disk[i]) \in Seq(Byte)
        /\ (IF empty THEN now ELSE sent[i]) \in Seq(Byte)
    BY <2>2 DEF TypeOK
  <2> HIDE DEF empty
  <2>4. /\ dir \in [DOMAIN dir -> Inodes] /\ DOMAIN dir \subseteq Names
        /\ disk \in [DOMAIN disk -> Seq(Byte)] /\ DOMAIN disk \subseteq Inodes
        /\ sent \in [DOMAIN sent -> Seq(Byte)] /\ DOMAIN sent = DOMAIN disk
    BY DEF TypeOK
  <2>5. /\ DOMAIN dir' = DOMAIN dir \cup {n} /\ dir' \in [DOMAIN dir' -> Inodes]
        /\ dir'[n] = i /\ \A m \in DOMAIN dir \ {n} : dir'[m] = dir[m]
    BY <2>1, <2>2, <2>4 DEF Alloc
  <2>6. DOMAIN disk' = DOMAIN disk \cup {i} /\ disk' \in [DOMAIN disk' -> Seq(Byte)]
    BY <2>1, <2>2, <2>3, <2>4 DEF Alloc
  <2>7. DOMAIN sent' = DOMAIN sent \cup {i} /\ sent' \in [DOMAIN sent' -> Seq(Byte)]
    BY <2>1, <2>2, <2>3, <2>4 DEF Alloc
  <2>8. raced' \subseteq Inodes
    BY <2>1, <2>2 DEF TypeOK
  <2> QED
    BY <2>2, <2>4, <2>5, <2>6, <2>7, <2>8 DEF FilesKnown
<1> QED
  BY <1>1, <1>2

-----------------------------------------------------------------------------
\* Reading a handle moves its ifstream and changes no ofstream and no struct's
\* pointer to one (winx_util.cpp:78-86).
LEMMA HandleReadKeepsStreams ==
  ASSUME TypeOK, NEW o, HandleRead(o)
  PROVE  /\ UNCHANGED outs /\ DOMAIN hnd' = DOMAIN hnd
         /\ \A b \in DOMAIN hnd : hnd'[b].out = hnd[b].out
<1> DEFINE a == obj[o].addr
<1>1. a \in DOMAIN hnd /\ UNCHANGED outs
  BY DEF HandleRead
<1>2. \/ hnd' = hnd
      \/ \E n : hnd' = [hnd EXCEPT ![a].in.pos = n, ![a].in.eof = TRUE]
  BY DEF HandleRead
<1>3. hnd \in [DOMAIN hnd -> WinxFileHandle]
  BY DEF TypeOK
<1>4. ASSUME NEW n, hnd' = [hnd EXCEPT ![a].in.pos = n, ![a].in.eof = TRUE]
      PROVE  DOMAIN hnd' = DOMAIN hnd /\ \A b \in DOMAIN hnd : hnd'[b].out = hnd[b].out
  <2> HIDE DEF a
  <2>1. hnd[a] \in WinxFileHandle
    BY <1>1, <1>3
  <2> QED
    BY <1>1, <1>3, <1>4, <2>1 DEF WinxFileHandle
<1> QED
  BY <1>1, <1>2, <1>4

\* No call can break the bond of an allocated struct and its ofstream:
\* open_file makes both, close_file frees both (winx_util.cpp:32-76).
LEMMA StructsOwnStreamsStep ==
  ASSUME TypeOK, StructsOwnStreams, [Next]_vars
  PROVE  StructsOwnStreams'
<1>1. ASSUME NEW o \in Objs, NEW n \in Names, NEW m \in Modes, Open(o, n, m)
      PROVE  StructsOwnStreams'
  <2>1. PICK a, in :
          /\ a \in HandlePtrs \ DOMAIN hnd
          /\ \/ hnd' = Alloc(hnd, a, [in |-> in, out |-> Null]) /\ UNCHANGED outs
             \/ \E q \in StreamPtrs \ DOMAIN outs : \E s :
                  outs' = Alloc(outs, q, s) /\ hnd' = Alloc(hnd, a, [in |-> in, out |-> q])
    BY <1>1 DEF Open
  <2>1a. a \in HandlePtrs \ DOMAIN hnd
    BY <2>1
  <2>2. CASE hnd' = Alloc(hnd, a, [in |-> in, out |-> Null]) /\ UNCHANGED outs
    <3>1. DOMAIN hnd' = DOMAIN hnd \cup {a} /\ hnd'[a].out = Null
      BY <2>2 DEF Alloc
    <3>2. \A b \in DOMAIN hnd : hnd'[b] = hnd[b]
      BY <2>1a, <2>2 DEF Alloc
    <3> QED
      BY <2>1a, <2>2, <3>1, <3>2 DEF StructsOwnStreams
  <2>3. ASSUME NEW q \in StreamPtrs \ DOMAIN outs, NEW s,
               outs' = Alloc(outs, q, s), hnd' = Alloc(hnd, a, [in |-> in, out |-> q])
        PROVE  StructsOwnStreams'
    <3>1. DOMAIN outs' = DOMAIN outs \cup {q} /\ DOMAIN hnd' = DOMAIN hnd \cup {a}
      BY <2>3 DEF Alloc
    <3>2. hnd'[a].out = q /\ \A b \in DOMAIN hnd : hnd'[b] = hnd[b] /\ hnd[b].out # q
      BY <2>1a, <2>3, FilesAssumption DEF Alloc, StructsOwnStreams
    <3> QED
      BY <3>1, <3>2, FilesAssumption DEF StructsOwnStreams
  <2> QED
    BY <2>1, <2>2, <2>3
<1>2. ASSUME NEW o \in Objs, HandleRead(o)
      PROVE  StructsOwnStreams'
  <2>1. /\ UNCHANGED outs /\ DOMAIN hnd' = DOMAIN hnd
        /\ \A b \in DOMAIN hnd : hnd'[b].out = hnd[b].out
    BY <1>2, HandleReadKeepsStreams
  <2> QED
    BY <2>1 DEF StructsOwnStreams
<1>3. ASSUME NEW o \in Objs, Close(o)
      PROVE  StructsOwnStreams'
  <2> DEFINE a == obj[o].addr
  <2>1. /\ a \in DOMAIN hnd /\ hnd' = Dealloc(hnd, a)
        /\ IF hnd[a].out = Null THEN UNCHANGED outs ELSE outs' = Dealloc(outs, hnd[a].out)
    BY <1>3 DEF Close, FlushAndFree
  <2>2. DOMAIN hnd' = DOMAIN hnd \ {a} /\ \A b \in DOMAIN hnd' : hnd'[b] = hnd[b]
    BY <2>1 DEF Dealloc
  <2>3. DOMAIN outs' = DOMAIN outs \ {hnd[a].out}
    BY <2>1 DEF Dealloc, StructsOwnStreams
  <2> QED
    BY <2>1, <2>2, <2>3 DEF StructsOwnStreams
<1>4. ASSUME NEW d \in Data, WriteEnd(d)
      PROVE  StructsOwnStreams'
  <2>1. DOMAIN outs' = DOMAIN outs /\ UNCHANGED hnd
    BY <1>4 DEF WriteEnd, Insert
  <2> QED
    BY <2>1 DEF StructsOwnStreams
<1>5. UNCHANGED <<hnd, outs>> => StructsOwnStreams'
  BY DEF StructsOwnStreams
<1> QED
  BY <1>1, <1>2, <1>3, <1>4, <1>5
     DEF Next, vars, heapVars, WriteBegin, UseFreed, PassUnconverted, Undefined, BlindReadBegin, BlindReadEnd,
         BlindWriteBegin, BlindWriteSome, BlindWriteEnd, Delete, Exit, ExternalWrite

\* The inductive invariant: to preserve the types, a step must know that what it
\* dereferences exists.
Inv == TypeOK /\ FilesKnown /\ StructsOwnStreams

\* Every reachable state is well typed, refers to files that exist, and has
\* one ofstream to each struct that was opened for writing.
LEMMA InvHolds == Spec => []Inv
<1>1. Init => Inv
  <2> SUFFICES ASSUME Init PROVE Inv
    OBVIOUS
  <2>1. PICK S \in SUBSET Names : dir \in Injection(S, Inodes)
    BY DEF Init
  <2>2. dir \in [S -> Inodes]
    BY <2>1 DEF Injection
  <2>3. disk \in [{dir[n] : n \in DOMAIN dir} -> Seq(Byte)]
    BY FilesAssumption DEF Init
  <2> QED
    BY <2>2, <2>3, BoundsAssumption DEF Init, Inv, TypeOK, FilesKnown, StructsOwnStreams
<1>2. Inv /\ [Next]_vars => Inv'
  <2> SUFFICES ASSUME TypeOK, FilesKnown, StructsOwnStreams, [Next]_vars
               PROVE  TypeOK' /\ FilesKnown'
    BY StructsOwnStreamsStep DEF Inv
  <2>1. ASSUME NEW o \in Objs, NEW n \in Names, NEW m \in Modes, Open(o, n, m)
        PROVE  TypeOK' /\ FilesKnown'
    <3> DEFINE read == FileToRead(n, 0)
               in   == IF "r" \in m THEN [file |-> read, pos |-> 0, eof |-> FALSE] ELSE Null
               k    == IF "r" \in m /\ read # NoFile THEN 1 ELSE 0
    <3>1. PICK a \in HandlePtrs \ DOMAIN hnd, i \in Inodes \cup {NoFile} :
            /\ obj' = Alloc(obj, o, [addr |-> a, file |-> i, closed |-> FALSE])
            /\ \/ /\ i = NoFile
                  /\ hnd' = Alloc(hnd, a, [in |-> in, out |-> Null])
                  /\ UNCHANGED <<fileVars, outs, history>>
               \/ /\ OpenToWrite(n, i, "w" \in m, k, << >>)
                  /\ \E q \in StreamPtrs \ DOMAIN outs :
                       /\ outs' = Alloc(outs, q, [file |-> i, pos |-> 0,
                                                  app |-> "w" \notin m, buf |-> << >>, bad |-> FALSE])
                       /\ hnd' = Alloc(hnd, a, [in |-> in, out |-> q])
      BY <2>1 DEF Open
    <3>2. ret' = << >> /\ UNCHANGED <<frames, call, proc, writes>>
      BY <2>1 DEF Open
    <3>3. in \in InStream \cup {Null} /\ (in # Null => in.file \in DOMAIN disk \cup {NoFile})
      BY DEF InStream, FileToRead, TypeOK, FilesKnown
    <3> HIDE DEF in, k
    <3>4. DOMAIN obj' = DOMAIN obj \cup {o} /\ obj' \in [DOMAIN obj' -> JSHandle]
      BY <3>1 DEF Alloc, TypeOK, JSHandle
    <3>5. obj'[o].file = i /\ \A p \in DOMAIN obj \ {o} : obj'[p] = obj[p]
      BY <3>1 DEF Alloc
    <3>6. CASE /\ i = NoFile
               /\ hnd' = Alloc(hnd, a, [in |-> in, out |-> Null])
               /\ UNCHANGED <<fileVars, outs, history>>
      BY <3>2, <3>3, <3>4, <3>5, <3>6
         DEF Alloc, TypeOK, FilesKnown, WinxFileHandle, fileVars, history
    <3>7. CASE /\ OpenToWrite(n, i, "w" \in m, k, << >>)
               /\ \E q \in StreamPtrs \ DOMAIN outs :
                    /\ outs' = Alloc(outs, q, [file |-> i, pos |-> 0,
                                               app |-> "w" \notin m, buf |-> << >>, bad |-> FALSE])
                    /\ hnd' = Alloc(hnd, a, [in |-> in, out |-> q])
      <4>1. PICK q \in StreamPtrs \ DOMAIN outs :
              /\ outs' = Alloc(outs, q, [file |-> i, pos |-> 0,
                                         app |-> "w" \notin m, buf |-> << >>, bad |-> FALSE])
              /\ hnd' = Alloc(hnd, a, [in |-> in, out |-> q])
        BY <3>7
      <4>2. /\ DOMAIN dir' \subseteq Names /\ dir' \in [DOMAIN dir' -> Inodes]
            /\ DOMAIN disk' \subseteq Inodes /\ disk' \in [DOMAIN disk' -> Seq(Byte)]
            /\ DOMAIN sent' = DOMAIN disk' /\ sent' \in [DOMAIN disk' -> Seq(Byte)]
            /\ raced' \subseteq Inodes
            /\ DOMAIN disk \subseteq DOMAIN disk' /\ i \in DOMAIN disk' \cup {NoFile}
            /\ \A p \in DOMAIN dir' : dir'[p] \in DOMAIN disk'
        <5>1. << >> \in Seq(Byte)
          OBVIOUS
        <5> QED
          BY <3>7, <5>1, OpenToWriteType
      <4>3. DOMAIN outs' = DOMAIN outs \cup {q} /\ outs' \in [DOMAIN outs' -> OutStream]
        BY <4>1 DEF Alloc, TypeOK, OutStream
      <4>4. outs'[q].file = i /\ \A p \in DOMAIN outs : outs'[p] = outs[p]
        BY <4>1 DEF Alloc
      <4>5. DOMAIN hnd' = DOMAIN hnd \cup {a} /\ hnd' \in [DOMAIN hnd' -> WinxFileHandle]
        BY <3>3, <4>1 DEF Alloc, TypeOK, WinxFileHandle
      <4>6. hnd'[a].in = in /\ \A p \in DOMAIN hnd : hnd'[p] = hnd[p]
        BY <4>1 DEF Alloc
      <4>7. TypeOK'
        BY <3>2, <3>4, <4>2, <4>3, <4>5 DEF TypeOK
      <4>8. FilesKnown'
        BY <3>2, <3>3, <3>4, <3>5, <4>2, <4>3, <4>4, <4>5, <4>6 DEF FilesKnown
      <4> QED
        BY <4>7, <4>8
    <3> QED
      BY <3>1, <3>6, <3>7
  <2>2. ASSUME NEW o \in Objs, HandleRead(o)
        PROVE  TypeOK' /\ FilesKnown'
    <3> DEFINE a   == obj[o].addr
               in  == hnd[a].in
               got == IF in = Null THEN << >>
                      ELSE IF in.file = NoFile \/ (StickyEof /\ in.eof) THEN << >>
                      ELSE Rest(disk[in.file], in.pos)
    <3>1. /\ a \in DOMAIN hnd
          /\ hnd' = IF in = Null \/ in.file = NoFile THEN hnd
                    ELSE [hnd EXCEPT ![a].in.pos = @ + Len(got), ![a].in.eof = TRUE]
          /\ \/ proc' = "aborted" /\ ret' = << >>
             \/ ret' = Decode(CStr(got)) /\ UNCHANGED proc
          /\ UNCHANGED <<fileVars, outs, obj, frames, call, writes, history>>
      BY <2>2 DEF HandleRead
    <3>2. hnd[a] \in WinxFileHandle
      BY <3>1 DEF TypeOK
    <3>3. got \in Seq(Byte)
      <4>1. CASE in = Null \/ in.file = NoFile
        BY <4>1
      <4>2. CASE ~(in = Null \/ in.file = NoFile)
        <5>1. disk[in.file] \in Seq(Byte) /\ in.pos \in Nat
          BY <3>1, <3>2, <4>2 DEF TypeOK, FilesKnown, WinxFileHandle, InStream
        <5>2. Rest(disk[in.file], in.pos) \in Seq(Byte)
          BY <5>1, RestType
        <5> QED
          BY <5>2
      <4> QED
        BY <4>1, <4>2
    <3> HIDE DEF got
    <3>4. ret' \in Seq(Byte \cup {Junk}) /\ proc' \in {"running", "exited", "aborted", "undefined"}
      <4>1. CStr(got) \in Seq(Byte)
        BY <3>3, CStrType
      <4>2. CStr(got) \in Seq(Byte \cup {Junk})
        BY <4>1
      <4>3. Decode(CStr(got)) \in Seq(Byte \cup {Junk})
        BY <4>2, DecodeType
      <4>4. << >> \in Seq(Byte \cup {Junk})
        OBVIOUS
      <4> QED
        BY <3>1, <4>3, <4>4 DEF TypeOK
    <3>5. /\ DOMAIN hnd' = DOMAIN hnd /\ hnd' \in [DOMAIN hnd -> WinxFileHandle]
          /\ \A p \in DOMAIN hnd : (hnd'[p].in # Null => hnd[p].in # Null /\ hnd'[p].in.file = hnd[p].in.file)
      <4>1. CASE in = Null \/ in.file = NoFile
        BY <3>1, <4>1 DEF TypeOK
      <4>2. CASE ~(in = Null \/ in.file = NoFile)
        <5>1. in \in InStream /\ in.pos + Len(got) \in Nat
          BY <3>2, <3>3, <4>2 DEF WinxFileHandle, InStream
        <5> DEFINE new == [in EXCEPT !.pos = in.pos + Len(got), !.eof = TRUE]
        <5>2. new \in InStream /\ new.file = in.file
          BY <5>1 DEF InStream
        <5>3. hnd' = [hnd EXCEPT ![a] = [hnd[a] EXCEPT !.in = new]]
          BY <3>1, <3>2, <4>2 DEF WinxFileHandle, TypeOK
        <5> HIDE DEF new
        <5>4. [hnd[a] EXCEPT !.in = new] \in WinxFileHandle /\ [hnd[a] EXCEPT !.in = new].in = new
          BY <3>2, <5>2 DEF WinxFileHandle
        <5> QED
          BY ZenonT(60), <3>1, <4>2, <5>2, <5>3, <5>4 DEF TypeOK
      <4> QED
        BY <4>1, <4>2
    <3> QED
      BY <3>1, <3>4, <3>5 DEF TypeOK, FilesKnown, fileVars, history
  <2>3. ASSUME NEW o \in Objs, WriteBegin(o)
        PROVE  TypeOK' /\ FilesKnown'
    <3>1. PICK f : /\ f = [obj |-> o, out |-> hnd[obj[o].addr].out]
                   /\ frames' = Append(frames, f)
      BY <2>3 DEF WriteBegin
    <3>2. o \in DOMAIN obj /\ hnd[obj[o].addr] \in WinxFileHandle
      BY <2>3 DEF WriteBegin, MayUse, TypeOK
    <3>3. f \in [obj: Objs, out: StreamPtrs \cup {Null}] /\ f.obj \in DOMAIN obj
      BY <3>1, <3>2 DEF WinxFileHandle
    <3>4. /\ frames' \in Seq([obj: Objs, out: StreamPtrs \cup {Null}])
          /\ \A k \in DOMAIN frames' : frames'[k].obj \in DOMAIN obj
      BY <3>1, <3>3 DEF TypeOK, FilesKnown
    <3>5. writes' \in 0..MaxWrites
      BY <2>3, BoundsAssumption DEF WriteBegin, TypeOK
    <3> QED
      BY <2>3, <3>4, <3>5 DEF WriteBegin, TypeOK, FilesKnown, fileVars, heapVars, history
  <2>4. ASSUME NEW o \in Objs, Close(o)
        PROVE  TypeOK' /\ FilesKnown'
    <3> DEFINE a == obj[o].addr
    <3>1. /\ o \in DOMAIN obj /\ a \in DOMAIN hnd
          /\ hnd' = Dealloc(hnd, a)
          /\ IF hnd[a].out = Null THEN UNCHANGED <<disk, outs>> ELSE FlushAndFree(hnd[a].out)
          /\ obj' = [obj EXCEPT ![o].closed = TRUE]
          /\ ret' = << >>
          /\ UNCHANGED <<dir, frames, call, proc, writes, history>>
      BY <2>4 DEF Close, MayClose, MayUse
    <3>2. /\ DOMAIN disk' = DOMAIN disk /\ disk' \in [DOMAIN disk -> Seq(Byte)]
          /\ DOMAIN outs' \subseteq DOMAIN outs /\ outs' \in [DOMAIN outs' -> OutStream]
          /\ \A p \in DOMAIN outs' : outs'[p] = outs[p]
      <4>1. CASE hnd[a].out = Null
        BY <3>1, <4>1 DEF TypeOK
      <4>2. CASE hnd[a].out # Null /\ hnd[a].out \in DOMAIN outs
        BY <3>1, <4>2, FlushAndFreeType
      <4>3. hnd[a].out # Null => hnd[a].out \in DOMAIN outs
        BY <3>1 DEF StructsOwnStreams
      <4> QED
        BY <4>1, <4>2, <4>3
    <3>3. DOMAIN hnd' \subseteq DOMAIN hnd /\ hnd' \in [DOMAIN hnd' -> WinxFileHandle]
      BY <3>1 DEF Dealloc, TypeOK
    <3>4. \A p \in DOMAIN hnd' : hnd'[p] = hnd[p]
      BY <3>1 DEF Dealloc
    <3>5. /\ DOMAIN obj' = DOMAIN obj /\ obj' \in [DOMAIN obj -> JSHandle]
          /\ \A p \in DOMAIN obj : obj'[p].file = obj[p].file
      BY ZenonT(60), <3>1 DEF TypeOK, JSHandle
    <3> QED
      BY <3>1, <3>2, <3>3, <3>4, <3>5 DEF TypeOK, FilesKnown, history
  <2>5. ASSUME NEW d \in Data, WriteEnd(d)
        PROVE  TypeOK' /\ FilesKnown'
    <3> DEFINE f == frames[Len(frames)]
               i == IF f.out \in DOMAIN outs THEN outs[f.out].file ELSE NoFile
    <3>1. /\ frames # << >> /\ f.out \in {Null} \cup DOMAIN outs
          /\ IF f.out = Null THEN UNCHANGED <<disk, outs>> ELSE Insert(f.out, CStr(d))
          /\ sent' = IF i = NoFile THEN sent ELSE [sent EXCEPT ![i] = @ \o CStr(d)]
          /\ frames' = SubSeq(frames, 1, Len(frames) - 1)
          /\ ret' = << >>
          /\ UNCHANGED <<dir, hnd, obj, call, proc, writes, raced>>
      BY <2>5 DEF WriteEnd
    <3>2. CStr(d) \in Seq(Byte)
      <4>1. d \in Seq(Byte)
        BY FilesAssumption DEF Text
      <4> QED
        BY <4>1, CStrType
    <3>3. /\ DOMAIN disk' = DOMAIN disk /\ disk' \in [DOMAIN disk -> Seq(Byte)]
          /\ DOMAIN outs' = DOMAIN outs /\ outs' \in [DOMAIN outs -> OutStream]
          /\ \A p \in DOMAIN outs : outs'[p].file = outs[p].file
      <4>1. CASE f.out = Null
        BY <3>1, <4>1 DEF TypeOK
      <4>2. CASE f.out # Null
        BY <3>1, <3>2, <4>2, InsertType
      <4> QED
        BY <4>1, <4>2
    <3>4. /\ frames' \in Seq([obj: Objs, out: StreamPtrs \cup {Null}])
          /\ \A k \in DOMAIN frames' : k \in DOMAIN frames /\ frames'[k] = frames[k]
      <4> DEFINE F == [obj: Objs, out: StreamPtrs \cup {Null}]
      <4>1. frames \in Seq(F)
        BY DEF TypeOK
      <4> HIDE DEF F
      <4>2. /\ SubSeq(frames, 1, Len(frames) - 1) \in Seq(F)
            /\ \A k \in DOMAIN SubSeq(frames, 1, Len(frames) - 1) :
                 k \in DOMAIN frames /\ SubSeq(frames, 1, Len(frames) - 1)[k] = frames[k]
        BY <3>1, <4>1, PopType
      <4> QED
        BY <3>1, <4>2 DEF F
    <3>5. DOMAIN sent' = DOMAIN sent /\ sent' \in [DOMAIN sent -> Seq(Byte)]
      <4>1. i # NoFile => sent[i] \o CStr(d) \in Seq(Byte)
        <5>1. i # NoFile => sent[i] \in Seq(Byte)
          BY DEF TypeOK, FilesKnown
        <5> QED
          BY <3>2, <5>1
      <4> QED
        BY <3>1, <4>1 DEF TypeOK
    <3> HIDE DEF f, i
    <3>6. TypeOK'
      BY SMTT(60), <3>1, <3>3, <3>4, <3>5 DEF TypeOK
    <3>7. FilesKnown'
      BY <3>1, <3>3, <3>4 DEF FilesKnown
    <3> QED
      BY <3>6, <3>7
  <2>6. CASE UseFreed \/ PassUnconverted
    BY <2>6 DEF UseFreed, PassUnconverted, Undefined, TypeOK, FilesKnown, fileVars, heapVars, history
  <2>7. ASSUME NEW n \in Names, BlindReadBegin(n)
        PROVE  TypeOK' /\ FilesKnown'
    <3> DEFINE i    == FileToRead(n, 0)
               size == ToInt(Len(disk[i]))
    <3>1. /\ ret' = << >>
          /\ \/ UNCHANGED call /\ proc' \in {proc, "aborted"}
             \/ /\ i # NoFile /\ size >= 0 /\ proc' = proc
                /\ call' = [op |-> "read", file |-> i, size |-> size]
          /\ UNCHANGED <<fileVars, heapVars, frames, writes, history>>
      BY <2>7 DEF BlindReadBegin
    <3>2. i # NoFile => i \in DOMAIN disk
      BY DEF FileToRead, FilesKnown
    <3>3. i # NoFile => size \in Int
      BY <3>2, IntRangeAssumption DEF ToInt, TypeOK
    <3> HIDE DEF size
    <3> QED
      BY <3>1, <3>2, <3>3 DEF TypeOK, FilesKnown, fileVars, heapVars, history
  <2>8. ASSUME NEW n \in Names, Delete(n)
        PROVE  TypeOK' /\ FilesKnown'
    BY <2>8 DEF Delete, Dealloc, TypeOK, FilesKnown, fileVars, heapVars, history
  <2>9. ASSUME NEW n \in Names, NEW d \in Data, BlindWriteBegin(n, d)
        PROVE  TypeOK' /\ FilesKnown'
    <3>1. PICK i \in Inodes \cup {NoFile} :
            /\ writes < MaxWrites /\ writes' = writes + 1
            /\ OpenToWrite(n, i, TRUE, 0, CStr(d))
            /\ call' = IF i = NoFile THEN Idle
                       ELSE [op |-> "write", file |-> i, data |-> d, done |-> 0]
            /\ ret' = << >>
            /\ UNCHANGED <<heapVars, frames, proc>>
      BY <2>9 DEF BlindWriteBegin
    <3>2. CStr(d) \in Seq(Byte)
      <4>1. d \in Seq(Byte)
        BY FilesAssumption DEF Text
      <4> QED
        BY <4>1, CStrType
    <3>3. /\ DOMAIN dir' \subseteq Names /\ dir' \in [DOMAIN dir' -> Inodes]
          /\ DOMAIN disk' \subseteq Inodes /\ disk' \in [DOMAIN disk' -> Seq(Byte)]
          /\ DOMAIN sent' = DOMAIN disk' /\ sent' \in [DOMAIN disk' -> Seq(Byte)]
          /\ raced' \subseteq Inodes
          /\ DOMAIN disk \subseteq DOMAIN disk' /\ i \in DOMAIN disk' \cup {NoFile}
          /\ \A p \in DOMAIN dir' : dir'[p] \in DOMAIN disk'
      BY <3>1, <3>2, OpenToWriteType
    <3>4. TypeOK'
      BY <3>1, <3>3, BoundsAssumption DEF TypeOK, heapVars
    <3>5. FilesKnown'
      BY <3>1, <3>3 DEF FilesKnown, heapVars
    <3> QED
      BY <3>4, <3>5
  <2>10. CASE BlindReadEnd
    <3>1. /\ call # Idle /\ call.op = "read" /\ call' = Idle
          /\ \/ proc' = "aborted" /\ ret' = << >>
             \/ ret' = Decode(Fill(disk[call.file], call.size)) /\ UNCHANGED proc
          /\ UNCHANGED <<fileVars, heapVars, frames, writes, history>>
      BY <2>10 DEF BlindReadEnd
    <3>2. call.size \in Nat /\ disk[call.file] \in Seq(Byte)
      BY <3>1 DEF TypeOK, FilesKnown
    <3>3. Decode(Fill(disk[call.file], call.size)) \in Seq(Byte \cup {Junk})
      BY <3>2, FillType, DecodeType
    <3>4. ret' \in Seq(Byte \cup {Junk}) /\ proc' \in {proc, "aborted"}
      <4> << >> \in Seq(Byte \cup {Junk})
        OBVIOUS
      <4> QED
        BY <3>1, <3>3
    <3>5. UNCHANGED <<fileVars, heapVars, frames, writes, history>> /\ call' = Idle
      BY <3>1
    <3>6. TypeOK'
      BY <3>4, <3>5 DEF TypeOK, fileVars, heapVars, history
    <3>7. FilesKnown'
      BY <3>5 DEF FilesKnown, fileVars, heapVars, history
    <3> QED
      BY <3>6, <3>7
  <2>11. CASE BlindWriteSome
    <3>1. PICK k \in 1..(Len(CStr(call.data)) - call.done) :
            /\ call' = [call EXCEPT !.done = @ + k]
            /\ disk' = [disk EXCEPT ![call.file] =
                 WriteAt(@, call.done, SubSeq(call.data, call.done + 1, call.done + k))]
      BY <2>11 DEF BlindWriteSome
    <3>2. /\ call # Idle /\ call.op = "write"
          /\ UNCHANGED <<dir, heapVars, frames, proc, ret, writes, history>>
      BY <2>11 DEF BlindWriteSome
    <3>3. call \in [op: {"write"}, file: Inodes, data: Data, done: Nat]
      BY <3>2 DEF TypeOK
    <3>4. call.data \in Seq(Byte) /\ call.file \in DOMAIN disk
      BY <3>2, <3>3, FilesAssumption DEF Text, FilesKnown
    <3>5. CStr(call.data) \in Seq(Byte) /\ Len(CStr(call.data)) \in 0..Len(call.data)
      BY <3>4, CStrType
    <3>6. k \in Nat /\ call.done + k <= Len(call.data)
      BY <3>3, <3>4, <3>5
    <3>7. call' \in [op: {"write"}, file: Inodes, data: Data, done: Nat] /\ call'.file = call.file
      BY <3>1, <3>3, <3>6
    <3>8. SubSeq(call.data, call.done + 1, call.done + k) \in Seq(Byte)
      BY <3>3, <3>4, <3>6
    <3>9. WriteAt(disk[call.file], call.done, SubSeq(call.data, call.done + 1, call.done + k))
            \in Seq(Byte)
      BY <3>3, <3>4, <3>8, WriteAtType DEF TypeOK
    <3>10. DOMAIN disk' = DOMAIN disk /\ disk' \in [DOMAIN disk -> Seq(Byte)]
      BY <3>1, <3>9 DEF TypeOK
    <3> QED
      BY <3>2, <3>4, <3>7, <3>10 DEF TypeOK, FilesKnown, heapVars, history
  <2>12. CASE BlindWriteEnd
    BY <2>12 DEF BlindWriteEnd, TypeOK, FilesKnown, fileVars, heapVars, history
  <2>13. CASE Exit
    BY <2>13 DEF Exit, TypeOK, FilesKnown, fileVars, heapVars, history
  <2>14. ASSUME NEW n \in Names, NEW c \in InitContents, ExternalWrite(n, c)
         PROVE  TypeOK' /\ FilesKnown'
    <3>1. c \in Seq(Byte) /\ n \in DOMAIN dir
      BY <2>14, FilesAssumption DEF ExternalWrite
    <3> QED
      BY <2>14, <3>1 DEF ExternalWrite, TypeOK, FilesKnown, heapVars
  <2>15. CASE UNCHANGED vars
    BY <2>15 DEF vars, TypeOK, FilesKnown
  <2> QED
    BY <2>1, <2>2, <2>3, <2>4, <2>5, <2>6, <2>7, <2>8, <2>9, <2>10, <2>11, <2>12,
       <2>13, <2>14, <2>15 DEF Next
<1> QED
  BY <1>1, <1>2, PTL DEF Spec

\* Every state of every instance is well typed: no binding of winx_fs.hpp
\* reads a file, a stream or a struct that was never created.
THEOREM TypeCorrect == Spec => []TypeOK
BY InvHolds, PTL DEF Inv

\* Whatever a program does, even with the freed addresses its closed handles
\* keep, the allocated ofstreams are exactly those the allocated structs own,
\* one each (open_file and close_file, winx_util.cpp:32-76).
THEOREM StructsKeepTheirStreams == Spec => []StructsOwnStreams
BY InvHolds, PTL DEF Inv

-----------------------------------------------------------------------------
\* The handles that a program has not closed own a struct each, with the ofstream
\* of their file, and nothing else is allocated, if the program closes no handle
\* twice: what it could still close was not freed, is not shared, and is not
\* lost, whatever it does with the handles it has closed (winx_util.cpp:32-76).
THEOREM HandlesOwnTheirStructs ==
  ASSUME ClosesOnce
  PROVE  Spec => []Owned
<1>1. Init => Owned
  BY DEF Init, Owned, StructsOwnStreams, Live
<1>2. Inv /\ Inv' /\ Owned /\ [Next]_vars => Owned'
  <2> SUFFICES ASSUME Inv, Inv', Owned, [Next]_vars
               PROVE  Owned'
    OBVIOUS
  <2> USE DEF Live
  <2>1. ASSUME NEW o \in Objs, NEW n \in Names, NEW m \in Modes, Open(o, n, m)
        PROVE  Owned'
    <3>1. PICK a, i, in :
            /\ a \in HandlePtrs \ DOMAIN hnd
            /\ obj' = Alloc(obj, o, [addr |-> a, file |-> i, closed |-> FALSE])
            /\ \/ hnd' = Alloc(hnd, a, [in |-> in, out |-> Null]) /\ UNCHANGED outs
               \/ \E q \in StreamPtrs \ DOMAIN outs :
                    /\ outs' = Alloc(outs, q, [file |-> i, pos |-> 0,
                                               app |-> "w" \notin m, buf |-> << >>, bad |-> FALSE])
                    /\ hnd' = Alloc(hnd, a, [in |-> in, out |-> q])
      BY <2>1 DEF Open
    <3>1a. a \in HandlePtrs \ DOMAIN hnd
      BY <3>1
    <3>2. o \notin DOMAIN obj
      BY <2>1 DEF Open
    <3>3. /\ DOMAIN obj' = DOMAIN obj \cup {o}
          /\ obj'[o] = [addr |-> a, file |-> i, closed |-> FALSE]
          /\ \A p \in DOMAIN obj : obj'[p] = obj[p]
      BY <3>1, <3>2 DEF Alloc
    <3>4. DOMAIN hnd' = DOMAIN hnd \cup {a} /\ \A b \in DOMAIN hnd : hnd'[b] = hnd[b]
      BY <3>1, <3>1a DEF Alloc
    <3>5. Live' = Live \cup {o}
      BY <3>2, <3>3
    <3>6. \A p \in Live : obj'[p] = obj[p] /\ obj[p].addr \in DOMAIN hnd /\ obj[p].addr # a
      BY <3>1a, <3>2, <3>3 DEF Owned
    <3>7. \A q \in DOMAIN outs : q \in DOMAIN outs' /\ outs'[q] = outs[q]
      BY <3>1 DEF Alloc
    <3>8. hnd'[a].out # Null => outs'[hnd'[a].out].file = i
      <4>1. CASE hnd' = Alloc(hnd, a, [in |-> in, out |-> Null])
        BY <4>1 DEF Alloc
      <4>2. ASSUME NEW q, hnd' = Alloc(hnd, a, [in |-> in, out |-> q]),
                   outs' = Alloc(outs, q, [file |-> i, pos |-> 0,
                                           app |-> "w" \notin m, buf |-> << >>, bad |-> FALSE])
            PROVE  hnd'[a].out = q /\ outs'[q].file = i
        BY <4>2 DEF Alloc
      <4> QED
        BY <3>1, <4>1, <4>2
    <3>9. \A p \in Live : hnd[obj[p].addr].out # Null => hnd[obj[p].addr].out \in DOMAIN outs
      BY <3>6 DEF Owned, StructsOwnStreams
    <3> HIDE DEF Live
    <3>10. DOMAIN hnd' = {obj'[p].addr : p \in Live'}
      BY <3>3, <3>4, <3>5, <3>6 DEF Owned
    <3>11. \A p, r \in Live' : obj'[p].addr = obj'[r].addr => p = r
      BY <3>3, <3>5, <3>6 DEF Owned
    <3>12. \A p \in Live' : hnd'[obj'[p].addr].out # Null =>
                              outs'[hnd'[obj'[p].addr].out].file = obj'[p].file
      BY <3>3, <3>4, <3>5, <3>6, <3>7, <3>8, <3>9 DEF Owned
    <3> QED
      BY <3>10, <3>11, <3>12 DEF Owned, Inv
  <2>2. ASSUME NEW o \in Objs, HandleRead(o)
        PROVE  Owned'
    <3>1. /\ UNCHANGED <<outs, obj>> /\ DOMAIN hnd' = DOMAIN hnd
          /\ \A b \in DOMAIN hnd : hnd'[b].out = hnd[b].out
      BY <2>2, HandleReadKeepsStreams DEF HandleRead, Inv
    <3>2. \A p \in Live : obj[p].addr \in DOMAIN hnd
      BY DEF Owned
    <3> QED
      BY <3>1, <3>2 DEF Owned, Inv
  <2>3. ASSUME NEW o \in Objs, Close(o)
        PROVE  Owned'
    <3> DEFINE a == obj[o].addr
    <3>1. /\ o \in Live /\ hnd' = Dealloc(hnd, a)
          /\ outs' = outs \/ outs' = Dealloc(outs, hnd[a].out)
          /\ obj' = [obj EXCEPT ![o].closed = TRUE]
      BY <2>3 DEF Close, MayClose, MayUse, FlushAndFree
    <3>2. DOMAIN hnd' = DOMAIN hnd \ {a} /\ \A b \in DOMAIN hnd \ {a} : hnd'[b] = hnd[b]
      BY <3>1 DEF Dealloc
    <3>3. Live' = Live \ {o} /\ \A p \in Live' : obj'[p] = obj[p]
      BY <3>1 DEF Inv, TypeOK, JSHandle
    <3>4. \A p \in Live' : obj[p].addr \in DOMAIN hnd \ {a}
      BY <3>1, <3>3 DEF Owned
    <3>5. \A q \in DOMAIN outs \ {hnd[a].out} : outs'[q] = outs[q]
      BY <3>1 DEF Dealloc
    <3>6. \A p \in Live' : hnd[obj[p].addr].out # Null =>
            hnd[obj[p].addr].out \in DOMAIN outs \ {hnd[a].out}
      <4>1. a \in DOMAIN hnd
        BY <3>1 DEF Owned
      <4> HIDE DEF Live, a
      <4> QED
        BY <3>4, <4>1 DEF Owned, StructsOwnStreams
    <3> HIDE DEF Live, a
    <3>7. DOMAIN hnd' = {obj'[p].addr : p \in Live'}
      BY <3>1, <3>2, <3>3, <3>4 DEF Owned, a
    <3>8. \A p, r \in Live' : obj'[p].addr = obj'[r].addr => p = r
      BY <3>3 DEF Owned
    <3>9. \A p \in Live' : hnd'[obj'[p].addr].out # Null =>
                             outs'[hnd'[obj'[p].addr].out].file = obj'[p].file
      <4> SUFFICES ASSUME NEW p \in Live', hnd'[obj'[p].addr].out # Null
                   PROVE  outs'[hnd'[obj'[p].addr].out].file = obj'[p].file
        OBVIOUS
      <4>1. p \in Live /\ obj'[p] = obj[p] /\ hnd'[obj'[p].addr] = hnd[obj[p].addr]
        BY <3>2, <3>3, <3>4
      <4>2. outs'[hnd[obj[p].addr].out] = outs[hnd[obj[p].addr].out]
        BY <3>5, <3>6, <4>1
      <4>3. outs[hnd[obj[p].addr].out].file = obj[p].file
        BY <4>1 DEF Owned
      <4> QED
        BY <4>1, <4>2, <4>3
    <3> QED
      BY <3>7, <3>8, <3>9 DEF Owned, Inv
  <2>4. ASSUME NEW d \in Data, WriteEnd(d)
        PROVE  Owned'
    <3>1. UNCHANGED <<hnd, obj>>
      BY <2>4 DEF WriteEnd
    <3>2. /\ DOMAIN outs' = DOMAIN outs
          /\ \A q \in DOMAIN outs : outs'[q].file = outs[q].file
      <4>1. d \in Seq(Byte)
        BY FilesAssumption DEF Text
      <4>2. CStr(d) \in Seq(Byte)
        BY <4>1, CStrType
      <4>3. TypeOK /\ FilesKnown
        BY DEF Inv
      <4>4. \/ UNCHANGED outs
            \/ \E q \in DOMAIN outs : Insert(q, CStr(d))
        BY <2>4 DEF WriteEnd
      <4> QED
        BY <4>2, <4>3, <4>4, InsertType
    <3>3. \A p \in Live : hnd[obj[p].addr].out # Null => hnd[obj[p].addr].out \in DOMAIN outs
      BY DEF Owned, StructsOwnStreams
    <3> QED
      BY <3>1, <3>2, <3>3 DEF Owned, Inv
  <2>5. ASSUME UNCHANGED <<hnd, outs, obj>>
        PROVE  Owned'
    BY <2>5 DEF Owned, Inv
  <2>6. ASSUME NEW o \in Objs, WriteBegin(o)
        PROVE  UNCHANGED <<hnd, outs, obj>>
    BY <2>6 DEF WriteBegin, heapVars
  <2>7. ASSUME UseFreed \/ PassUnconverted
        PROVE  UNCHANGED <<hnd, outs, obj>>
    BY <2>7 DEF UseFreed, PassUnconverted, Undefined, heapVars
  <2>8. ASSUME NEW n \in Names, BlindReadBegin(n) \/ Delete(n)
        PROVE  UNCHANGED <<hnd, outs, obj>>
    BY <2>8 DEF BlindReadBegin, Delete, heapVars
  <2>9. ASSUME NEW n \in Names, NEW d \in Data, BlindWriteBegin(n, d)
        PROVE  UNCHANGED <<hnd, outs, obj>>
    BY <2>9 DEF BlindWriteBegin, heapVars
  <2>10. ASSUME BlindReadEnd \/ BlindWriteSome \/ BlindWriteEnd \/ Exit
         PROVE  UNCHANGED <<hnd, outs, obj>>
    BY <2>10 DEF BlindReadEnd, BlindWriteSome, BlindWriteEnd, Exit, heapVars
  <2>11. ASSUME NEW n \in Names, NEW c \in InitContents, ExternalWrite(n, c)
         PROVE  UNCHANGED <<hnd, outs, obj>>
    BY <2>11 DEF ExternalWrite, heapVars
  <2>12. CASE UNCHANGED vars
    BY <2>5, <2>12 DEF vars
  <2> QED
    BY <2>1, <2>2, <2>6, <2>3, <2>4, <2>7, <2>5, <2>8, <2>9, <2>10, <2>11, <2>12 DEF Next
<1> QED
  BY <1>1, <1>2, InvHolds, PTL DEF Spec

-----------------------------------------------------------------------------
(* Contents of files.                                                      *)

INSTANCE TextLemmas WITH Letter <- Byte

\* A piece that is written where the file ends comes behind what it holds
\* (winx_util.cpp:28, 72, 92).
LEMMA WrittenBehind ==
  ASSUME NEW s \in Texts, NEW b \in Texts, NEW p, p = Len(s)
  PROVE  WriteAt(s, p, b) = Then(s, b)
<1>1. CASE b = << >>
  BY <1>1, Nothing DEF WriteAt
<1>2. CASE b # << >>
  <2>1. /\ Len(s) \in Nat /\ Len(b) \in Nat \ {0}
        /\ DOMAIN s = 1..Len(s) /\ DOMAIN b = 1..Len(b)
    BY <1>2 DEF Texts
  <2>2. WriteAt(s, p, b) =
          [k \in 1..(Len(s) + Len(b)) |-> IF k <= Len(s) THEN s[k] ELSE b[k - Len(s)]]
    <3>1. Len(s) + Len(b) > Len(s)
      BY <2>1
    <3>2. WriteAt(s, p, b) =
            [k \in 1..(Len(s) + Len(b)) |->
               IF k > Len(s) /\ k <= Len(s) + Len(b) THEN b[k - Len(s)]
               ELSE IF k <= Len(s) THEN s[k] ELSE Nul]
      BY <1>2, <3>1 DEF WriteAt
    <3>3. \A k \in 1..(Len(s) + Len(b)) :
            (k > Len(s) /\ k <= Len(s) + Len(b)) <=> ~(k <= Len(s))
      BY <2>1
    <3> QED
      BY <3>2, <3>3
  <2>3. s \o b = [k \in 1..(Len(s) + Len(b)) |-> IF k <= Len(s) THEN s[k] ELSE b[k - Len(s)]]
    <3>1. /\ s \o b \in Seq(Byte) /\ Len(s \o b) = Len(s) + Len(b)
          /\ \A k \in 1..(Len(s) + Len(b)) : (s \o b)[k] =
                                             IF k <= Len(s) THEN s[k] ELSE b[k - Len(s)]
      BY ConcatProperties DEF Texts
    <3>2. PICK f \in Seq(Byte) : f = s \o b
      BY <3>1
    <3>3. f = [k \in 1..Len(f) |-> f[k]]
      BY LenProperties
    <3>4. \A k \in 1..Len(f) : f[k] = IF k <= Len(s) THEN s[k] ELSE b[k - Len(s)]
      BY <3>1, <3>2
    <3>5. f = [k \in 1..Len(f) |-> IF k <= Len(s) THEN s[k] ELSE b[k - Len(s)]]
      BY <3>3, <3>4, Zenon
    <3> QED
      BY <3>1, <3>2, <3>5
  <2> QED
    BY <2>2, <2>3 DEF Then
<1> QED
  BY <1>1, <1>2

\* A C string is a beginning of the text it was made of (winx_fs.hpp:61, 133).
LEMMA CStrBegins ==
  ASSUME NEW s \in Texts
  PROVE  /\ CStr(s) \in Texts /\ Len(CStr(s)) \in 0..Len(s)
         /\ \A j \in 1..Len(CStr(s)) : CStr(s)[j] = s[j]
<1>1. CStr(s) \in Seq(Byte) /\ Len(CStr(s)) \in 0..Len(s)
  BY CStrType DEF Texts
<1>2. PICK n : CStr(s) = SubSeq(s, 1, n) /\ n = Cardinality({k \in DOMAIN s : \A j \in 1..k : s[j] # Nul})
  BY DEF CStr
<1>3. n \in Nat /\ n <= Len(s)
  <2> DEFINE P == {k \in DOMAIN s : \A j \in 1..k : s[j] # Nul}
  <2>1. PICK l \in Nat : l = Len(s) /\ DOMAIN s = 1..l
    BY DEF Texts
  <2>2. IsFiniteSet(1..l) /\ Cardinality(1..l) = IF 1 > l THEN 0 ELSE l - 1 + 1
    BY FS_Interval
  <2>3. P \subseteq 1..l
    BY <2>1
  <2>4. Cardinality(P) \in 0..l
    BY <2>2, <2>3, FS_Subset, FS_CardinalityType
  <2> QED
    BY <1>2, <2>1, <2>4 DEF P
<1>4. \A j \in 1..Len(CStr(s)) : CStr(s)[j] = s[j]
  BY <1>1, <1>2, <1>3 DEF Texts
<1> QED
  BY <1>1, <1>4 DEF Texts

\* So a piece of a text that is within its C string is a piece of the C string.
LEMMA PiecesAgree ==
  ASSUME NEW s \in Texts, NEW n \in Nat, NEW k \in Nat, n + k <= Len(CStr(s))
  PROVE  SubSeq(s, n + 1, n + k) = SubSeq(CStr(s), n + 1, n + k)
<1>1. PICK c \in Texts : c = CStr(s) /\ Len(c) \in 0..Len(s) /\ \A j \in 1..Len(c) : c[j] = s[j]
  BY CStrBegins
<1>2. Len(s) \in Nat /\ Len(c) \in Nat /\ n + k <= Len(c) /\ Len(c) <= Len(s)
  BY <1>1 DEF Texts
<1>3. \A j \in (n + 1)..(n + k) : c[j] = s[j]
  BY <1>1, <1>2
<1> QED
  BY <1>1, <1>2, <1>3 DEF Texts

-----------------------------------------------------------------------------
BlindWriting(i) == call # Idle /\ call.op = "write" /\ call.file = i

\* What a file holds is a beginning of what was put into it, and there is no room
\* for more; or it is followed by rest, which is on its way.
Full(i) == Len(disk[i]) = Quota /\ \E rest \in Texts : sent[i] = Then(disk[i], rest)
Holds(i, rest) == Len(disk[i]) <= Quota /\ sent[i] = Then(disk[i], rest)

\* The writer of a file is alone; it writes at the end; what is missing from the file
\* is in its buffer, or is what the blind write in progress has still to write.
Settled(i) ==
  /\ \A q, r \in Writers(i) : q = r
  /\ BlindWriting(i) =>
       /\ Writers(i) = {} /\ call.done = Len(disk[i]) /\ call.done <= Len(CStr(call.data))
       /\ Holds(i, SubSeq(CStr(call.data), call.done + 1, Len(CStr(call.data))))
  /\ Quiet(i) => Full(i) \/ Holds(i, << >>)
  /\ \A q \in Writers(i) :
       /\ ~outs[q].app => outs[q].pos = Len(disk[i])
       /\ outs[q].bad => Full(i)
       /\ Full(i) \/ Holds(i, outs[q].buf)

Content == \A i \in Promised : Settled(i)

\* A file that a step leaves alone, with its writers, stays as it is.
LEMMA Unmoved ==
  ASSUME NEW i, Settled(i), disk'[i] = disk[i], sent'[i] = sent[i],
         Writers(i)' = Writers(i), \A q \in Writers(i) : outs'[q] = outs[q],
         UNCHANGED call \/ (~BlindWriting(i) /\ ~BlindWriting(i)')
  PROVE  Settled(i)'
<1>1. Full(i)' = Full(i) /\ \A rest : Holds(i, rest)' = Holds(i, rest)
  BY DEF Full, Holds
<1>2. Quiet(i)' = Quiet(i)
  BY DEF Quiet, BlindWriting
<1> QED
  BY <1>1, <1>2 DEF Settled, BlindWriting, Holds, Full

\* What the two promises need of a file that holds all that was put into it, or that
\* is full.
LEMMA SettledKept ==
  ASSUME TypeOK, NEW i \in DOMAIN disk, Full(i) \/ Holds(i, << >>)
  PROVE  disk[i] = Promise!Kept(sent[i])
<1>1. PICK d \in Texts, t \in Texts : d = disk[i] /\ t = sent[i]
  BY DEF TypeOK, Texts
<1>2. Len(d) \in Nat /\ Len(t) \in Nat /\ SubSeq(d, 1, Len(d)) = d /\ Quota \in Nat
  BY AllOut, Lengths, BoundsAssumption
<1>3. CASE Holds(i, << >>)
  <2>1. Len(d) <= Quota /\ t = d
    BY <1>1, <1>3, Nothing DEF Holds
  <2> QED
    BY <1>1, <1>2, <2>1 DEF Promise!Kept
<1>4. CASE Full(i)
  <2>1. PICK rest \in Texts : t = Then(d, rest) /\ Len(d) = Quota
    BY <1>1, <1>4 DEF Full
  <2>2. SubSeq(t, 1, Len(d)) = d
    BY <2>1, Beginning
  <2>3. Len(t) = Len(d) + Len(rest) /\ Len(rest) \in Nat
    BY <2>1, Lengths
  <2> QED
    BY <1>1, <1>2, <2>1, <2>2, <2>3 DEF Promise!Kept
<1> QED
  BY <1>3, <1>4

\* What leaves an ofstream that writes at the end of its file, as far as the file
\* system takes it (winx_util.cpp:72, 92).
LEMMA FlushedBehind ==
  ASSUME TypeOK, FilesKnown, NEW q \in DOMAIN outs, NEW i, i = outs[q].file, i # NoFile,
         ~outs[q].app => outs[q].pos = Len(disk[i]),
         NEW p \in Texts, NEW k \in 0..Len(p), NEW t, t = Taken(outs[q], k)
  PROVE  /\ Flushed(outs[q], p, k) = [disk EXCEPT ![i] = Then(disk[i], SubSeq(p, 1, t))]
         /\ Len(disk[i]) <= Quota =>
              t = IF Len(disk[i]) + k <= Quota THEN k ELSE Quota - Len(disk[i])
         /\ i \in DOMAIN disk /\ disk[i] \in Texts /\ SubSeq(p, 1, t) \in Texts
<1>1. i \in DOMAIN disk /\ disk[i] \in Texts /\ k \in Nat /\ Offset(outs[q]) = Len(disk[i])
  BY DEF TypeOK, FilesKnown, Texts, Offset
<1>2. /\ Len(disk[i]) <= Quota =>
           Taken(outs[q], k) = IF Len(disk[i]) + k <= Quota THEN k ELSE Quota - Len(disk[i])
      /\ Taken(outs[q], k) \in 0..k
  BY <1>1, TakenType DEF Taken
<1>3. t \in 0..k
  BY <1>2
<1>4. SubSeq(p, 1, t) \in Texts
  <2>1. t \in 0..Len(p)
    BY <1>1, <1>3 DEF Texts
  <2> QED
    BY <2>1, Split
<1>5. WriteAt(disk[i], Offset(outs[q]), SubSeq(p, 1, t)) = Then(disk[i], SubSeq(p, 1, t))
  BY <1>1, <1>4, WrittenBehind
<1> QED
  BY <1>1, <1>2, <1>4, <1>5 DEF Flushed

\* The step that ends a handle's write: its text comes behind all others, in the
\* buffer or in the file, unless the file is full (winx_util.cpp:88-94).
LEMMA InsertSettles ==
  ASSUME TypeOK, FilesKnown, NEW q \in DOMAIN outs, NEW i, i = outs[q].file, i # NoFile,
         call = Idle, UNCHANGED call, Settled(i), NEW b \in Texts, Insert(q, b),
         sent' = [sent EXCEPT ![i] = @ \o b]
  PROVE  Settled(i)'
<1>1. /\ i \in DOMAIN disk /\ disk[i] \in Texts /\ i \in DOMAIN sent /\ sent[i] \in Texts
      /\ outs[q] \in OutStream /\ outs[q].buf \in Texts
      /\ outs[q].pos \in Nat
  BY DEF TypeOK, FilesKnown, Texts, OutStream
<1>2. sent'[i] = Then(sent[i], b)
  BY <1>1 DEF Then
<1>3. Writers(i) = {q}
  BY DEF Settled, Writers
<1>4. /\ DOMAIN outs' = DOMAIN outs /\ \A r \in DOMAIN outs : outs'[r].file = outs[r].file
  BY InsertType DEF Texts
<1>5. Writers(i)' = {q} /\ ~Quiet(i)' /\ ~BlindWriting(i)'
  BY <1>3, <1>4 DEF Writers, Quiet, BlindWriting
<1>6. /\ ~outs[q].app => outs[q].pos = Len(disk[i])
      /\ outs[q].bad => Full(i)
      /\ Full(i) \/ Holds(i, outs[q].buf)
      /\ Len(disk[i]) <= Quota
  BY <1>3, BoundsAssumption DEF Settled, Full, Holds
<1>7. Full(i) /\ disk'[i] = disk[i] => Full(i)'
  <2> SUFFICES ASSUME Full(i), disk'[i] = disk[i]
               PROVE  Full(i)'
    OBVIOUS
  <2>1. PICK rest \in Texts : sent[i] = Then(disk[i], rest) /\ Len(disk[i]) = Quota
    BY DEF Full
  <2>2. PICK d \in Texts : d = disk[i]
    BY <1>1
  <2>3. Then(rest, b) \in Texts /\ Then(Then(d, rest), b) = Then(d, Then(rest, b))
    BY Joined, Together
  <2>4. sent'[i] = Then(disk'[i], Then(rest, b))
    BY <1>2, <2>1, <2>2, <2>3
  <2> QED
    BY <2>1, <2>3, <2>4 DEF Full
<1>8. CASE outs[q].bad
  <2>1. UNCHANGED <<disk, outs>>
    BY <1>8 DEF Insert
  <2> QED
    BY <1>5, <1>6, <1>7, <1>8, <2>1 DEF Settled
<1>9. CASE ~outs[q].bad
  <2>1. PICK p \in Texts : p = outs[q].buf \o b
    BY <1>1, Joined DEF Then
  <2>2. PICK k \in 0..Len(p) :
          /\ disk' = Flushed(outs[q], p, k)
          /\ outs' = [outs EXCEPT
                ![q].buf = IF Taken(outs[q], k) = k THEN SubSeq(p, k + 1, Len(p)) ELSE @,
                ![q].pos = IF outs[q].app THEN @ ELSE @ + Taken(outs[q], k),
                ![q].bad = Taken(outs[q], k) # k]
    BY <1>9, <2>1 DEF Insert
  <2>3a. PICK t : t = Taken(outs[q], k)
    OBVIOUS
  <2>3. /\ t = Taken(outs[q], k)
        /\ t = IF Len(disk[i]) + k <= Quota THEN k ELSE Quota - Len(disk[i])
        /\ disk'[i] = Then(disk[i], SubSeq(p, 1, t))
    <3>1. Flushed(outs[q], p, k) = [disk EXCEPT ![i] = Then(disk[i], SubSeq(p, 1, t))]
      BY <1>6, <2>3a, FlushedBehind
    <3>2. t = IF Len(disk[i]) + k <= Quota THEN k ELSE Quota - Len(disk[i])
      BY <1>6, <2>3a DEF Taken, Offset
    <3> QED
      BY <1>1, <2>2, <2>3a, <3>1, <3>2
  <2>4. /\ t \in 0..k /\ disk'[i] \in Texts /\ Len(disk'[i]) = Len(disk[i]) + t
        /\ Len(disk'[i]) <= Quota
        /\ t = k => Then(disk[i], p) = Then(disk'[i], SubSeq(p, k + 1, Len(p)))
        /\ t # k => Len(disk'[i]) = Quota
        /\ \E rest \in Texts : Then(disk[i], p) = Then(disk'[i], rest)
    <3>1. PICK d \in Texts : d = disk[i]
      BY <1>1
    <3>1a. PICK e : e = disk'[i]
      OBVIOUS
    <3>2. /\ Quota \in Nat /\ Len(d) <= Quota /\ e = Then(d, SubSeq(p, 1, t))
          /\ t = IF Len(d) + k <= Quota THEN k ELSE Quota - Len(d)
      BY <1>6, <2>3, <3>1, <3>1a, BoundsAssumption
    <3>3. Fitted(d, p, Quota, k, t, e)
      BY <3>2, Room
    <3> QED
      BY <3>1, <3>1a, <3>3 DEF Fitted
  <2>5. /\ outs'[q].bad = (t # k) /\ outs'[q].app = outs[q].app
        /\ outs'[q].buf = IF t = k THEN SubSeq(p, k + 1, Len(p)) ELSE outs[q].buf
        /\ outs'[q].pos = IF outs[q].app THEN outs[q].pos ELSE outs[q].pos + t
    BY <1>1, <2>2, <2>3 DEF OutStream
  <2>6. ~outs'[q].app => outs'[q].pos = Len(disk'[i])
    BY <1>6, <2>4, <2>5
  <2>7. CASE Full(i)
    <3>1. t = 0
      BY <1>1, <2>3, <2>7, BoundsAssumption DEF Full
    <3>2. SubSeq(p, 1, t) = << >>
      BY <3>1, SubSeqEmpty
    <3>3. disk'[i] = disk[i]
      BY <1>1, <2>3, <3>2, Nothing
    <3> QED
      BY <1>5, <1>7, <2>6, <2>7, <3>3 DEF Settled
  <2>8. CASE ~Full(i)
    <3>1. sent'[i] = Then(disk[i], p)
      <4>1. sent[i] = Then(disk[i], outs[q].buf) /\ p = Then(outs[q].buf, b)
        BY <1>6, <2>1, <2>8 DEF Holds, Then
      <4> QED
        BY <1>1, <1>2, <4>1, Together
    <3>2. CASE t = k
      <4>1. Len(disk'[i]) <= Quota /\ sent'[i] = Then(disk'[i], outs'[q].buf)
        BY <2>4, <2>5, <3>1, <3>2
      <4> QED
        BY <1>5, <2>5, <2>6, <3>2, <4>1 DEF Settled, Holds
    <3>3. CASE t # k
      <4>1. Full(i)'
        BY <2>4, <3>1, <3>3 DEF Full
      <4> QED
        BY <1>5, <2>6, <4>1 DEF Settled
    <3> QED
      BY <3>2, <3>3
  <2> QED
    BY <2>7, <2>8
<1> QED
  BY <1>8, <1>9

\* The step that closes the only writer of a file: what is in its buffer comes behind
\* what the file holds, as far as there is room (winx_util.cpp:72).
LEMMA FreeSettles ==
  ASSUME TypeOK, FilesKnown, NEW q \in DOMAIN outs, NEW i, i = outs[q].file, i # NoFile,
         call = Idle, UNCHANGED <<call, sent>>, Settled(i), FlushAndFree(q)
  PROVE  Settled(i)'
<1>1. /\ i \in DOMAIN disk /\ disk[i] \in Texts /\ outs[q].buf \in Texts
      /\ Len(outs[q].buf) \in 0..Len(outs[q].buf)
  BY DEF TypeOK, FilesKnown, Texts, OutStream
<1>2. Writers(i) = {q}
  BY DEF Settled, Writers
<1>3. DOMAIN outs' = DOMAIN outs \ {q} /\ \A r \in DOMAIN outs' : outs'[r] = outs[r]
  BY FlushAndFreeType
<1>4. Writers(i)' = {} /\ ~BlindWriting(i)'
  BY <1>2, <1>3 DEF Writers, BlindWriting
<1>5. /\ ~outs[q].app => outs[q].pos = Len(disk[i])
      /\ Full(i) \/ Holds(i, outs[q].buf)
      /\ Len(disk[i]) <= Quota
  BY <1>2, BoundsAssumption DEF Settled, Full, Holds
<1>6a. PICK p \in Texts : p = outs[q].buf
  BY <1>1
<1>6. PICK k \in 0..Len(p) : p = outs[q].buf /\ k = Len(p)
  BY <1>1, <1>6a
<1>7. PICK t : /\ t = IF Len(disk[i]) + k <= Quota THEN k ELSE Quota - Len(disk[i])
               /\ disk'[i] = Then(disk[i], SubSeq(p, 1, t))
  <2>1. disk' = Flushed(outs[q], p, k)
    BY <1>6 DEF FlushAndFree
  <2>2. PICK t : t = Taken(outs[q], k)
    OBVIOUS
  <2>3. Flushed(outs[q], p, k) = [disk EXCEPT ![i] = Then(disk[i], SubSeq(p, 1, t))]
    <3>1. ~outs[q].app => outs[q].pos = Len(disk[i])
      BY <1>5
    <3> QED
      BY <1>6, <2>2, <3>1, FlushedBehind
  <2>4. t = IF Len(disk[i]) + k <= Quota THEN k ELSE Quota - Len(disk[i])
    BY <1>5, <2>2 DEF Taken, Offset
  <2> QED
    BY <1>1, <2>1, <2>3, <2>4
<1>8. /\ t \in 0..k /\ disk'[i] \in Texts /\ Len(disk'[i]) = Len(disk[i]) + t
      /\ Len(disk'[i]) <= Quota
      /\ t = k => Then(disk[i], p) = Then(disk'[i], SubSeq(p, k + 1, Len(p)))
      /\ t # k => Len(disk'[i]) = Quota
      /\ \E rest \in Texts : Then(disk[i], p) = Then(disk'[i], rest)
  <2>1. PICK d \in Texts : d = disk[i]
    BY <1>1
  <2>1a. PICK e : e = disk'[i]
    OBVIOUS
  <2>2. /\ Quota \in Nat /\ Len(d) <= Quota /\ e = Then(d, SubSeq(p, 1, t))
        /\ t = IF Len(d) + k <= Quota THEN k ELSE Quota - Len(d)
    BY <1>5, <1>7, <2>1, <2>1a, BoundsAssumption
  <2>3. Fitted(d, p, Quota, k, t, e)
    BY <2>2, Room
  <2> QED
    BY <2>1, <2>1a, <2>3 DEF Fitted
<1>9. Full(i)' \/ Holds(i, << >>)'
  <2>1. CASE Full(i)
    <3>1. t = 0
      BY <1>1, <1>7, <2>1, BoundsAssumption DEF Full
    <3>2. SubSeq(p, 1, t) = << >>
      BY <3>1, SubSeqEmpty
    <3>3. disk'[i] = disk[i]
      BY <1>1, <1>7, <3>2, Nothing
    <3> QED
      BY <2>1, <3>3 DEF Full
  <2>2. CASE ~Full(i)
    <3>1. sent'[i] = Then(disk[i], p)
      BY <1>5, <1>6, <2>2 DEF Holds
    <3>2. CASE t = k
      <4>1. SubSeq(p, k + 1, Len(p)) = << >>
        BY <1>6, AllOut
      <4> QED
        BY <1>8, <3>1, <3>2, <4>1 DEF Holds
    <3>3. CASE t # k
      BY <1>8, <3>1, <3>3 DEF Full
    <3> QED
      BY <3>2, <3>3
  <2> QED
    BY <2>1, <2>2
<1> QED
  BY <1>4, <1>9 DEF Settled

\* Opening a file to write it changes no other file, and if the file comes or stays
\* under the promise then it has no other writer, and holds nothing, or what it held
\* (winx_util.cpp:25, 46, 50).
LEMMA Opened ==
  ASSUME TypeOK, FilesKnown, NEW n \in Names, NEW i \in Inodes \cup {NoFile},
         NEW trunc \in BOOLEAN, NEW k, NEW now \in Texts,
         OpenToWrite(n, i, trunc, k, now), i # NoFile
  PROVE  /\ DOMAIN disk' = DOMAIN disk \cup {i}
         /\ \A j \in DOMAIN disk \ {i} : /\ disk'[j] = disk[j] /\ sent'[j] = sent[j]
                                         /\ j \notin raced' => j \notin raced
         /\ i \notin raced' =>
              /\ Writers(i) = {}
              /\ \/ disk'[i] = << >> /\ sent'[i] = now
                 \/ /\ ~trunc /\ i \in Promised
                    /\ disk'[i] = disk[i] /\ sent'[i] = sent[i]
<1> DEFINE empty == trunc \/ n \notin DOMAIN dir
<1>1. /\ IF n \in DOMAIN dir THEN i = dir[n] ELSE i \in Inodes \ DOMAIN disk
      /\ disk' = Alloc(disk, i, IF empty THEN << >> ELSE disk[i])
      /\ sent' = Alloc(sent, i, IF empty THEN now ELSE sent[i])
      /\ raced' = IF Writers(i) # {} THEN raced \cup {i}
                  ELSE IF trunc THEN raced \ {i} ELSE raced
  BY DEF OpenToWrite
<1>2. DOMAIN disk = DOMAIN sent /\ (~empty => i \in DOMAIN disk)
  BY <1>1 DEF TypeOK, FilesKnown
<1> HIDE DEF empty
<1>3. /\ DOMAIN disk' = DOMAIN disk \cup {i}
      /\ disk'[i] = (IF empty THEN << >> ELSE disk[i])
      /\ sent'[i] = (IF empty THEN now ELSE sent[i])
      /\ \A j \in DOMAIN disk \ {i} : disk'[j] = disk[j] /\ sent'[j] = sent[j]
  BY <1>1, <1>2 DEF Alloc
<1>4. \A j \in DOMAIN disk \ {i} : j \notin raced' => j \notin raced
  BY <1>1
<1>5. i \notin raced' => Writers(i) = {} /\ (trunc \/ i \notin raced)
  BY <1>1
<1> QED
  BY <1>2, <1>3, <1>4, <1>5 DEF Promised, empty

\* open_file makes a new ofstream on the file it opens: with mode "w" the file is
\* empty, without it the stream appends (winx_util.cpp:44-52).
LEMMA OpenSettles ==
  ASSUME TypeOK, FilesKnown, Content, call = Idle, UNCHANGED call,
         NEW n \in Names, NEW i \in Inodes \cup {NoFile},
         NEW trunc \in BOOLEAN, NEW k, OpenToWrite(n, i, trunc, k, << >>),
         NEW q \in StreamPtrs \ DOMAIN outs,
         outs' = Alloc(outs, q, [file |-> i, pos |-> 0, app |-> ~trunc, buf |-> << >>,
                                 bad |-> FALSE])
  PROVE  Content'
<1> DEFINE s == [file |-> i, pos |-> 0, app |-> ~trunc, buf |-> << >>, bad |-> FALSE]
<1>1. /\ DOMAIN outs' = DOMAIN outs \cup {q} /\ outs'[q] = s
      /\ \A r \in DOMAIN outs : outs'[r] = outs[r]
  BY DEF Alloc
<1>2. \A j : /\ j # i => Writers(j)' = Writers(j)
             /\ j = i => Writers(j)' = Writers(j) \cup {q}
             /\ \A r \in Writers(j) : outs'[r] = outs[r]
  <2> TAKE j
  <2>1. outs'[q].file = i
    BY <1>1
  <2> HIDE DEF s
  <2>2. \A r \in Writers(j) : outs'[r] = outs[r]
    BY <1>1 DEF Writers
  <2>3. Writers(j)' = {r \in DOMAIN outs \cup {q} : outs'[r].file = j}
    BY <1>1 DEF Writers
  <2>4. ASSUME j # i PROVE Writers(j)' = Writers(j)
    BY <1>1, <2>1, <2>3, <2>4 DEF Writers
  <2>5. ASSUME j = i PROVE Writers(j)' = Writers(j) \cup {q}
    BY <1>1, <2>1, <2>3, <2>5 DEF Writers
  <2> QED
    BY <2>2, <2>4, <2>5
<1>3. \A j : ~BlindWriting(j) /\ ~BlindWriting(j)'
  BY DEF BlindWriting
<1>4. CASE i = NoFile
  <2>1. UNCHANGED <<disk, sent, raced>> /\ i \notin DOMAIN disk
    <3>1. i \notin Inodes
      BY <1>4, FilesAssumption
    <3>2. UNCHANGED <<disk, sent, raced>>
      BY <3>1 DEF OpenToWrite, TypeOK, fileVars, history
    <3> QED
      BY <3>1, <3>2 DEF TypeOK
  <2> SUFFICES ASSUME NEW j \in Promised'
               PROVE  Settled(j)'
    BY DEF Content
  <2>2. j \in Promised /\ j # i
    BY <2>1 DEF Promised
  <2>3. Settled(j)
    BY <2>2 DEF Content
  <2> QED
    BY <1>2, <2>1, <2>2, <2>3, Unmoved
<1>5. CASE i # NoFile
  <2>1. << >> \in Texts
    BY Nothing
  <2>2. /\ DOMAIN disk' = DOMAIN disk \cup {i}
        /\ \A j \in DOMAIN disk \ {i} : /\ disk'[j] = disk[j] /\ sent'[j] = sent[j]
                                        /\ j \notin raced' => j \notin raced
        /\ i \notin raced' =>
             /\ Writers(i) = {}
             /\ \/ disk'[i] = << >> /\ sent'[i] = << >>
                \/ /\ ~trunc /\ i \in Promised
                   /\ disk'[i] = disk[i] /\ sent'[i] = sent[i]
    BY <1>5, <2>1, Opened, ZenonT(40)
  <2> SUFFICES ASSUME NEW j \in Promised'
               PROVE  Settled(j)'
    BY DEF Content
  <2>3. CASE j # i
    <3>1. j \in Promised /\ disk'[j] = disk[j] /\ sent'[j] = sent[j]
      BY <2>2, <2>3 DEF Promised
    <3>2. Settled(j)
      BY <3>1 DEF Content
    <3> QED
      BY <1>2, <2>3, <3>1, <3>2, Unmoved
  <2>4. CASE j = i
    <3>1. i \notin raced' /\ Writers(i)' = {q}
      BY <1>2, <2>2, <2>4 DEF Promised
    <3>2. ~Quiet(i)' /\ ~BlindWriting(i)'
      BY <1>3, <3>1 DEF Quiet
    <3>3. /\ outs'[q].pos = 0 /\ outs'[q].app = ~trunc /\ outs'[q].buf = << >>
          /\ outs'[q].bad = FALSE
      BY <1>1
    <3>4. CASE disk'[i] = << >> /\ sent'[i] = << >>
      <4>1. Len(disk'[i]) = 0 /\ sent'[i] = Then(disk'[i], << >>)
        BY <2>1, <3>4, Nothing
      <4> QED
        BY <2>4, <3>1, <3>2, <3>3, <4>1, BoundsAssumption DEF Settled, Holds
    <3>5. CASE ~trunc /\ i \in Promised /\ disk'[i] = disk[i] /\ sent'[i] = sent[i]
      <4>1. Quiet(i)
        BY <2>2, <3>1 DEF Quiet
      <4>2. Full(i) \/ Holds(i, << >>)
        BY <3>5, <4>1 DEF Content, Settled
      <4>3. Full(i)' \/ (Len(disk'[i]) <= Quota /\ sent'[i] = Then(disk'[i], << >>))
        BY <3>5, <4>2 DEF Full, Holds
      <4> QED
        BY <2>4, <3>1, <3>2, <3>3, <3>5, <4>3 DEF Settled, Holds
    <3> QED
      BY <2>2, <3>1, <3>4, <3>5
  <2> QED
    BY <2>3, <2>4
<1> QED
  BY <1>4, <1>5

-----------------------------------------------------------------------------
\* Steps that neither write nor open a file to write it keep every file as it is.
LEMMA IdleSettles ==
  ASSUME Content, UNCHANGED <<disk, sent, outs>>, raced \subseteq raced',
         UNCHANGED call \/ \A i : ~BlindWriting(i) /\ ~BlindWriting(i)'
  PROVE  Content'
<1> SUFFICES ASSUME NEW i \in Promised'
             PROVE  Settled(i)'
  BY DEF Content
<1>1. i \in Promised
  BY DEF Promised
<1>2. Settled(i) /\ Writers(i)' = Writers(i)
  BY <1>1 DEF Content, Writers
<1> QED
  BY <1>2, Unmoved

\* A handle's write either drops its text or hands it to the ofstream whose address
\* its copy of the struct has, be it the handle's own or one opened at that address
\* since (winx_fs.hpp:131-133).
LEMMA WriteGoesToItsFile ==
  ASSUME TypeOK, NEW d \in Data, WriteEnd(d)
  PROVE  \/ UNCHANGED <<disk, outs, sent>>
         \/ \E q \in DOMAIN outs :
              /\ outs[q].file # NoFile /\ Insert(q, CStr(d))
              /\ sent' = [sent EXCEPT ![outs[q].file] = @ \o CStr(d)]
<1>1. PICK q, i :
        /\ q \in {Null} \cup DOMAIN outs
        /\ i = IF q \in DOMAIN outs THEN outs[q].file ELSE NoFile
        /\ IF q = Null THEN UNCHANGED <<disk, outs>> ELSE Insert(q, CStr(d))
        /\ sent' = IF i = NoFile THEN sent ELSE [sent EXCEPT ![i] = @ \o CStr(d)]
  BY DEF WriteEnd
<1>2. CASE q = Null
  <2>1. q \notin DOMAIN outs
    BY <1>2, FilesAssumption DEF TypeOK
  <2> QED
    BY <1>1, <1>2, <2>1
<1>3. CASE q # Null
  <2>1. q \in DOMAIN outs /\ i = outs[q].file /\ Insert(q, CStr(d))
    BY <1>1, <1>3
  <2>2. CASE i = NoFile
    BY <1>1, <2>1, <2>2 DEF Insert
  <2>3. CASE i # NoFile
    BY <1>1, <2>1, <2>3
  <2> QED
    BY <2>2, <2>3
<1> QED
  BY <1>2, <1>3

\* A handle's write ends: its text goes to the copied struct's ofstream, if that is
\* open (winx_fs.hpp:131-133, winx_util.cpp:88-94).
LEMMA WriteEndSettles ==
  ASSUME Inv, Content, NEW d \in Data, WriteEnd(d)
  PROVE  Content'
<1>1. TypeOK /\ FilesKnown
  BY DEF Inv
<1>2. call = Idle /\ UNCHANGED <<call, raced>>
  BY DEF WriteEnd, Running
<1>3. PICK b \in Texts : b = CStr(d)
  BY FilesAssumption, CStrBegins DEF Text, Texts
<1>4. CASE UNCHANGED <<disk, outs, sent>>
  BY <1>2, <1>4, IdleSettles
<1>5. ASSUME NEW q \in DOMAIN outs, outs[q].file # NoFile, Insert(q, b),
             sent' = [sent EXCEPT ![outs[q].file] = @ \o b]
      PROVE  Content'
  <2>1. PICK i : i = outs[q].file /\ i # NoFile /\ sent' = [sent EXCEPT ![i] = @ \o b]
    BY <1>5
  <2>2. /\ DOMAIN disk' = DOMAIN disk /\ DOMAIN outs' = DOMAIN outs
        /\ \A r \in DOMAIN outs : outs'[r].file = outs[r].file
    BY <1>1, <1>5, InsertType DEF Texts
  <2>3. /\ \A r \in DOMAIN outs \ {q} : outs'[r] = outs[r]
        /\ \A j \in DOMAIN disk \ {i} : disk'[j] = disk[j]
    BY <1>1, <1>5, <2>1 DEF Insert, Flushed, TypeOK
  <2>4. \A j \in DOMAIN disk \ {i} : sent'[j] = sent[j]
    BY <1>1, <2>1 DEF TypeOK
  <2> SUFFICES ASSUME NEW j \in Promised'
               PROVE  Settled(j)'
    BY DEF Content
  <2>5. j \in Promised /\ Settled(j) /\ j \in DOMAIN disk
    BY <1>2, <2>2 DEF Promised, Content
  <2>6. CASE j = i
    <3>1. Settled(i)'
      BY <1>1, <1>2, <1>5, <2>1, <2>5, <2>6, InsertSettles
    <3> QED
      BY <2>6, <3>1
  <2>7. CASE j # i
    <3>1. Writers(j)' = Writers(j) /\ \A r \in Writers(j) : outs'[r] = outs[r]
      BY <2>1, <2>2, <2>3, <2>7 DEF Writers
    <3> QED
      BY <1>2, <2>3, <2>4, <2>5, <2>7, <3>1, Unmoved
  <2> QED
    BY <2>6, <2>7
<1> QED
  BY <1>1, <1>3, <1>4, <1>5, WriteGoesToItsFile

\* A handle is closed (winx_util.cpp:63-76).
LEMMA CloseSettles ==
  ASSUME Inv, Content, NEW o, Close(o)
  PROVE  Content'
<1>1. TypeOK /\ FilesKnown /\ StructsOwnStreams
  BY DEF Inv
<1>2. PICK q : /\ \E a \in DOMAIN hnd : q = hnd[a].out
               /\ IF q = Null THEN UNCHANGED <<disk, outs>> ELSE FlushAndFree(q)
  BY DEF Close
<1>3. call = Idle /\ UNCHANGED <<call, sent, raced>>
  BY DEF Close, Running, history
<1>4. CASE q = Null
  BY <1>2, <1>3, <1>4, IdleSettles
<1>5. CASE q # Null
  <2>1. q \in DOMAIN outs /\ FlushAndFree(q)
    BY <1>1, <1>2, <1>5 DEF StructsOwnStreams
  <2>2. PICK i : i = outs[q].file
    OBVIOUS
  <2>3. /\ DOMAIN disk' = DOMAIN disk /\ DOMAIN outs' = DOMAIN outs \ {q}
        /\ \A r \in DOMAIN outs' : outs'[r] = outs[r]
    BY <1>1, <2>1, FlushAndFreeType
  <2>4. \A j \in DOMAIN disk \ {i} : disk'[j] = disk[j]
    BY <1>1, <2>1, <2>2 DEF FlushAndFree, Flushed, TypeOK
  <2> SUFFICES ASSUME NEW j \in Promised'
               PROVE  Settled(j)'
    BY DEF Content
  <2>5. j \in Promised /\ Settled(j) /\ j \in DOMAIN disk /\ j # NoFile
    BY <1>1, <1>3, <2>3, FilesAssumption DEF Promised, Content, TypeOK
  <2>6. CASE j = i
    <3>1. Settled(i)'
      BY <1>1, <1>3, <2>1, <2>2, <2>5, <2>6, FreeSettles
    <3> QED
      BY <2>6, <3>1
  <2>7. CASE j # i
    <3>1. Writers(j)' = Writers(j) /\ \A r \in Writers(j) : outs'[r] = outs[r]
      BY <2>2, <2>3, <2>7 DEF Writers
    <3> QED
      BY <1>3, <2>4, <2>5, <2>7, <3>1, Unmoved
  <2> QED
    BY <2>6, <2>7
<1> QED
  BY <1>4, <1>5

-----------------------------------------------------------------------------
\* A blind write begins: the file is empty, and all of the text is on its way
\* (winx_util.cpp:22-27).
LEMMA BlindWriteBegins ==
  ASSUME TypeOK, FilesKnown, Content, NEW n \in Names, NEW d \in Data, BlindWriteBegin(n, d)
  PROVE  Content'
<1>1. PICK i \in Inodes \cup {NoFile} :
        /\ OpenToWrite(n, i, TRUE, 0, CStr(d))
        /\ call' = IF i = NoFile THEN Idle
                   ELSE [op |-> "write", file |-> i, data |-> d, done |-> 0]
  BY DEF BlindWriteBegin
<1>2. call = Idle /\ UNCHANGED outs
  BY DEF BlindWriteBegin, Running, heapVars
<1>3. \A j : ~BlindWriting(j)
  BY <1>2 DEF BlindWriting
<1>4. \A j : Writers(j)' = Writers(j)
  BY <1>2 DEF Writers
<1>5. CASE i = NoFile
  <2>1. UNCHANGED <<disk, sent, raced>>
    <3>1. i \notin Inodes
      BY <1>5, FilesAssumption
    <3> QED
      BY <1>1, <3>1 DEF OpenToWrite, TypeOK, fileVars, history
  <2>2. UNCHANGED call
    BY <1>1, <1>2, <1>5
  <2> QED
    BY <1>2, <2>1, <2>2, IdleSettles
<1>6. CASE i # NoFile
  <2>1. PICK c \in Texts : c = CStr(d)
    BY FilesAssumption, CStrBegins DEF Text, Texts
  <2>2. /\ DOMAIN disk' = DOMAIN disk \cup {i}
        /\ \A j \in DOMAIN disk \ {i} : /\ disk'[j] = disk[j] /\ sent'[j] = sent[j]
                                        /\ j \notin raced' => j \notin raced
        /\ i \notin raced' => Writers(i) = {} /\ disk'[i] = << >> /\ sent'[i] = c
    <3>1. PICK trunc \in BOOLEAN : trunc = TRUE
      OBVIOUS
    <3>2. OpenToWrite(n, i, trunc, 0, c)
      BY <1>1, <2>1, <3>1
    <3>3. /\ DOMAIN disk' = DOMAIN disk \cup {i}
          /\ \A j \in DOMAIN disk \ {i} : /\ disk'[j] = disk[j] /\ sent'[j] = sent[j]
                                          /\ j \notin raced' => j \notin raced
          /\ i \notin raced' =>
               /\ Writers(i) = {}
               /\ \/ disk'[i] = << >> /\ sent'[i] = c
                  \/ /\ ~trunc /\ i \in Promised
                     /\ disk'[i] = disk[i] /\ sent'[i] = sent[i]
      BY <1>6, <3>2, Opened
    <3> QED
      BY <3>1, <3>3
  <2> SUFFICES ASSUME NEW j \in Promised'
               PROVE  Settled(j)'
    BY DEF Content
  <2>3. call' = [op |-> "write", file |-> i, data |-> d, done |-> 0]
    BY <1>1, <1>6
  <2>4. CASE j # i
    <3>1. j \in Promised /\ disk'[j] = disk[j] /\ sent'[j] = sent[j]
      BY <2>2, <2>4 DEF Promised
    <3>2. Settled(j) /\ ~BlindWriting(j)'
      BY <2>3, <2>4, <3>1 DEF Content, BlindWriting
    <3> QED
      BY <1>2, <1>3, <1>4, <3>1, <3>2, Unmoved
  <2>5. CASE j = i
    <3>1. Writers(i)' = {} /\ disk'[i] = << >> /\ sent'[i] = c
      BY <1>4, <2>2, <2>5 DEF Promised
    <3>2. ~Quiet(i)'
      <4>1. call' # Idle
        BY <1>6, <2>3, FilesAssumption
      <4> QED
        BY <2>3, <4>1 DEF Quiet
    <3>3. /\ call'.done = 0 /\ call'.data = d /\ Len(disk'[i]) = 0 /\ Len(c) \in Nat
          /\ SubSeq(c, 1, Len(c)) = c /\ sent'[i] = Then(disk'[i], c)
      BY <2>3, <3>1, AllOut, Nothing DEF Texts
    <3>4. Len(disk'[i]) <= Quota /\ sent'[i] = Then(disk'[i], SubSeq(c, 0 + 1, Len(c)))
      <4>1. Len(disk'[i]) <= Quota
        BY <3>3, BoundsAssumption
      <4>2. SubSeq(c, 0 + 1, Len(c)) = c
        BY <3>3
      <4> QED
        BY <3>3, <4>1, <4>2
    <3>5. BlindWriting(i)' =>
            /\ Writers(i)' = {} /\ call'.done = Len(disk'[i]) /\ call'.done <= Len(CStr(call'.data))
            /\ Len(disk'[i]) <= Quota
            /\ sent'[i] = Then(disk'[i], SubSeq(CStr(call'.data), call'.done + 1, Len(CStr(call'.data))))
      BY <2>1, <3>1, <3>3, <3>4
    <3> QED
      BY <2>5, <3>1, <3>2, <3>5 DEF Settled, Holds
  <2> QED
    BY <2>4, <2>5
<1> QED
  BY <1>5, <1>6

\* A blind write goes on: the next piece comes behind what the file holds
\* (winx_util.cpp:28).
LEMMA BlindWriteGoesOn ==
  ASSUME TypeOK, FilesKnown, Content, BlindWriteSome
  PROVE  Content'
<1>1. PICK i : i = call.file
  OBVIOUS
<1>2. call # Idle /\ call.op = "write" /\ UNCHANGED <<outs, sent, raced>>
  BY DEF BlindWriteSome, heapVars, history
<1>3. call.data \in Data /\ call.done \in Nat /\ i \in DOMAIN disk
  BY <1>1, <1>2 DEF TypeOK, FilesKnown
<1>4. PICK d \in Texts : d = call.data
  BY <1>3, FilesAssumption DEF Text, Texts
<1>5. PICK n \in Nat : n = call.done
  BY <1>3
<1>6. PICK c \in Texts : c = CStr(d) /\ Len(c) \in Nat
  BY CStrBegins DEF Texts
<1>7. PICK k \in 1..(Len(c) - n) :
        /\ n + k <= Quota /\ call' = [call EXCEPT !.done = @ + k]
        /\ disk' = [disk EXCEPT ![i] = WriteAt(@, n, SubSeq(d, n + 1, n + k))]
  BY <1>1, <1>4, <1>5, <1>6 DEF BlindWriteSome
<1>8. call'.op = call.op /\ call'.file = i /\ call'.data = d /\ call'.done = n + k
  BY <1>1, <1>2, <1>4, <1>5, <1>7 DEF TypeOK
<1>9. DOMAIN disk' = DOMAIN disk /\ \A j \in DOMAIN disk \ {i} : disk'[j] = disk[j]
  BY <1>7 DEF TypeOK
<1>10. \A j : Writers(j)' = Writers(j)
  BY <1>2 DEF Writers
<1> SUFFICES ASSUME NEW j \in Promised'
             PROVE  Settled(j)'
  BY DEF Content
<1>11. j \in Promised /\ j \in DOMAIN disk /\ Settled(j)
  BY <1>2, <1>9 DEF Promised, Content
<1>12. CASE j # i
  <2>1. ~BlindWriting(j) /\ ~BlindWriting(j)' /\ disk'[j] = disk[j] /\ sent'[j] = sent[j]
    BY <1>1, <1>2, <1>8, <1>9, <1>11, <1>12 DEF BlindWriting
  <2> QED
    BY <1>2, <1>10, <1>11, <2>1, Unmoved
<1>13. CASE j = i
  <2>1. BlindWriting(i)
    BY <1>1, <1>2 DEF BlindWriting
  <2>2. /\ Writers(i) = {} /\ n = Len(disk[i]) /\ Len(disk[i]) <= Quota
        /\ sent[i] = Then(disk[i], SubSeq(c, n + 1, Len(c)))
    BY <1>4, <1>5, <1>6, <1>11, <1>13, <2>1 DEF Settled, Holds
  <2>3. PICK s \in Texts : s = disk[i]
    BY <1>3 DEF TypeOK, Texts
  <2>4. k \in Nat /\ n + k <= Len(c)
    BY <1>6, <1>7
  <2>5. PICK b : b = SubSeq(c, n + 1, n + k)
    OBVIOUS
  <2>6. PICK r : r = SubSeq(c, n + k + 1, Len(c))
    OBVIOUS
  <2>7. b \in Texts /\ Len(b) = k /\ r \in Texts /\ Then(b, r) = SubSeq(c, n + 1, Len(c))
    BY <2>4, <2>5, <2>6, Between
  <2>8. disk'[i] = Then(s, b)
    <3>1. SubSeq(d, n + 1, n + k) = b
      BY <1>6, <2>4, <2>5, PiecesAgree
    <3>2. disk'[i] = WriteAt(s, n, b)
      BY <1>3, <1>7, <2>3, <3>1 DEF TypeOK
    <3> QED
      BY <2>2, <2>3, <2>7, <3>2, WrittenBehind
  <2>9. Len(disk'[i]) = n + k
    BY <2>2, <2>3, <2>7, <2>8, Lengths
  <2>10. sent'[i] = Then(disk'[i], SubSeq(c, n + k + 1, Len(c)))
    <3>1. sent'[i] = Then(s, Then(b, r))
      BY <1>2, <2>2, <2>3, <2>7
    <3>2. Then(s, Then(b, r)) = Then(Then(s, b), r)
      BY <2>7, Together
    <3> QED
      BY <2>6, <2>8, <3>1, <3>2
  <2>11. Writers(i)' = {} /\ ~Quiet(i)'
    <3>1. BlindWriting(i)'
      <4>1. call' # Idle
        <5>1. call \in [op: {"write"}, file: Inodes, data: Data, done: Nat]
          BY <1>2 DEF TypeOK
        <5>2. call' \in [op: {"write"}, file: Inodes, data: Data, done: Nat]
          BY <1>5, <1>7, <5>1
        <5> QED
          BY <5>2, FilesAssumption
      <4> QED
        BY <1>2, <1>8, <4>1 DEF BlindWriting
    <3> QED
      BY <1>10, <2>2, <3>1 DEF Quiet, BlindWriting
  <2>12. BlindWriting(i)' =>
           /\ Writers(i)' = {} /\ call'.done = Len(disk'[i]) /\ call'.done <= Len(CStr(call'.data))
           /\ Len(disk'[i]) <= Quota
           /\ sent'[i] = Then(disk'[i], SubSeq(CStr(call'.data), call'.done + 1, Len(CStr(call'.data))))
    BY <1>6, <1>7, <1>8, <2>4, <2>9, <2>10, <2>11
  <2> QED
    BY <1>13, <2>11, <2>12 DEF Settled, Holds
<1> QED
  BY <1>12, <1>13

\* A blind write ends: the file holds all of the text, or is full (winx_util.cpp:28-30).
LEMMA BlindWriteEndSettles ==
  ASSUME TypeOK, FilesKnown, Content, BlindWriteEnd
  PROVE  Content'
<1>1. PICK i : i = call.file
  OBVIOUS
<1>2. /\ call # Idle /\ call.op = "write" /\ call' = Idle
      /\ UNCHANGED <<disk, outs, sent, raced>>
  BY DEF BlindWriteEnd, heapVars, history, fileVars
<1>3. PICK c \in Texts : c = CStr(call.data) /\ call.done \in {Len(c), Quota} /\ call.done \in Nat
  <2>1. call.data \in Data /\ call.done \in Nat
    BY <1>2 DEF TypeOK
  <2> QED
    BY <2>1, FilesAssumption, CStrBegins DEF Text, Texts, BlindWriteEnd
<1>4. \A j : Writers(j)' = Writers(j) /\ ~BlindWriting(j)'
  BY <1>2 DEF Writers, BlindWriting
<1> SUFFICES ASSUME NEW j \in Promised'
             PROVE  Settled(j)'
  BY DEF Content
<1>5. j \in Promised /\ Settled(j)
  BY <1>2 DEF Promised, Content
<1>6. CASE j # i
  <2>1. ~BlindWriting(j)
    BY <1>1, <1>6 DEF BlindWriting
  <2> QED
    BY <1>2, <1>4, <1>5, <2>1, Unmoved
<1>7. CASE j = i
  <2>1. BlindWriting(i)
    BY <1>1, <1>2 DEF BlindWriting
  <2>2. /\ Writers(i) = {} /\ call.done = Len(disk[i]) /\ call.done <= Len(c)
        /\ Len(disk[i]) <= Quota /\ sent[i] = Then(disk[i], SubSeq(c, call.done + 1, Len(c)))
    BY <1>3, <1>5, <1>7, <2>1 DEF Settled, Holds
  <2>3. Full(i) \/ Holds(i, << >>)
    <3>1. CASE call.done = Len(c)
      <4>1. SubSeq(c, call.done + 1, Len(c)) = << >>
        BY <3>1, AllOut
      <4> QED
        BY <2>2, <4>1 DEF Holds
    <3>2. CASE call.done = Quota
      <4>1. PICK n \in 0..Len(c) : n = call.done
        BY <1>3, <2>2 DEF Texts
      <4>2. SubSeq(c, n + 1, Len(c)) \in Texts
        BY Split
      <4> QED
        BY <2>2, <3>2, <4>1, <4>2 DEF Full
    <3> QED
      BY <1>3, <3>1, <3>2
  <2>4. (Full(i) \/ Holds(i, << >>))'
    BY <1>2, <2>3 DEF Full, Holds
  <2> QED
    BY <1>4, <1>7, <2>2, <2>4 DEF Settled
<1> QED
  BY <1>6, <1>7

\* Another process replaces what a file holds: that is now its text, unless someone
\* here was writing the file (winx_util.cpp takes no lock).
LEMMA ExternalWriteSettles ==
  ASSUME TypeOK, FilesKnown, Content, NEW n \in Names, NEW c \in InitContents, ExternalWrite(n, c)
  PROVE  Content'
<1>1. PICK i : i = dir[n]
  OBVIOUS
<1>2. /\ disk' = [disk EXCEPT ![i] = c] /\ UNCHANGED <<outs, call>>
      /\ \/ raced' = raced \cup {i} /\ UNCHANGED sent
         \/ /\ Writers(i) = {} /\ ~BlindWriting(i)
            /\ sent' = [sent EXCEPT ![i] = c] /\ raced' = raced \ {i}
  BY <1>1 DEF ExternalWrite, heapVars, BlindWriting
<1>3. i \in DOMAIN disk
  BY <1>1 DEF ExternalWrite, FilesKnown
<1>4. \A j \in DOMAIN disk \ {i} : disk'[j] = disk[j] /\ sent'[j] = sent[j] /\ (j \in raced' <=> j \in raced)
  BY <1>2 DEF TypeOK
<1>5. \A j : Writers(j)' = Writers(j) /\ BlindWriting(j)' = BlindWriting(j)
  BY <1>2 DEF Writers, BlindWriting
<1> SUFFICES ASSUME NEW j \in Promised'
             PROVE  Settled(j)'
  BY DEF Content
<1>6. j \in DOMAIN disk /\ j \notin raced'
  BY <1>2 DEF Promised, TypeOK
<1>7. CASE j # i
  <2>1. disk'[j] = disk[j] /\ sent'[j] = sent[j] /\ j \in Promised
    BY <1>4, <1>6, <1>7 DEF Promised
  <2>2. Settled(j)
    BY <2>1 DEF Content
  <2> QED
    BY <1>2, <1>5, <2>1, <2>2, Unmoved
<1>8. CASE j = i
  <2>1. Writers(i)' = {} /\ ~BlindWriting(i)' /\ disk'[i] = c /\ sent'[i] = c
    BY <1>2, <1>3, <1>5, <1>6, <1>8 DEF TypeOK
  <2>2. Len(c) <= Quota /\ c = Then(c, << >>)
    <3>1. c \in Texts
      BY FilesAssumption DEF Texts
    <3> QED
      BY <3>1, Nothing, BoundsAssumption
  <2>3. Holds(i, << >>)'
    BY <2>1, <2>2 DEF Holds
  <2> QED
    BY <1>8, <2>1, <2>3 DEF Settled
<1> QED
  BY <1>7, <1>8

-----------------------------------------------------------------------------
\* Each step keeps what is settled.
LEMMA ContentStep ==
  ASSUME Inv, Content, [Next]_vars
  PROVE  Content'
<1>1. TypeOK /\ FilesKnown
  BY DEF Inv
<1>2. ASSUME Running, UNCHANGED <<disk, outs, call, sent, raced>>
      PROVE  Content'
  BY <1>2, IdleSettles
<1>3. ASSUME NEW o \in Objs, NEW n \in Names, NEW m \in Modes, Open(o, n, m)
      PROVE  Content'
  <2>1. Running /\ call = Idle /\ UNCHANGED call
    BY <1>3 DEF Open, Running
  <2> DEFINE opened == IF "r" \in m /\ FileToRead(n, 0) # NoFile THEN 1 ELSE 0
  <2>2. \/ UNCHANGED <<disk, outs, sent, raced>>
        \/ \E i \in Inodes \cup {NoFile}, q \in StreamPtrs \ DOMAIN outs :
             /\ OpenToWrite(n, i, "w" \in m, opened, << >>)
             /\ outs' = Alloc(outs, q, [file |-> i, pos |-> 0, app |-> "w" \notin m,
                                        buf |-> << >>, bad |-> FALSE])
    BY <1>3 DEF Open, fileVars, history
  <2> HIDE DEF opened
  <2>3. CASE UNCHANGED <<disk, outs, sent, raced>>
    BY <1>2, <2>1, <2>3
  <2>4. ASSUME NEW i \in Inodes \cup {NoFile}, NEW q \in StreamPtrs \ DOMAIN outs,
               OpenToWrite(n, i, "w" \in m, opened, << >>),
               outs' = Alloc(outs, q, [file |-> i, pos |-> 0, app |-> "w" \notin m,
                                       buf |-> << >>, bad |-> FALSE])
        PROVE  Content'
    <3> DEFINE trunc == "w" \in m
    <3>1. trunc \in BOOLEAN
      OBVIOUS
    <3>2. /\ OpenToWrite(n, i, trunc, opened, << >>)
          /\ outs' = Alloc(outs, q, [file |-> i, pos |-> 0, app |-> ~trunc,
                                     buf |-> << >>, bad |-> FALSE])
      BY <2>4
    <3> HIDE DEF trunc
    <3> QED
      BY <1>1, <2>1, <3>1, <3>2, OpenSettles
  <2> QED
    BY <2>2, <2>3, <2>4
<1>4. ASSUME NEW o \in Objs, HandleRead(o) \/ WriteBegin(o)
      PROVE  Content'
  <2>1. Running /\ UNCHANGED <<disk, outs, call, sent, raced>>
    BY <1>4 DEF HandleRead, WriteBegin, fileVars, heapVars, history
  <2> QED
    BY <1>2, <2>1
<1>5. ASSUME NEW n \in Names, Delete(n)
      PROVE  Content'
  <2>1. Running /\ UNCHANGED <<disk, outs, call, sent, raced>>
    BY <1>5 DEF Delete, heapVars, history
  <2> QED
    BY <1>2, <2>1
<1>6. ASSUME Exit \/ UseFreed \/ PassUnconverted \/ UNCHANGED vars
      PROVE  Content'
  <2>1. UNCHANGED <<disk, outs, call, sent, raced>>
    BY <1>6 DEF Exit, UseFreed, PassUnconverted, Undefined, vars, fileVars, heapVars, history
  <2> QED
    BY <2>1, IdleSettles
<1>7. ASSUME BlindReadEnd \/ \E n \in Names : BlindReadBegin(n)
      PROVE  Content'
  <2>1. UNCHANGED <<disk, outs, sent, raced>>
    BY <1>7 DEF BlindReadEnd, BlindReadBegin, fileVars, heapVars, history
  <2>2. \A i : ~BlindWriting(i) /\ ~BlindWriting(i)'
    BY <1>7 DEF BlindReadEnd, BlindReadBegin, Running, BlindWriting
  <2> QED
    BY <2>1, <2>2, IdleSettles
<1>8. ASSUME NEW o \in Objs, Close(o)
      PROVE  Content'
  BY <1>8, CloseSettles
<1>9. ASSUME NEW d \in Data, WriteEnd(d)
      PROVE  Content'
  BY <1>9, WriteEndSettles
<1>10. ASSUME NEW n \in Names, NEW d \in Data, BlindWriteBegin(n, d)
       PROVE  Content'
  BY <1>1, <1>10, BlindWriteBegins
<1>11. ASSUME BlindWriteSome
       PROVE  Content'
  BY <1>1, <1>11, BlindWriteGoesOn
<1>12. ASSUME BlindWriteEnd
       PROVE  Content'
  BY <1>1, <1>12, BlindWriteEndSettles
<1>13. ASSUME NEW n \in Names, NEW c \in InitContents, ExternalWrite(n, c)
       PROVE  Content'
  BY <1>1, <1>13, ExternalWriteSettles
<1> QED
  BY <1>3, <1>4, <1>5, <1>6, <1>7, <1>8, <1>9, <1>10, <1>11, <1>12, <1>13 DEF Next

\* So it is an invariant.
LEMMA ContentHolds == Spec => [](Inv /\ Content)
<1>1. Init => Content
  <2> SUFFICES ASSUME Init
               PROVE  Content
    OBVIOUS
  <2>1. /\ outs = << >> /\ call = Idle /\ sent = disk
        /\ \A i \in DOMAIN disk : disk[i] \in InitContents
    BY DEF Init
  <2>2. \A i : Writers(i) = {} /\ ~BlindWriting(i)
    BY <2>1 DEF Writers, BlindWriting
  <2>3. \A i \in DOMAIN disk : Holds(i, << >>)
    <3> TAKE i \in DOMAIN disk
    <3>1. disk[i] \in Texts /\ Len(disk[i]) <= Quota
      BY <2>1, FilesAssumption, BoundsAssumption DEF Texts
    <3> QED
      BY <2>1, <3>1, Nothing DEF Holds
  <2> QED
    BY <2>2, <2>3 DEF Content, Settled, Promised
<1>2. Inv /\ Content /\ [Next]_vars => Content'
  BY ContentStep
<1> QED
  BY <1>1, <1>2, InvHolds, PTL DEF Spec

\* Once the last stream on a file is closed, the file holds what was put into it, in
\* program order, or as much of its beginning as the file system takes, whatever the
\* buffers kept, however writes were nested and whatever was done with closed handles
\* (close_file, winx_util.cpp:63-76).
THEOREM ClosedFilesAreDurable == Spec => []CloseMakesDurable
<1>1. Inv /\ Content => CloseMakesDurable
  <2> SUFFICES ASSUME Inv, Content, NEW i \in Promised, Quiet(i)
               PROVE  disk[i] = Promise!Kept(sent[i])
    BY DEF CloseMakesDurable
  <2>1. TypeOK /\ i \in DOMAIN disk /\ (Full(i) \/ Holds(i, << >>))
    BY DEF Inv, Promised, Content, Settled
  <2> QED
    BY <2>1, SettledKept
<1> QED
  BY <1>1, ContentHolds, PTL

\* What a file holds is a beginning of what was put into it, and fits.
LEMMA Follows ==
  ASSUME Inv, Content, NEW i \in Promised
  PROVE  /\ disk[i] \in Texts /\ sent[i] \in Texts /\ Len(disk[i]) <= Quota
         /\ \E rest \in Texts : sent[i] = Then(disk[i], rest)
<1>1. /\ i \in DOMAIN disk /\ disk[i] \in Texts /\ sent[i] \in Texts
      /\ \A q \in Writers(i) : outs[q].buf \in Texts
      /\ BlindWriting(i) => call.data \in Data /\ call.done \in Nat
  BY DEF Inv, TypeOK, Promised, Texts, Writers, OutStream, BlindWriting
<1>2. Settled(i)
  BY DEF Content
<1>3. Len(disk[i]) <= Quota
  BY <1>2, BoundsAssumption DEF Settled, Full, Holds, Quiet, BlindWriting
<1>4. CASE Quiet(i)
  BY <1>1, <1>2, <1>3, <1>4, Nothing DEF Settled, Full, Holds
<1>5. CASE Writers(i) # {}
  BY <1>1, <1>2, <1>3, <1>5 DEF Settled, Full, Holds
<1>6. CASE BlindWriting(i)
  <2>1. PICK c \in Texts : c = CStr(call.data)
    BY <1>1, <1>6, FilesAssumption, CStrBegins DEF Text, Texts
  <2>2. PICK n \in 0..Len(c) : n = call.done
    BY <1>1, <1>2, <1>6, <2>1 DEF Settled, Texts
  <2>3. SubSeq(c, n + 1, Len(c)) \in Texts
    BY Split
  <2> QED
    BY <1>1, <1>2, <1>3, <1>6, <2>1, <2>2, <2>3 DEF Settled, Holds
<1> QED
  BY <1>4, <1>5, <1>6 DEF Quiet, BlindWriting

\* At every moment, so whenever the process ends, a file holds a beginning of what
\* was put into it (winx_util.cpp:28, 72, 92).
THEOREM CrashesLeaveBeginnings == Spec => []PrefixSurvives
<1>1. Inv /\ Content => PrefixSurvives
  <2> SUFFICES ASSUME Inv, Content, NEW i \in Promised
               PROVE  disk[i] \in {SubSeq(sent[i], 1, k) : k \in 0..Len(sent[i])}
    BY DEF PrefixSurvives
  <2>1. PICK d \in Texts, rest \in Texts : d = disk[i] /\ sent[i] = Then(d, rest)
    BY Follows
  <2>2. SubSeq(sent[i], 1, Len(d)) = d /\ Len(d) \in 0..Len(sent[i])
    BY <2>1, Beginning, Lengths
  <2> QED
    BY <2>1, <2>2
<1> QED
  BY <1>1, ContentHolds, PTL

-----------------------------------------------------------------------------
\* How files change.
\* What a file holds grows at its end.
Grows(i) == \E w \in Texts : disk'[i] = Then(disk[i], w)

\* An ofstream that writes at the end of its file makes it grow, also by nothing
\* (winx_util.cpp:72, 92).
LEMMA FlushedGrows ==
  ASSUME TypeOK, FilesKnown, NEW q \in DOMAIN outs, NEW i, i = outs[q].file, i # NoFile,
         ~outs[q].app => outs[q].pos = Len(disk[i]),
         NEW p \in Texts, NEW k \in 0..Len(p), disk' = Flushed(outs[q], p, k)
  PROVE  Grows(i)
<1>1. PICK t : t = Taken(outs[q], k)
  OBVIOUS
<1>2. /\ disk' = [disk EXCEPT ![i] = Then(disk[i], SubSeq(p, 1, t))]
      /\ i \in DOMAIN disk /\ SubSeq(p, 1, t) \in Texts
  BY <1>1, FlushedBehind
<1> QED
  BY <1>2 DEF Grows

\* A file that a step leaves alone grows by nothing.
LEMMA StillGrows ==
  ASSUME TypeOK, NEW i \in DOMAIN disk, disk'[i] = disk[i]
  PROVE  Grows(i)
<1>1. PICK d \in Texts : d = disk[i]
  BY DEF TypeOK, Texts
<1>2. Then(d, << >>) = d /\ << >> \in Texts
  BY Nothing
<1> QED
  BY <1>1, <1>2 DEF Grows

\* The steps of a handle's write and close: only the file of the ofstream changes,
\* and it grows if the ofstream writes at its end (winx_util.cpp:63-76, 88-94).
LEMMA StreamGrows ==
  ASSUME TypeOK, FilesKnown, NEW q \in DOMAIN outs, NEW i \in DOMAIN disk,
         FlushAndFree(q) \/ \E b \in Texts : Insert(q, b)
  PROVE  /\ i # outs[q].file => disk'[i] = disk[i]
         /\ (i = outs[q].file /\ (~outs[q].app => outs[q].pos = Len(disk[i]))) => Grows(i)
<1>1. outs[q].buf \in Texts /\ i # NoFile
  BY FilesAssumption DEF TypeOK, OutStream, Texts
<1>2. \/ disk' = disk
      \/ /\ outs[q].file # NoFile
         /\ \E p \in Texts : \E k \in 0..Len(p) : disk' = Flushed(outs[q], p, k)
  <2>1. CASE FlushAndFree(q)
    BY <1>1, <2>1, Counted DEF FlushAndFree
  <2>2. ASSUME NEW b \in Texts, Insert(q, b)
        PROVE  \/ disk' = disk
               \/ /\ outs[q].file # NoFile
                  /\ \E p \in Texts : \E k \in 0..Len(p) : disk' = Flushed(outs[q], p, k)
    <3>1. PICK p \in Texts : p = outs[q].buf \o b
      BY <1>1, Joined DEF Then
    <3> QED
      BY <2>2, <3>1 DEF Insert
  <2> QED
    BY <2>1, <2>2
<1>3. i # outs[q].file => disk'[i] = disk[i]
  BY <1>2 DEF Flushed, TypeOK
<1>4. ASSUME i = outs[q].file, ~outs[q].app => outs[q].pos = Len(disk[i])
      PROVE  Grows(i)
  BY <1>1, <1>2, <1>4, StillGrows, FlushedGrows
<1> QED
  BY <1>3, <1>4

\* So does a blind write that goes on (winx_util.cpp:28).
LEMMA BlindWriteGrows ==
  ASSUME TypeOK, FilesKnown, Content, BlindWriteSome, NEW i \in DOMAIN disk
  PROVE  /\ i # call.file => disk'[i] = disk[i]
         /\ i = call.file /\ i \in Promised => Grows(i)
<1>1. call # Idle /\ call.op = "write"
  BY DEF BlindWriteSome
<1>2. PICK d \in Texts, n \in Nat : d = call.data /\ n = call.done
  BY <1>1, FilesAssumption DEF TypeOK, Text, Texts
<1>3. PICK k \in 1..(Len(CStr(d)) - n) :
        disk' = [disk EXCEPT ![call.file] = WriteAt(@, n, SubSeq(d, n + 1, n + k))]
  BY <1>2 DEF BlindWriteSome
<1>4. i # call.file => disk'[i] = disk[i]
  BY <1>3 DEF TypeOK
<1>5. ASSUME i = call.file, i \in Promised
      PROVE  Grows(i)
  <2>1. PICK s \in Texts : s = disk[i] /\ n = Len(s)
    BY <1>1, <1>2, <1>5 DEF Content, Settled, BlindWriting, TypeOK, Texts
  <2>2. SubSeq(d, n + 1, n + k) \in Texts
    <3>1. Len(CStr(d)) \in 0..Len(d) /\ Len(d) \in Nat
      BY CStrBegins DEF Texts
    <3>2. k \in Nat /\ n + k <= Len(d)
      BY <1>3, <3>1
    <3> QED
      BY <3>2, Between
  <2>3. disk'[i] = Then(s, SubSeq(d, n + 1, n + k))
    BY <1>3, <1>5, <2>1, <2>2, WrittenBehind DEF TypeOK
  <2> QED
    BY <2>1, <2>2, <2>3 DEF Grows
<1> QED
  BY <1>4, <1>5

\* An open for writing empties the file or leaves what it holds alone
\* (winx_util.cpp:25, 46, 50).
LEMMA OpenKeeps ==
  ASSUME TypeOK, NEW i \in DOMAIN disk, NEW n, NEW j, NEW trunc, NEW k, NEW now,
         OpenToWrite(n, j, trunc, k, now)
  PROVE  disk'[i] = disk[i] \/ disk'[i] = << >>
BY DEF OpenToWrite, fileVars, Alloc, TypeOK

-----------------------------------------------------------------------------
\* Where writers take turns, and where all of them append and no blind write is in
\* progress, each step empties a file or makes it grow.
KeepsOrGrows(i) ==
  (i \notin raced' \/ (call = Idle /\ \A q \in Writers(i) : outs[q].app))
  => disk'[i] = << >> \/ Grows(i)

\* Each step of a program keeps what is in its files, if no other process writes.
LEMMA StepKeeps ==
  ASSUME ~External, Inv, Content, [Next]_vars,
         NEW i \in DOMAIN disk
  PROVE  KeepsOrGrows(i)
<1>1. TypeOK /\ FilesKnown /\ StructsOwnStreams
  BY DEF Inv
<1>2. ASSUME disk'[i] = disk[i] \/ disk'[i] = << >>
      PROVE  KeepsOrGrows(i)
  BY <1>1, <1>2, StillGrows DEF KeepsOrGrows
<1>3. ASSUME NEW q \in DOMAIN outs, UNCHANGED raced,
             FlushAndFree(q) \/ \E b \in Texts : Insert(q, b)
      PROVE  KeepsOrGrows(i)
  <2>1. CASE i # outs[q].file
    BY <1>1, <1>2, <1>3, <2>1, StreamGrows
  <2>2. CASE i = outs[q].file
    <3>1. q \in Writers(i)
      BY <2>2 DEF Writers
    <3>2. i \notin raced' => (~outs[q].app => outs[q].pos = Len(disk[i]))
      BY <1>3, <3>1 DEF Content, Settled, Promised
    <3>3. (~outs[q].app => outs[q].pos = Len(disk[i])) => Grows(i)
      BY <1>1, <1>3, <2>2, StreamGrows
    <3> QED
      BY <3>1, <3>2, <3>3 DEF KeepsOrGrows
  <2> QED
    BY <2>1, <2>2
<1>4. ASSUME UNCHANGED disk
      PROVE  KeepsOrGrows(i)
  BY <1>2, <1>4
<1>5. ASSUME NEW o \in Objs, NEW n \in Names, NEW m \in Modes, Open(o, n, m)
      PROVE  KeepsOrGrows(i)
  <2>1. UNCHANGED disk \/ \E j, k : OpenToWrite(n, j, "w" \in m, k, << >>)
    BY <1>5 DEF Open, fileVars
  <2> QED
    BY <1>1, <1>2, <1>4, <2>1, OpenKeeps
<1>6. ASSUME NEW o \in Objs, HandleRead(o) \/ WriteBegin(o)
      PROVE  UNCHANGED disk
  BY <1>6 DEF HandleRead, WriteBegin, fileVars
<1>7. ASSUME NEW o \in Objs, Close(o)
      PROVE  KeepsOrGrows(i)
  <2>1. UNCHANGED raced /\ (UNCHANGED disk \/ \E q \in DOMAIN outs : FlushAndFree(q))
    BY <1>1, <1>7 DEF Close, history, StructsOwnStreams
  <2> QED
    BY <1>3, <1>4, <2>1
<1>8. ASSUME NEW d \in Data, WriteEnd(d)
      PROVE  KeepsOrGrows(i)
  <2>1. CStr(d) \in Texts
    BY FilesAssumption, CStrBegins DEF Text, Texts
  <2>2. UNCHANGED raced /\ (UNCHANGED disk \/ \E q \in DOMAIN outs : Insert(q, CStr(d)))
    BY <1>8 DEF WriteEnd
  <2> QED
    BY <1>3, <1>4, <2>1, <2>2
<1>9. ASSUME UseFreed \/ PassUnconverted \/ BlindReadEnd \/ BlindWriteEnd \/ Exit \/ UNCHANGED vars
      PROVE  UNCHANGED disk
  BY <1>9 DEF UseFreed, PassUnconverted, Undefined, BlindReadEnd, BlindWriteEnd, Exit, fileVars, vars
<1>10. ASSUME NEW n \in Names, BlindReadBegin(n) \/ Delete(n)
       PROVE  UNCHANGED disk
  BY <1>10 DEF BlindReadBegin, Delete, fileVars
<1>11. ASSUME NEW n \in Names, NEW d \in Data, BlindWriteBegin(n, d)
       PROVE  KeepsOrGrows(i)
  <2>1. \E j : OpenToWrite(n, j, TRUE, 0, CStr(d))
    BY <1>11 DEF BlindWriteBegin
  <2> QED
    BY <1>1, <1>2, <2>1, OpenKeeps
<1>12. ASSUME BlindWriteSome
       PROVE  KeepsOrGrows(i)
  <2>1. call # Idle /\ UNCHANGED raced
    BY <1>12 DEF BlindWriteSome, history
  <2>2. /\ i # call.file => disk'[i] = disk[i]
        /\ i = call.file /\ i \in Promised => Grows(i)
    BY <1>1, <1>12, BlindWriteGrows
  <2> QED
    BY <1>2, <2>1, <2>2 DEF KeepsOrGrows, Promised
<1>13. ASSUME NEW n \in Names, NEW c \in InitContents, ExternalWrite(n, c)
       PROVE  FALSE
  BY <1>13 DEF ExternalWrite
<1> QED
  BY <1>4, <1>5, <1>6, <1>7, <1>8, <1>9, <1>10, <1>11, <1>12, <1>13 DEF Next

\* A byte that reached a file is never written over, however many handles append to
\* the file at once and whatever their buffers hold (winx_util.cpp:46-52).
THEOREM BytesStay ==
  ASSUME ~External
  PROVE  Spec => NeverOverwrites
<1> DEFINE Stays(i) ==
             (i \notin raced' \/ (call = Idle /\ \A q \in Writers(i) : outs[q].app))
             => disk'[i] = << >> \/ SubSeq(disk'[i], 1, Len(disk[i])) = disk[i]
<1>1. Inv /\ Content /\ [Next]_vars
      => [\A i \in DOMAIN disk : Stays(i)]_vars
  <2> SUFFICES ASSUME Inv, Content, [Next]_vars, NEW i \in DOMAIN disk
               PROVE  Stays(i)
    OBVIOUS
  <2>1. PICK d \in Texts : d = disk[i]
    BY DEF Inv, TypeOK, Texts
  <2>2. Grows(i) => SubSeq(disk'[i], 1, Len(disk[i])) = disk[i]
    BY <2>1, Beginning DEF Grows
  <2> QED
    BY <2>2, StepKeeps DEF KeepsOrGrows
<1> QED
  BY <1>1, ContentHolds, PTL DEF Spec, NeverOverwrites

-----------------------------------------------------------------------------
(* The refinement.  Each step is about one file f at most; what it does to  *)
(* f is one of the following, in the words of FileHandles.                 *)

Untouched(j) ==
  /\ j \in Promised' <=> j \in Promised
  /\ j \in Promised => disk'[j] = disk[j] /\ sent'[j] = sent[j] /\ Quiet(j)' = Quiet(j)

NewTexts == InitContents \cup {<< >>} \cup {CStr(d) : d \in Data}

Began(f) ==
  /\ f \in Promised => Quiet(f)
  /\ f \in Promised' /\ ~Quiet(f)'
  /\ sent'[f] \in NewTexts /\ disk'[f] = << >>
Reopened(f) ==
  /\ f \in Promised /\ Quiet(f) /\ f \in Promised' /\ ~Quiet(f)'
  /\ sent'[f] = sent[f] /\ disk'[f] = disk[f]
Wrote(f) ==
  /\ f \in Promised /\ ~Quiet(f) /\ f \in Promised' /\ ~Quiet(f)'
  /\ Promise!IsPrefix(sent[f], sent'[f]) /\ Promise!IsPrefix(disk[f], disk'[f])
  /\ Promise!IsPrefix(disk'[f], Promise!Kept(sent'[f]))
Closed(f) ==
  /\ f \in Promised /\ ~Quiet(f) /\ f \in Promised' /\ Quiet(f)'
  /\ sent'[f] = sent[f] /\ disk'[f] = Promise!Kept(sent[f])
GaveUp(f) == f \in Promised /\ f \notin Promised'
Replaced(f) ==
  /\ f \in Promised => Quiet(f)
  /\ f \in Promised' /\ Quiet(f)'
  /\ sent'[f] \in NewTexts /\ disk'[f] = Promise!Kept(sent'[f])

Changed(f) ==
  Untouched(f) \/ Began(f) \/ Reopened(f) \/ Wrote(f) \/ Closed(f) \/ GaveUp(f) \/ Replaced(f)

\* A step that is about one file in this sense is a step of DurableFiles.
LEMMA OneFile ==
  ASSUME NEW f, Changed(f), \A j : j # f => Untouched(j)
  PROVE  [Promise!Next]_(Promise!files)
<1> DEFINE t == [i \in Promised |-> sent[i]]
           s == [i \in Promised |-> disk[i]]
           o == {i \in Promised : ~Quiet(i)}
<1>1. CASE Untouched(f)
  <2>1. \A j : Untouched(j)
    BY <1>1
  <2>2. Promised' = Promised
    BY <2>1 DEF Untouched
  <2>3. \A j \in Promised : disk'[j] = disk[j] /\ sent'[j] = sent[j] /\ Quiet(j)' = Quiet(j)
    BY <2>1 DEF Untouched
  <2>4. t' = t /\ s' = s /\ o' = o
    BY <2>2, <2>3
  <2> QED
    BY <2>4 DEF Promise!files
<1>2. CASE ~Untouched(f)
  <2>1. \A j : j # f => (j \in Promised' <=> j \in Promised)
    BY DEF Untouched
  <2>2. \A j \in Promised \ {f} : disk'[j] = disk[j] /\ sent'[j] = sent[j] /\ Quiet(j)' = Quiet(j)
    BY DEF Untouched
  <2>3. f \in Promised \cup Promised'
    BY <1>2 DEF Changed, Began, Reopened, Wrote, Closed, GaveUp, Replaced
  <2>4. /\ DOMAIN t = Promised /\ DOMAIN t' = Promised'
        /\ DOMAIN s = Promised /\ DOMAIN s' = Promised'
        /\ \A j \in Promised : t[j] = sent[j] /\ s[j] = disk[j] /\ (j \in o <=> ~Quiet(j))
        /\ \A j \in Promised' : t'[j] = sent'[j] /\ s'[j] = disk'[j] /\ (j \in o' <=> ~Quiet(j)')
        /\ o \subseteq Promised /\ o' \subseteq Promised'
    OBVIOUS
  <2>5. Promise!Only(f)
    BY <2>1, <2>2 DEF Promise!Only
  <2>6. /\ Began(f) => Promise!Begin(f)
        /\ Wrote(f) => Promise!Write(f)
        /\ GaveUp(f) => Promise!GiveUp(f)
        /\ Replaced(f) => Promise!Replace(f)
    <3>1. Began(f) => Promise!Begin(f)
      BY DEF Began, NewTexts, Promise!Begin
    <3>2. Wrote(f) => Promise!Write(f)
      BY DEF Wrote, Promise!Write
    <3>3. GaveUp(f) => Promise!GiveUp(f)
      BY DEF GaveUp, Promise!GiveUp
    <3>4. Replaced(f) => Promise!Replace(f)
      BY DEF Replaced, NewTexts, Promise!Replace
    <3> QED
      BY <3>1, <3>2, <3>3, <3>4
  <2>7. Reopened(f) => Promise!Reopen(f)
    <3>1. ASSUME Reopened(f) PROVE t' = t /\ s' = s
      BY <2>1, <2>2, <3>1 DEF Reopened
    <3> QED
      BY <3>1 DEF Reopened, Promise!Reopen
  <2>8. Closed(f) => Promise!Close(f)
    <3>1. ASSUME Closed(f) PROVE t' = t
      BY <2>1, <2>2, <3>1 DEF Closed
    <3> QED
      BY <3>1 DEF Closed, Promise!Close
  <2>9. f \in DOMAIN t \cup DOMAIN t'
    BY <2>3, <2>4
  <2> QED
    BY <1>2, <2>5, <2>6, <2>7, <2>8, <2>9 DEF Changed, Promise!Next
<1> QED
  BY <1>1, <1>2

\* A step is about one file; and what files hold at every moment.
AboutOne == \E f : Changed(f) /\ \A j : j # f => Untouched(j)
Begins == \A i \in Promised : Promise!IsPrefix(disk[i], Promise!Kept(sent[i]))

\* A text is a beginning of itself with another one behind.
LEMMA Prefixed ==
  ASSUME NEW a \in Texts, NEW b \in Texts
  PROVE  Promise!IsPrefix(a, Then(a, b))
<1>1. /\ Len(a) \in Nat /\ Len(b) \in Nat /\ Len(Then(a, b)) = Len(a) + Len(b)
      /\ SubSeq(Then(a, b), 1, Len(a)) = a /\ SubSeq(a, 1, Len(a)) = a
  BY Lengths, Beginning, AllOut
<1> QED
  BY <1>1 DEF Promise!IsPrefix

\* What a file holds is a beginning of what will be kept of its text.
LEMMA StoredBegins == Inv /\ Content => Begins
<1> SUFFICES ASSUME Inv, Content, NEW i \in Promised
             PROVE  Promise!IsPrefix(disk[i], Promise!Kept(sent[i]))
  BY DEF Begins
<1>1. PICK d \in Texts, r \in Texts, t \in Texts :
        d = disk[i] /\ t = sent[i] /\ t = Then(d, r) /\ Len(d) <= Quota
  BY Follows
<1>2. /\ Len(d) \in Nat /\ Len(r) \in Nat /\ Len(t) = Len(d) + Len(r) /\ Len(t) \in Nat
      /\ SubSeq(t, 1, Len(d)) = d /\ SubSeq(d, 1, Len(d)) = d
  BY <1>1, Lengths, Beginning, AllOut
<1>3. PICK m \in Nat : m = IF Len(t) <= Quota THEN Len(t) ELSE Quota
  BY <1>2, BoundsAssumption
<1>4. m \in 0..Len(t) /\ Len(d) <= m
  BY <1>1, <1>2, <1>3, BoundsAssumption
<1>5. PICK u \in Texts, v \in Texts : u = SubSeq(t, 1, m) /\ t = Then(u, v)
  BY <1>4, Split, ZenonT(40)
<1>6. Len(u) = m
  <2>1. 0 + m <= Len(t) /\ 0 + 1 = 1 /\ 0 + m = m
    BY <1>2, <1>4
  <2>2. Len(SubSeq(t, 0 + 1, 0 + m)) = m
    BY <2>1, Between
  <2> QED
    BY <1>5, <2>1, <2>2
<1>7. SubSeq(u, 1, Len(d)) = d
  <2>1. CASE d = << >>
    BY <2>1, SubSeqEmpty
  <2>2. CASE d # << >>
    <3>1. Len(d) # 0
      BY <2>2, EmptySeq DEF Texts
    <3>2. 1 \in 1..Len(u) /\ Len(d) \in 1..Len(u)
      BY <1>2, <1>4, <1>6, <3>1
    <3>3. SubSeq(u \o v, 1, Len(d)) = SubSeq(u, 1, Len(d))
      BY <3>2, SubSeqOfConcat1 DEF Texts
    <3> QED
      BY <1>2, <1>5, <3>3 DEF Then
  <2> QED
    BY <2>1, <2>2
<1> QED
  BY <1>1, <1>2, <1>3, <1>4, <1>5, <1>6, <1>7 DEF Promise!IsPrefix, Promise!Kept

\* A file that a step leaves alone, with its writers.
LEMMA LeftAlone ==
  ASSUME NEW j, j \in DOMAIN disk' <=> j \in DOMAIN disk, j \in raced' <=> j \in raced,
         j \in Promised =>
           /\ disk'[j] = disk[j] /\ sent'[j] = sent[j] /\ Writers(j)' = Writers(j)
           /\ UNCHANGED call \/ (~BlindWriting(j) /\ ~BlindWriting(j)')
  PROVE  Untouched(j)
<1>1. j \in Promised => Quiet(j)' = Quiet(j)
  BY DEF Quiet, BlindWriting
<1> QED
  BY <1>1 DEF Untouched, Promised

\* A file that was promised and is no longer was given up; one that is not promised
\* before and after a step is untouched.
LEMMA NotPromised ==
  ASSUME NEW f, f \notin Promised'
  PROVE  Changed(f)
BY DEF Changed, GaveUp, Untouched

\* A step that changes no file and no writer of one.
LEMMA NoneChanged ==
  ASSUME UNCHANGED <<disk, sent, raced>>,
         \A j \in Promised : Writers(j)' = Writers(j),
         UNCHANGED call \/ \A j : ~BlindWriting(j) /\ ~BlindWriting(j)'
  PROVE  AboutOne
<1>1. \A j : Untouched(j)
  BY LeftAlone
<1> QED
  BY <1>1 DEF AboutOne, Changed

\* A file is opened to be written (winx_util.cpp:25, 44-52).
LEMMA OpenIsAboutOne ==
  ASSUME TypeOK, FilesKnown, NEW n \in Names, NEW i \in Inodes \cup {NoFile},
         NEW trunc \in BOOLEAN, NEW k, NEW now \in Texts, now \in NewTexts,
         OpenToWrite(n, i, trunc, k, now), i # NoFile, call = Idle, ~Quiet(i)',
         \A j : j # i => Writers(j)' = Writers(j) /\ ~BlindWriting(j)'
  PROVE  AboutOne
<1>1. /\ DOMAIN disk' = DOMAIN disk \cup {i}
      /\ \A j \in DOMAIN disk \ {i} : /\ disk'[j] = disk[j] /\ sent'[j] = sent[j]
                                      /\ j \notin raced' => j \notin raced
      /\ i \notin raced' =>
           /\ Writers(i) = {}
           /\ \/ disk'[i] = << >> /\ sent'[i] = now
              \/ /\ ~trunc /\ i \in Promised
                 /\ disk'[i] = disk[i] /\ sent'[i] = sent[i]
  BY Opened
<1>2. \A j : j # i => (j \in raced' <=> j \in raced)
  BY DEF OpenToWrite, history
<1>3. ASSUME NEW j, j # i
      PROVE  Untouched(j)
  BY <1>1, <1>2, <1>3, LeftAlone DEF BlindWriting, Promised
<1>4. Changed(i)
  <2>1. CASE i \notin Promised'
    BY <2>1, NotPromised
  <2>2. CASE i \in Promised'
    <3>1. i \notin raced' /\ Quiet(i)
      BY <1>1, <2>2 DEF Promised, Quiet
    <3> QED
      BY <1>1, <2>2, <3>1 DEF Changed, Began, Reopened
  <2> QED
    BY <2>1, <2>2
<1> QED
  BY <1>3, <1>4 DEF AboutOne

\* A handle is opened, with an ofstream on file i (winx_util.cpp:44-52).
LEMMA HandleOpenIsAboutOne ==
  ASSUME Inv, call = Idle, UNCHANGED call, NEW n \in Names, NEW i \in Inodes \cup {NoFile},
         NEW trunc \in BOOLEAN, NEW k, OpenToWrite(n, i, trunc, k, << >>),
         NEW q \in StreamPtrs \ DOMAIN outs, NEW s, s.file = i, outs' = Alloc(outs, q, s)
  PROVE  AboutOne
<1>1. TypeOK /\ FilesKnown
  BY DEF Inv
<1>2. /\ DOMAIN outs' = DOMAIN outs \cup {q} /\ outs'[q].file = i
      /\ \A r \in DOMAIN outs : outs'[r] = outs[r]
  BY DEF Alloc
<1>3. \A j : ~BlindWriting(j) /\ ~BlindWriting(j)'
  BY DEF BlindWriting
<1>4. \A j : j # i => Writers(j)' = Writers(j)
  BY <1>2 DEF Writers
<1>5. CASE i = NoFile
  <2>1. UNCHANGED <<disk, sent, raced>>
    <3>1. i \notin Inodes
      BY <1>5, FilesAssumption
    <3> QED
      BY <1>1, <3>1 DEF OpenToWrite, TypeOK, fileVars, history
  <2>2. \A j \in Promised : j # i
    BY <1>1, <1>5, FilesAssumption DEF TypeOK, Promised
  <2> QED
    BY <1>3, <1>4, <2>1, <2>2, NoneChanged
<1>6. CASE i # NoFile
  <2>1. ~Quiet(i)'
    BY <1>2 DEF Quiet, Writers
  <2>2. << >> \in NewTexts /\ << >> \in Texts
    BY Nothing DEF NewTexts
  <2> QED
    BY <1>1, <1>3, <1>4, <1>6, <2>1, <2>2, OpenIsAboutOne
<1> QED
  BY <1>5, <1>6

\* A blind write begins (winx_util.cpp:22-27).
LEMMA BlindWriteBeginIsAboutOne ==
  ASSUME Inv, NEW n \in Names, NEW d \in Data, BlindWriteBegin(n, d)
  PROVE  AboutOne
<1>1. PICK i \in Inodes \cup {NoFile} :
        /\ OpenToWrite(n, i, TRUE, 0, CStr(d))
        /\ call' = IF i = NoFile THEN Idle
                   ELSE [op |-> "write", file |-> i, data |-> d, done |-> 0]
  BY DEF BlindWriteBegin
<1>2. call = Idle /\ UNCHANGED outs /\ TypeOK /\ FilesKnown
  BY DEF BlindWriteBegin, Running, heapVars, Inv
<1>3. \A j : ~BlindWriting(j) /\ Writers(j)' = Writers(j)
  BY <1>2 DEF BlindWriting, Writers
<1>4. CASE i = NoFile
  <2>1. UNCHANGED <<disk, sent, raced>>
    <3>1. i \notin Inodes
      BY <1>4, FilesAssumption
    <3> QED
      BY <1>1, <1>2, <3>1 DEF OpenToWrite, TypeOK, fileVars, history
  <2> QED
    BY <1>1, <1>2, <1>3, <1>4, <2>1, NoneChanged
<1>5. CASE i # NoFile
  <2>1. call' = [op |-> "write", file |-> i, data |-> d, done |-> 0] /\ i \in Inodes
    BY <1>1, <1>5
  <2>2. call' # Idle
    BY <2>1, FilesAssumption
  <2>3. ~Quiet(i)' /\ \A j : j # i => ~BlindWriting(j)'
    BY <2>1, <2>2 DEF Quiet, BlindWriting
  <2>4. CStr(d) \in Texts /\ CStr(d) \in NewTexts
    BY FilesAssumption, CStrBegins DEF Text, Texts, NewTexts
  <2>5. PICK trunc \in BOOLEAN : trunc = TRUE
    OBVIOUS
  <2>6. PICK now \in Texts : now = CStr(d)
    BY <2>4
  <2>7. OpenToWrite(n, i, trunc, 0, now) /\ now \in NewTexts
    BY <1>1, <2>4, <2>5, <2>6
  <2> QED
    BY <1>2, <1>3, <1>5, <2>3, <2>7, OpenIsAboutOne
<1> QED
  BY <1>4, <1>5

\* A handle's write ends (winx_fs.hpp:131-133, winx_util.cpp:88-94).
LEMMA WriteEndIsAboutOne ==
  ASSUME Inv, Content, Begins', NEW d \in Data, WriteEnd(d)
  PROVE  AboutOne
<1>1. TypeOK /\ FilesKnown
  BY DEF Inv
<1>2. call = Idle /\ UNCHANGED <<call, raced>>
  BY DEF WriteEnd, Running
<1>3. PICK c \in Texts : c = CStr(d)
  BY FilesAssumption, CStrBegins DEF Text, Texts
<1>4. CASE UNCHANGED <<disk, outs, sent>>
  <2>1. \A j : Writers(j)' = Writers(j)
    BY <1>4 DEF Writers
  <2> QED
    BY <1>2, <1>4, <2>1, NoneChanged
<1>5. ASSUME NEW q \in DOMAIN outs, outs[q].file # NoFile, Insert(q, c),
             sent' = [sent EXCEPT ![outs[q].file] = @ \o c]
      PROVE  AboutOne
  <2>1. PICK i : i = outs[q].file /\ i # NoFile /\ sent' = [sent EXCEPT ![i] = @ \o c]
    BY <1>5
  <2>2. /\ DOMAIN disk' = DOMAIN disk /\ DOMAIN outs' = DOMAIN outs
        /\ \A r \in DOMAIN outs : outs'[r].file = outs[r].file
    BY <1>1, <1>5, InsertType DEF Texts
  <2>3. \A j \in DOMAIN disk \ {i} : disk'[j] = disk[j]
    BY <1>1, <1>5, <2>1 DEF Insert, Flushed, TypeOK
  <2>4. \A j \in DOMAIN disk \ {i} : sent'[j] = sent[j]
    BY <1>1, <2>1 DEF TypeOK
  <2>5. \A j : Writers(j)' = Writers(j)
    BY <2>2 DEF Writers
  <2>6. ASSUME NEW j, j # i
        PROVE  Untouched(j)
    BY <1>2, <2>2, <2>3, <2>4, <2>5, <2>6, LeftAlone DEF Promised
  <2>7. Changed(i)
    <3>1. CASE i \notin Promised'
      BY <3>1, NotPromised
    <3>2. CASE i \in Promised'
      <4>1. i \in Promised /\ i \in DOMAIN disk /\ ~Quiet(i) /\ ~Quiet(i)'
        BY <1>2, <2>1, <2>2, <2>5, <3>2 DEF Promised, Quiet, Writers
      <4>2. PICK a \in Texts, b \in Texts : a = disk[i] /\ b = sent[i]
        BY <1>1, <4>1 DEF TypeOK, Texts
      <4>3. sent'[i] = Then(b, c)
        BY <1>1, <2>1, <4>1, <4>2 DEF TypeOK, Then
      <4>4. ~outs[q].app => outs[q].pos = Len(disk[i])
        BY <2>1, <4>1 DEF Content, Settled, Writers
      <4>5. Grows(i)
        BY <1>1, <1>5, <2>1, <4>1, <4>4, StreamGrows
      <4>6. PICK w \in Texts : disk'[i] = Then(a, w)
        BY <4>2, <4>5 DEF Grows
      <4>7. Promise!IsPrefix(disk[i], disk'[i]) /\ Promise!IsPrefix(sent[i], sent'[i])
        BY <4>2, <4>3, <4>6, Prefixed
      <4>8. Promise!IsPrefix(disk'[i], Promise!Kept(sent'[i]))
        BY <3>2 DEF Begins
      <4> QED
        BY <3>2, <4>1, <4>7, <4>8 DEF Changed, Wrote
    <3> QED
      BY <3>1, <3>2
  <2> QED
    BY <2>6, <2>7 DEF AboutOne
<1> QED
  BY <1>1, <1>3, <1>4, <1>5, WriteGoesToItsFile

\* A handle is closed (winx_util.cpp:63-76).
LEMMA CloseIsAboutOne ==
  ASSUME Inv, Content, CloseMakesDurable', NEW o, Close(o)
  PROVE  AboutOne
<1>1. TypeOK /\ FilesKnown /\ StructsOwnStreams
  BY DEF Inv
<1>2. PICK q : /\ \E a \in DOMAIN hnd : q = hnd[a].out
               /\ IF q = Null THEN UNCHANGED <<disk, outs>> ELSE FlushAndFree(q)
  BY DEF Close
<1>3. call = Idle /\ UNCHANGED <<call, sent, raced>>
  BY DEF Close, Running, history
<1>4. CASE q = Null
  <2>1. \A j : Writers(j)' = Writers(j)
    BY <1>2, <1>4 DEF Writers
  <2> QED
    BY <1>2, <1>3, <1>4, <2>1, NoneChanged
<1>5. CASE q # Null
  <2>1. q \in DOMAIN outs /\ FlushAndFree(q)
    BY <1>1, <1>2, <1>5 DEF StructsOwnStreams
  <2>2. PICK i : i = outs[q].file
    OBVIOUS
  <2>3. /\ DOMAIN disk' = DOMAIN disk /\ DOMAIN outs' = DOMAIN outs \ {q}
        /\ \A r \in DOMAIN outs' : outs'[r] = outs[r]
    BY <1>1, <2>1, FlushAndFreeType
  <2>4. \A j \in DOMAIN disk \ {i} : disk'[j] = disk[j]
    BY <1>1, <2>1, <2>2 DEF FlushAndFree, Flushed, TypeOK
  <2>5. \A j : j # i => Writers(j)' = Writers(j)
    BY <2>2, <2>3 DEF Writers
  <2>6. ASSUME NEW j, j # i
        PROVE  Untouched(j)
    BY <1>3, <2>3, <2>4, <2>5, <2>6, LeftAlone DEF Promised
  <2>7. Changed(i)
    <3>1. CASE i \notin Promised'
      BY <3>1, NotPromised
    <3>2. CASE i \in Promised'
      <4>1. i \in Promised /\ Settled(i)
        BY <1>3, <2>3, <3>2 DEF Promised, Content
      <4>2. q \in Writers(i) /\ \A r \in Writers(i) : r = q
        BY <2>1, <2>2, <4>1 DEF Settled, Writers
      <4>3. Writers(i)' = {}
        BY <2>3, <4>2 DEF Writers
      <4>4. ~Quiet(i) /\ Quiet(i)'
        BY <1>3, <4>2, <4>3 DEF Quiet
      <4>5. disk'[i] = Promise!Kept(sent'[i])
        BY <3>2, <4>4 DEF CloseMakesDurable
      <4> QED
        BY <1>3, <3>2, <4>1, <4>4, <4>5 DEF Changed, Closed
    <3> QED
      BY <3>1, <3>2
  <2> QED
    BY <2>6, <2>7 DEF AboutOne
<1> QED
  BY <1>4, <1>5

\* A blind write goes on (winx_util.cpp:28).
LEMMA BlindWriteSomeIsAboutOne ==
  ASSUME Inv, Content, Begins', BlindWriteSome
  PROVE  AboutOne
<1>1. TypeOK /\ FilesKnown
  BY DEF Inv
<1>2. PICK i : i = call.file
  OBVIOUS
<1>3. call # Idle /\ call.op = "write" /\ UNCHANGED <<outs, sent, raced>> /\ i \in DOMAIN disk
  BY <1>1, <1>2 DEF BlindWriteSome, heapVars, history, FilesKnown
<1>4. DOMAIN disk' = DOMAIN disk
  BY DEF BlindWriteSome
<1>5. call' # Idle /\ call'.op = "write" /\ call'.file = call.file
  <2>1. call \in [op: {"write"}, file: Inodes, data: Data, done: Nat]
    BY <1>1, <1>3 DEF TypeOK
  <2>2. PICK k \in Nat : call' = [call EXCEPT !.done = @ + k]
    BY DEF BlindWriteSome
  <2>3. call' \in [op: {"write"}, file: Inodes, data: Data, done: Nat]
    BY <2>1, <2>2
  <2> QED
    BY <2>1, <2>2, <2>3, FilesAssumption
<1>6. \A j : Writers(j)' = Writers(j)
  BY <1>3 DEF Writers
<1>7. ASSUME NEW j, j # i
      PROVE  Untouched(j)
  <2>1. j \in Promised => disk'[j] = disk[j]
    BY <1>1, <1>2, <1>7, BlindWriteGrows DEF Promised
  <2> QED
    BY <1>2, <1>3, <1>4, <1>5, <1>6, <1>7, <2>1, LeftAlone DEF BlindWriting
<1>8. Changed(i)
  <2>1. CASE i \notin Promised'
    BY <2>1, NotPromised
  <2>2. CASE i \in Promised'
    <3>1. i \in Promised /\ ~Quiet(i) /\ ~Quiet(i)'
      BY <1>2, <1>3, <1>4, <1>5, <2>2 DEF Promised, Quiet
    <3>2. Grows(i)
      BY <1>1, <1>2, <1>3, <3>1, BlindWriteGrows
    <3>3. PICK a \in Texts, b \in Texts : a = disk[i] /\ b = sent[i]
      BY <1>1, <1>3 DEF TypeOK, Texts
    <3>4. PICK w \in Texts : disk'[i] = Then(a, w)
      BY <3>2, <3>3 DEF Grows
    <3>5. Promise!IsPrefix(disk[i], disk'[i])
      BY <3>3, <3>4, Prefixed
    <3>6. Promise!IsPrefix(sent[i], sent'[i])
      <4>1. sent'[i] = Then(b, << >>) /\ << >> \in Texts
        BY <1>3, <3>3, Nothing
      <4> QED
        BY <3>3, <4>1, Prefixed
    <3>7. Promise!IsPrefix(disk'[i], Promise!Kept(sent'[i]))
      BY <2>2 DEF Begins
    <3> QED
      BY <2>2, <3>1, <3>5, <3>6, <3>7 DEF Changed, Wrote
  <2> QED
    BY <2>1, <2>2
<1> QED
  BY <1>7, <1>8 DEF AboutOne

\* A blind write is done (winx_util.cpp:29).
LEMMA BlindWriteEndIsAboutOne ==
  ASSUME Inv, Content, CloseMakesDurable', BlindWriteEnd
  PROVE  AboutOne
<1>1. PICK i : i = call.file
  OBVIOUS
<1>2. /\ call # Idle /\ call.op = "write" /\ call' = Idle
      /\ UNCHANGED <<disk, outs, sent, raced>>
  BY DEF BlindWriteEnd, fileVars, heapVars, history
<1>3. \A j : Writers(j)' = Writers(j)
  BY <1>2 DEF Writers
<1>4. ASSUME NEW j, j # i
      PROVE  Untouched(j)
  BY <1>1, <1>2, <1>3, <1>4, LeftAlone DEF BlindWriting
<1>5. Changed(i)
  <2>1. CASE i \notin Promised'
    BY <2>1, NotPromised
  <2>2. CASE i \in Promised'
    <3>1. i \in Promised /\ Settled(i) /\ BlindWriting(i)
      BY <1>1, <1>2, <2>2 DEF Promised, Content, BlindWriting
    <3>2. ~Quiet(i) /\ Quiet(i)'
      BY <1>2, <1>3, <3>1 DEF Quiet, Settled, BlindWriting
    <3>3. disk'[i] = Promise!Kept(sent'[i])
      BY <2>2, <3>2 DEF CloseMakesDurable
    <3> QED
      BY <1>2, <2>2, <3>1, <3>2, <3>3 DEF Changed, Closed
  <2> QED
    BY <2>1, <2>2
<1> QED
  BY <1>4, <1>5 DEF AboutOne

\* A text that fits is kept whole.
LEMMA KeptWhole ==
  ASSUME NEW c \in InitContents
  PROVE  Promise!Kept(c) = c
<1>1. c \in Texts /\ Len(c) <= Quota
  BY FilesAssumption, BoundsAssumption DEF Texts
<1> QED
  BY <1>1, AllOut DEF Promise!Kept

\* Another process replaces what a file holds.
LEMMA ExternalWriteIsAboutOne ==
  ASSUME Inv, NEW n \in Names, NEW c \in InitContents, ExternalWrite(n, c)
  PROVE  AboutOne
<1>1. TypeOK /\ FilesKnown
  BY DEF Inv
<1>2. PICK i : i = dir[n]
  OBVIOUS
<1>3. /\ i \in DOMAIN disk /\ disk' = [disk EXCEPT ![i] = c] /\ UNCHANGED <<outs, call>>
      /\ IF Writers(i) # {} \/ (call # Idle /\ call.file = i)
         THEN raced' = raced \cup {i} /\ UNCHANGED sent
         ELSE sent' = [sent EXCEPT ![i] = c] /\ raced' = raced \ {i}
  BY <1>1, <1>2 DEF ExternalWrite, heapVars, FilesKnown
<1>4. \A j : Writers(j)' = Writers(j)
  BY <1>3 DEF Writers
<1>5. ASSUME NEW j, j # i
      PROVE  Untouched(j)
  <2>1. DOMAIN disk' = DOMAIN disk /\ (j \in raced' <=> j \in raced)
    BY <1>3, <1>5
  <2>2. j \in DOMAIN disk => disk'[j] = disk[j] /\ sent'[j] = sent[j]
    BY <1>1, <1>3, <1>5 DEF TypeOK
  <2> QED
    BY <1>3, <1>4, <2>1, <2>2, LeftAlone DEF Promised
<1>6. Changed(i)
  <2>1. CASE i \notin Promised'
    BY <2>1, NotPromised
  <2>2. CASE i \in Promised'
    <3>1. Writers(i) = {} /\ ~(call # Idle /\ call.file = i) /\ sent' = [sent EXCEPT ![i] = c]
      BY <1>3, <2>2 DEF Promised
    <3>2. Quiet(i) /\ Quiet(i)'
      BY <1>3, <1>4, <3>1 DEF Quiet
    <3>3. disk'[i] = c /\ sent'[i] = c
      BY <1>1, <1>3, <3>1 DEF TypeOK
    <3>4. disk'[i] = Promise!Kept(sent'[i]) /\ sent'[i] \in NewTexts
      BY <3>3, KeptWhole DEF NewTexts
    <3> QED
      BY <2>2, <3>2, <3>4 DEF Changed, Replaced
  <2> QED
    BY <2>1, <2>2
<1> QED
  BY <1>5, <1>6 DEF AboutOne

\* Each step is about one file.
LEMMA StepIsAboutOne ==
  ASSUME Inv, Content, Begins', CloseMakesDurable', [Next]_vars
  PROVE  AboutOne
<1>1. ASSUME UNCHANGED <<disk, outs, sent, raced>>,
             UNCHANGED call \/ \A j : ~BlindWriting(j) /\ ~BlindWriting(j)'
      PROVE  AboutOne
  <2>1. \A j : Writers(j)' = Writers(j)
    BY <1>1 DEF Writers
  <2> QED
    BY <1>1, <2>1, NoneChanged
<1>2. ASSUME NEW o \in Objs, NEW n \in Names, NEW m \in Modes, Open(o, n, m)
      PROVE  AboutOne
  <2>1. call = Idle /\ UNCHANGED call
    BY <1>2 DEF Open, Running
  <2> DEFINE opened == IF "r" \in m /\ FileToRead(n, 0) # NoFile THEN 1 ELSE 0
  <2>2. \/ UNCHANGED <<disk, outs, sent, raced>>
        \/ \E i \in Inodes \cup {NoFile}, q \in StreamPtrs \ DOMAIN outs :
             /\ OpenToWrite(n, i, "w" \in m, opened, << >>)
             /\ outs' = Alloc(outs, q, [file |-> i, pos |-> 0, app |-> "w" \notin m,
                                        buf |-> << >>, bad |-> FALSE])
    BY <1>2 DEF Open, fileVars, history
  <2> HIDE DEF opened
  <2>3. CASE UNCHANGED <<disk, outs, sent, raced>>
    BY <1>1, <2>1, <2>3
  <2>4. ASSUME NEW i \in Inodes \cup {NoFile}, NEW q \in StreamPtrs \ DOMAIN outs,
               OpenToWrite(n, i, "w" \in m, opened, << >>),
               outs' = Alloc(outs, q, [file |-> i, pos |-> 0, app |-> "w" \notin m,
                                       buf |-> << >>, bad |-> FALSE])
        PROVE  AboutOne
    <3> DEFINE trunc == "w" \in m
    <3>1. trunc \in BOOLEAN
      OBVIOUS
    <3>2. OpenToWrite(n, i, trunc, opened, << >>)
      BY <2>4
    <3>3. PICK s : s.file = i /\ outs' = Alloc(outs, q, s)
      BY <2>4
    <3> HIDE DEF trunc
    <3> QED
      BY <2>1, <3>1, <3>2, <3>3, HandleOpenIsAboutOne
  <2> QED
    BY <2>2, <2>3, <2>4
<1>3. ASSUME NEW o \in Objs, HandleRead(o) \/ WriteBegin(o)
      PROVE  AboutOne
  BY <1>1, <1>3 DEF HandleRead, WriteBegin, fileVars, heapVars, history
<1>4. ASSUME NEW n \in Names, Delete(n)
      PROVE  AboutOne
  BY <1>1, <1>4 DEF Delete, heapVars, history
<1>5. ASSUME Exit \/ UseFreed \/ PassUnconverted \/ UNCHANGED vars
      PROVE  AboutOne
  BY <1>1, <1>5 DEF Exit, UseFreed, PassUnconverted, Undefined, vars, fileVars, heapVars, history
<1>6. ASSUME BlindReadEnd \/ \E n \in Names : BlindReadBegin(n)
      PROVE  AboutOne
  <2>1. UNCHANGED <<disk, outs, sent, raced>>
    BY <1>6 DEF BlindReadEnd, BlindReadBegin, fileVars, heapVars, history
  <2>2. \A j : ~BlindWriting(j) /\ ~BlindWriting(j)'
    BY <1>6 DEF BlindReadEnd, BlindReadBegin, Running, BlindWriting
  <2> QED
    BY <1>1, <2>1, <2>2
<1>7. ASSUME NEW o \in Objs, Close(o)
      PROVE  AboutOne
  BY <1>7, CloseIsAboutOne
<1>8. ASSUME NEW d \in Data, WriteEnd(d)
      PROVE  AboutOne
  BY <1>8, WriteEndIsAboutOne
<1>9. ASSUME NEW n \in Names, NEW d \in Data, BlindWriteBegin(n, d)
      PROVE  AboutOne
  BY <1>9, BlindWriteBeginIsAboutOne
<1>10. ASSUME BlindWriteSome
       PROVE  AboutOne
  BY <1>10, BlindWriteSomeIsAboutOne
<1>11. ASSUME BlindWriteEnd
       PROVE  AboutOne
  BY <1>11, BlindWriteEndIsAboutOne
<1>12. ASSUME NEW n \in Names, NEW c \in InitContents, ExternalWrite(n, c)
       PROVE  AboutOne
  BY <1>12, ExternalWriteIsAboutOne
<1> QED
  BY <1>2, <1>3, <1>4, <1>5, <1>6, <1>7, <1>8, <1>9, <1>10, <1>11, <1>12 DEF Next

\* FileHandles implements DurableFiles: handles with their streams and buffers, blind
\* calls, closed handles that are used again, a full disk, deaths of the process and
\* other programs that write never break what is promised of a file's content.
THEOREM HandlesKeepThePromise == Spec => KeepsPromise
<1>1. Init => Promise!Init
  <2> SUFFICES ASSUME Init
               PROVE  Promise!Init
    OBVIOUS
  <2>1. /\ outs = << >> /\ call = Idle /\ sent = disk
        /\ \A i \in DOMAIN disk : disk[i] \in InitContents
    BY DEF Init
  <2>2. \A i \in Promised : Quiet(i) /\ sent[i] \in NewTexts /\ disk[i] = Promise!Kept(sent[i])
    BY <2>1, KeptWhole DEF Promised, Quiet, Writers, NewTexts
  <2> QED
    BY <2>2 DEF Promise!Init, NewTexts
<1>2. /\ Inv /\ Content /\ Begins' /\ CloseMakesDurable' /\ [Next]_vars
      => [Promise!Next]_(Promise!files)
  BY StepIsAboutOne, OneFile DEF AboutOne
<1> QED
  BY <1>1, <1>2, StoredBegins, ContentHolds, ClosedFilesAreDurable, PTL
     DEF Spec, KeepsPromise, Promise!Spec

-----------------------------------------------------------------------------
(* Reads.                                                                  *)

\* A file size below 2^32 that is an int's value is that value.
LEMMA SizeFits ==
  ASSUME NEW n \in Nat, n < IntRange, ToInt(n) >= 0
  PROVE  ToInt(n) = n
<1>1. IntRange \in Nat \ {0}
  BY IntRangeAssumption
<1>2. n % IntRange = n
  BY <1>1
<1> QED
  BY <1>1, <1>2 DEF ToInt

\* A blind read in progress has the size of its file, if nobody else writes it.
Sized ==
  (call # Idle /\ call.op = "read" /\ call.file \in Promised) => call.size = Len(disk[call.file])

\* While a blind read is in progress only another process can change a file
\* (winx_util.cpp:10-18).
LEMMA SizedStep ==
  ASSUME Quota < IntRange, Inv, Content, Sized, [Next]_vars
  PROVE  Sized'
<1>1. TypeOK /\ FilesKnown
  BY DEF Inv
<1>2. ASSUME call' = Idle \/ call'.op # "read"
      PROVE  Sized'
  BY <1>2 DEF Sized
<1>3. ASSUME Running, UNCHANGED call
      PROVE  Sized'
  BY <1>2, <1>3 DEF Running
<1>4. ASSUME NEW o \in Objs, NEW n \in Names, NEW m \in Modes, Open(o, n, m)
      PROVE  Sized'
  BY <1>3, <1>4 DEF Open
<1>5. ASSUME NEW o \in Objs, HandleRead(o) \/ WriteBegin(o) \/ Close(o)
      PROVE  Sized'
  BY <1>3, <1>5 DEF HandleRead, WriteBegin, Close
<1>6. ASSUME NEW d \in Data, WriteEnd(d)
      PROVE  Sized'
  BY <1>3, <1>6 DEF WriteEnd
<1>7. ASSUME NEW n \in Names, Delete(n)
      PROVE  Sized'
  BY <1>3, <1>7 DEF Delete
<1>8. ASSUME UseFreed \/ PassUnconverted \/ Exit \/ UNCHANGED vars
      PROVE  Sized'
  <2>1. UNCHANGED <<call, disk, raced>>
    BY <1>8 DEF UseFreed, PassUnconverted, Undefined, Exit, vars, fileVars, history
  <2> QED
    BY <2>1 DEF Sized, Promised
<1>9. ASSUME NEW n \in Names, BlindReadBegin(n)
      PROVE  Sized'
  <2>1. CASE UNCHANGED call
    BY <1>3, <1>9, <2>1 DEF BlindReadBegin
  <2>2. CASE ~UNCHANGED call
    <3>1. PICK i : i = FileToRead(n, 0)
      OBVIOUS
    <3>2. /\ i # NoFile /\ ToInt(Len(disk[i])) >= 0
          /\ call' = [op |-> "read", file |-> i, size |-> ToInt(Len(disk[i]))]
          /\ UNCHANGED <<disk, raced>>
      BY <1>9, <2>2, <3>1 DEF BlindReadBegin, fileVars, history
    <3>3. ASSUME i \in Promised
          PROVE  ToInt(Len(disk[i])) = Len(disk[i])
      <4>1. Len(disk[i]) \in Nat /\ Len(disk[i]) <= Quota
        BY <3>3, Follows, Lengths
      <4> QED
        BY <3>2, <4>1, SizeFits, IntRangeAssumption, BoundsAssumption
    <3> QED
      BY <3>2, <3>3 DEF Sized, Promised
  <2> QED
    BY <2>1, <2>2
<1>10. ASSUME BlindReadEnd \/ BlindWriteEnd
       PROVE  Sized'
  BY <1>2, <1>10 DEF BlindReadEnd, BlindWriteEnd
<1>11. ASSUME NEW n \in Names, NEW d \in Data, BlindWriteBegin(n, d)
       PROVE  Sized'
  BY <1>2, <1>11 DEF BlindWriteBegin
<1>12. ASSUME BlindWriteSome
       PROVE  Sized'
  <2>1. call \in [op: {"write"}, file: Inodes, data: Data, done: Nat]
    BY <1>1, <1>12 DEF TypeOK, BlindWriteSome
  <2>2. \E k : call' = [call EXCEPT !.done = @ + k]
    BY <1>12 DEF BlindWriteSome
  <2>3. call'.op # "read"
    BY <2>1, <2>2
  <2> QED
    BY <1>2, <2>3
<1>13. ASSUME NEW n \in Names, NEW c \in InitContents, ExternalWrite(n, c)
       PROVE  Sized'
  <2> SUFFICES ASSUME call' # Idle, call'.op = "read", call'.file \in Promised'
               PROVE  call'.size = Len(disk'[call'.file])
    BY DEF Sized
  <2>1. UNCHANGED call /\ DOMAIN disk' = DOMAIN disk
    BY <1>13 DEF ExternalWrite
  <2>2. call.file # dir[n]
    BY <1>13, <2>1 DEF ExternalWrite, Promised
  <2>3. call.file \in Promised /\ disk'[call.file] = disk[call.file]
    BY <1>1, <1>13, <2>1, <2>2 DEF ExternalWrite, Promised, TypeOK
  <2> QED
    BY <2>1, <2>3 DEF Sized
<1> QED
  BY <1>4, <1>5, <1>6, <1>7, <1>8, <1>9, <1>10, <1>11, <1>12, <1>13 DEF Next

\* A read of a file that nobody has open to write returns what was put into the file,
\* whole if it is a blind read, from where the handle stands and up to a Nul if it is
\* a handle's, if no file can have more bytes than an int can count
\* (winx_util.cpp:8-18, 78-86).
THEOREM ReadsReturnWhatWasWritten ==
  ASSUME Quota < IntRange
  PROVE  Spec => ReadsWhatWasWritten
<1> DEFINE BlindReads ==
             \A i \in DOMAIN disk \ raced :
               (call # Idle /\ call.op = "read" /\ call.file = i /\ call' = Idle /\ Quiet(i)
                  /\ proc' = "running")
               => ret' = Decode(Promise!Kept(sent[i]))
           HandleReads ==
             \A a \in DOMAIN hnd \cap DOMAIN hnd' :
               LET in == hnd[a].in
               IN  (in # Null /\ hnd'[a].in # in /\ proc' = "running")
                   => \/ in.file \in raced \/ ~Quiet(in.file)
                      \/ /\ ~(StickyEof /\ in.eof)
                         /\ ret' = Decode(CStr(Rest(Promise!Kept(sent[in.file]), in.pos)))
<1>1. Init => Sized
  BY DEF Init, Sized
<1>2. Inv /\ Content /\ Sized /\ [Next]_vars => Sized'
  BY SizedStep
<1>3. ASSUME Inv, Content, Sized, CloseMakesDurable, Next
      PROVE  BlindReads
  <2> SUFFICES ASSUME NEW i \in DOMAIN disk \ raced, call # Idle, call.op = "read",
                      call.file = i, call' = Idle, Quiet(i), proc' = "running"
               PROVE  ret' = Decode(Promise!Kept(sent[i]))
    OBVIOUS
  <2>1. PICK d \in Texts : d = disk[i] /\ d = Promise!Kept(sent[i])
    BY <1>3 DEF Inv, TypeOK, Texts, CloseMakesDurable, Promised
  <2>2. BlindReadEnd
    BY <1>3, ZenonT(40) DEF Next, Open, HandleRead, WriteBegin, Close, WriteEnd, UseFreed,
                PassUnconverted, Undefined, BlindReadBegin, Delete, BlindWriteBegin, BlindWriteSome, BlindWriteEnd, Exit,
                ExternalWrite, Running
  <2>3. call.size = Len(d)
    BY <1>3, <2>1 DEF Sized, Promised
  <2>4. ret' = Decode(Fill(d, Len(d)))
    BY <2>1, <2>2, <2>3 DEF BlindReadEnd
  <2>5. Fill(d, Len(d)) = d
    BY DEF Fill, Texts
  <2> QED
    BY <2>1, <2>4, <2>5
<1>4. ASSUME Inv, CloseMakesDurable, Next
      PROVE  HandleReads
  <2>1. TypeOK /\ FilesKnown
    BY <1>4 DEF Inv
  <2> SUFFICES ASSUME NEW a \in DOMAIN hnd \cap DOMAIN hnd', NEW in, in = hnd[a].in,
                      in # Null, hnd'[a].in # in, proc' = "running",
                      in.file \notin raced, Quiet(in.file)
               PROVE  /\ ~(StickyEof /\ in.eof)
                      /\ ret' = Decode(CStr(Rest(Promise!Kept(sent[in.file]), in.pos)))
    OBVIOUS
  <2>2. PICK o \in Objs : HandleRead(o)
    <3>1. hnd'[a] # hnd[a]
      OBVIOUS
    <3>2. ASSUME NEW o \in Objs, NEW n \in Names, NEW m \in Modes, Open(o, n, m)
          PROVE  FALSE
      BY <3>1, <3>2, ZenonT(40) DEF Open, Alloc
    <3>3. ASSUME NEW o \in Objs, WriteBegin(o) \/ Close(o)
          PROVE  FALSE
      BY <3>1, <3>3 DEF WriteBegin, Close, heapVars, Dealloc
    <3>4. ASSUME \/ UseFreed \/ PassUnconverted \/ Exit \/ BlindReadEnd \/ BlindWriteSome \/ BlindWriteEnd
                 \/ \E d \in Data : WriteEnd(d)
                 \/ \E n \in Names : BlindReadBegin(n) \/ Delete(n)
                 \/ \E n \in Names, d \in Data : BlindWriteBegin(n, d)
                 \/ \E n \in Names, c \in InitContents : ExternalWrite(n, c)
          PROVE  UNCHANGED hnd
      BY <3>4 DEF WriteEnd, UseFreed, PassUnconverted, Undefined, BlindReadBegin, Delete, BlindReadEnd,
                  BlindWriteBegin, BlindWriteSome, BlindWriteEnd, Exit, ExternalWrite, heapVars
    <3> QED
      BY <1>4, <3>1, <3>2, <3>3, <3>4 DEF Next
  <2>3. /\ a = obj[o].addr /\ in.file # NoFile /\ in \in InStream
        /\ hnd \in [DOMAIN hnd -> WinxFileHandle]
    BY <2>1, <2>2 DEF HandleRead, TypeOK, WinxFileHandle
  <2>4. ~(StickyEof /\ in.eof)
    <3> SUFFICES ASSUME StickyEof, in.eof
                 PROVE  hnd'[a].in = in
      OBVIOUS
    <3>1. hnd' = [hnd EXCEPT ![a].in.pos = @ + Len(<< >>), ![a].in.eof = TRUE]
      BY <2>2, <2>3 DEF HandleRead
    <3>2. hnd'[a].in = [in EXCEPT !.pos = in.pos + 0, !.eof = TRUE]
      BY <2>3, <3>1 DEF WinxFileHandle
    <3>3. [in EXCEPT !.pos = in.pos + 0, !.eof = TRUE] = in
      <4>1. in.eof = TRUE /\ in.pos + 0 = in.pos
        BY <2>3 DEF InStream
      <4>2. /\ DOMAIN in = {"file", "pos", "eof"} /\ in = [x \in DOMAIN in |-> in[x]]
        BY <2>3 DEF InStream
      <4>3. [in EXCEPT !.pos = in.pos, !.eof = TRUE] = in
        BY <4>1, <4>2, Zenon
      <4> QED
        BY <4>1, <4>3
    <3> QED
      BY <3>2, <3>3
  <2>5. ret' = Decode(CStr(Rest(disk[in.file], in.pos)))
    BY <2>2, <2>3, <2>4 DEF HandleRead
  <2>6. disk[in.file] = Promise!Kept(sent[in.file])
    BY <1>4, <2>1, <2>3 DEF FilesKnown, CloseMakesDurable, Promised
  <2> QED
    BY <2>4, <2>5, <2>6
<1>5. Inv /\ Content /\ Sized /\ CloseMakesDurable /\ [Next]_vars
      => [BlindReads /\ HandleReads]_vars
  BY <1>3, <1>4
<1> QED
  BY <1>1, <1>2, <1>5, ContentHolds, ClosedFilesAreDurable, PTL DEF Spec, ReadsWhatWasWritten
=============================================================================
