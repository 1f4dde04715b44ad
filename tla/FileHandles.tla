---------------------------- MODULE FileHandles ----------------------------
(***************************************************************************)
(* The file-system bindings of Winx (src/winx_fs.hpp) over its file        *)
(* utilities (src/winx_util.cpp): whole-file ("blind") reads and writes,   *)
(* delete, and file handles.                                               *)
(*                                                                         *)
(* A JavaScript file handle is an object whose internal field holds the    *)
(* address of a native WinxFileHandle, and that struct holds the addresses *)
(* of an ifstream and of an ofstream.  close() frees all three and leaves  *)
(* the address in the object.  An address is therefore a value here, and   *)
(* memory is a function whose domain is what is allocated: freed addresses *)
(* are handed out again.                                                   *)
(*                                                                         *)
(* One JavaScript thread makes the calls.  A call is one step, except      *)
(*  - a handle's write, whose argument is converted to a string, by        *)
(*    JavaScript that may make calls of its own, after the struct has been *)
(*    copied and before the copy is used;                                  *)
(*  - a blind read or write, during which another process may change the   *)
(*    file or this process may be killed.                                  *)
(*                                                                         *)
(* A call with too few arguments returns at once: a stuttering step.       *)
(***************************************************************************)
EXTENDS StdStreams, Functions

CONSTANTS
  Names,        \* the paths the program uses
  Writable,     \* those whose directory exists and lets this process write
  Inodes,       \* the files that can come to exist; bounds file creation
  HandlePtrs,   \* addresses of WinxFileHandle structs; bounds how many are live
  StreamPtrs,   \* addresses of ofstreams; bounds how many are live
  Objs,         \* JavaScript handle objects; bounds how many are ever opened
  Data,         \* the texts the program writes
  InitContents, \* the contents a file may have before the program starts
  Null,         \* nullptr
  NoFile,       \* the file of a stream that failed to open
  Idle,         \* no blind call is in progress
  MaxWrites,    \* bounds the number of writes
  MaxDepth,     \* bounds the nesting of writes within argument conversions
  MaxFds,       \* file descriptors the process may have open
  BufCap,       \* bytes an ofstream keeps before it must write to the file
  Quota,        \* bytes the file system lets a file have
  StickyEof,    \* TRUE if a stream that met end-of-file never reads again
                \*   (stdio-based libc++), FALSE if it tries again (libstdc++)
  ClosesOnce,   \* TRUE if the program closes no handle twice; it may use a
                \*   closed one, or close one whose write is in progress
  External      \* TRUE if other processes write to the program's files

ASSUME FilesAssumption ==
  /\ Writable \subseteq Names
  /\ Data \subseteq Text
  /\ InitContents \subseteq Seq(Byte)
  /\ NoFile \notin Inodes
  /\ Null \notin StreamPtrs
  /\ Idle \notin [op: {"write"}, file: Inodes, data: Data, done: Nat]
ASSUME BoundsAssumption ==
  /\ MaxWrites \in Nat /\ MaxDepth \in Nat /\ MaxFds \in Nat /\ BufCap \in Nat
  /\ Quota \in Nat /\ \A c \in InitContents : Len(c) <= Quota
  /\ {StickyEof, ClosesOnce, External} \subseteq BOOLEAN

VARIABLES
  dir,     \* path -> the file it names, for the paths that exist
  disk,    \* file -> its content, for the files created so far
  hnd,     \* address -> WinxFileHandle, for the allocated structs
  outs,    \* address -> ofstream, for the allocated ofstreams
  obj,     \* handle object -> its internal field and whether it was closed
  frames,  \* the handle writes in progress, innermost last
  call,    \* the blind call in progress
  proc,    \* the process: running, ended, or past undefined behaviour
  ret,     \* what the call that just ended returned; empty if not a read
  writes,  \* how many writes were made
  sent,    \* history: file -> what the program put into it, in program order
  raced    \* history: files two writers had open at once, or others changed

heapVars == <<hnd, outs, obj>>
fileVars == <<dir, disk>>
history  == <<sent, raced>>
vars == <<dir, disk, hnd, outs, obj, frames, call, proc, ret, writes, sent, raced>>

\* An ifstream and an ofstream that failed to open have NoFile as their file.
InStream  == [file: Inodes \cup {NoFile}, pos: Nat, eof: BOOLEAN]
\* One that failed to write is bad, and stays so.
OutStream == [file: Inodes \cup {NoFile}, pos: Nat, app: BOOLEAN, buf: Seq(Byte),
              bad: BOOLEAN]

\* struct WinxFileHandle
WinxFileHandle == [in: InStream \cup {Null}, out: StreamPtrs \cup {Null}]

\* The object of a handle: its internal field, the file its ofstream was opened
\* on, and whether close was called on it.
JSHandle == [addr: HandlePtrs, file: Inodes \cup {NoFile}, closed: BOOLEAN]

\* A mode is what matters of its string: which of these letters it has.
Modes == SUBSET {"r", "w", "a"}

TypeOK ==
  /\ DOMAIN dir \subseteq Names /\ dir \in [DOMAIN dir -> Inodes]
  /\ DOMAIN disk \subseteq Inodes /\ disk \in [DOMAIN disk -> Seq(Byte)]
  /\ DOMAIN hnd \subseteq HandlePtrs /\ hnd \in [DOMAIN hnd -> WinxFileHandle]
  /\ DOMAIN outs \subseteq StreamPtrs /\ outs \in [DOMAIN outs -> OutStream]
  /\ DOMAIN obj \subseteq Objs
  /\ obj \in [DOMAIN obj -> JSHandle]
  /\ frames \in Seq([obj: Objs, out: StreamPtrs \cup {Null}])
  /\ call \in {Idle} \cup [op: {"read"}, file: Inodes, size: Nat]
                     \cup [op: {"write"}, file: Inodes, data: Data, done: Nat]
  /\ proc \in {"running", "exited", "aborted", "undefined"}
  /\ ret \in Seq(Byte \cup {Junk})
  /\ writes \in 0..MaxWrites
  /\ DOMAIN sent = DOMAIN disk /\ sent \in [DOMAIN disk -> Seq(Byte)]
  /\ raced \subseteq Inodes

\* Whatever refers to a file refers to one that was created, and a write in
\* progress to a handle that was opened.
FilesKnown ==
  /\ \A n \in DOMAIN dir : dir[n] \in DOMAIN disk
  /\ \A q \in DOMAIN outs : outs[q].file \in DOMAIN disk \cup {NoFile}
  /\ \A a \in DOMAIN hnd : hnd[a].in # Null => hnd[a].in.file \in DOMAIN disk \cup {NoFile}
  /\ \A o \in DOMAIN obj : obj[o].file \in DOMAIN disk \cup {NoFile}
  /\ call # Idle => call.file \in DOMAIN disk
  /\ \A k \in DOMAIN frames : frames[k].obj \in DOMAIN obj

-----------------------------------------------------------------------------
(* JavaScript runs only while no native call is in progress.               *)
Running == proc = "running" /\ call = Idle

\* The objects a program may call a method of, and those it may close.  Nothing
\* in the code stops it from using a handle it has closed, or from closing one
\* while a write to it converts its argument.
MayUse(o)   == o \in DOMAIN obj
MayClose(o) == MayUse(o) /\ (ClosesOnce => ~obj[o].closed)

\* Undefined behaviour: nothing is claimed of the process from here on.
Undefined ==
  /\ proc' = "undefined"
  /\ UNCHANGED <<fileVars, heapVars, frames, call, ret, writes, history>>

\* The ofstreams, live or leaked, that have file i open, and all descriptors.
Writers(i) == {q \in DOMAIN outs : outs[q].file = i}
OpenFds ==
  Cardinality({q \in DOMAIN outs : outs[q].file # NoFile}) +
  Cardinality({a \in DOMAIN hnd : hnd[a].in # Null /\ hnd[a].in.file # NoFile})

-----------------------------------------------------------------------------
(* std::ifstream and std::ofstream.                                        *)

\* The file an ifstream on path n reads, given k descriptors opened just before.
FileToRead(n, k) ==
  IF n \in DOMAIN dir /\ OpenFds + k < MaxFds THEN dir[n] ELSE NoFile

\* An ofstream is opened on path n and writes to file i: the path's file,
\* emptied if trunc, or one created for it.  NoFile: the open failed.
\* now: what a call that writes the whole file is about to put into it.
OpenToWrite(n, i, trunc, k, now) ==
  IF n \in Writable /\ OpenFds + k < MaxFds
  THEN /\ IF n \in DOMAIN dir THEN i = dir[n] ELSE i \in Inodes \ DOMAIN disk
       /\ dir' = Alloc(dir, n, i)
       /\ LET empty == trunc \/ n \notin DOMAIN dir
          IN  /\ disk' = Alloc(disk, i, IF empty THEN << >> ELSE disk[i])
              /\ sent' = Alloc(sent, i, IF empty THEN now ELSE sent[i])
       /\ raced' = IF Writers(i) # {} THEN raced \cup {i}
                   ELSE IF trunc THEN raced \ {i} ELSE raced
  ELSE i = NoFile /\ UNCHANGED <<fileVars, history>>

\* Where the next bytes of ofstream s go, and how many of k the file takes.
Offset(s) == IF s.app THEN Len(disk[s.file]) ELSE s.pos
Taken(s, k) ==
  IF Offset(s) + k <= Quota THEN k
  ELSE IF Offset(s) <= Quota THEN Quota - Offset(s) ELSE 0

\* Bug: an appending stream writes at its own position.
FlushedAtPosition(s, pending, k) ==
  [disk EXCEPT ![s.file] = WriteAt(@, s.pos, SubSeq(pending, 1, k))]

\* The first k bytes of pending leave ofstream s for its file.
Flushed(s, pending, k) ==
  [disk EXCEPT ![s.file] = WriteAt(@, Offset(s), SubSeq(pending, 1, Taken(s, k)))]

\* Bug: a text too long for the buffer is written ahead of what is in it.
InsertAhead(q, b) ==
  LET s == outs[q]
  IN  IF s.file = NoFile
      THEN UNCHANGED <<disk, outs>>
      ELSE IF Len(b) <= BufCap
      THEN outs' = [outs EXCEPT ![q].buf = @ \o b] /\ UNCHANGED disk
      ELSE /\ disk' = Flushed(s, b, Len(b))
           /\ outs' = [outs EXCEPT ![q].pos = IF s.app THEN @ ELSE @ + Len(b)]

\* out << b on the ofstream at q.  Bytes stay in the buffer if they fit; if
\* not, the library writes some of what is pending and keeps at most BufCap.
\* An ofstream that is not open or is bad drops them; it becomes bad when the
\* file does not take all bytes, and then keeps its buffer as it was.
Insert(q, b) ==
  LET s == outs[q]
      pending == s.buf \o b
  IN  IF s.file = NoFile \/ s.bad
      THEN UNCHANGED <<disk, outs>>
      ELSE \E k \in 0..Len(pending) :
             /\ IF Len(pending) <= BufCap THEN k = 0 ELSE Len(pending) - k <= BufCap
             /\ disk' = Flushed(s, pending, k)
             /\ outs' = [outs EXCEPT
                   ![q].buf = IF Taken(s, k) = k THEN SubSeq(pending, k + 1, Len(pending))
                              ELSE @,
                   ![q].pos = IF s.app THEN @ ELSE @ + Taken(s, k),
                   ![q].bad = Taken(s, k) # k]

\* Bugs: close() discards the buffer; close() does not delete the ofstream.
FreeUnflushed(q) == outs' = Dealloc(outs, q) /\ UNCHANGED disk
FlushOnly(q) ==
  /\ outs' = [outs EXCEPT ![q].file = NoFile]
  /\ disk' = IF outs[q].file = NoFile THEN disk
             ELSE Flushed(outs[q], outs[q].buf, Len(outs[q].buf))

\* The ofstream at q is closed, which writes all its buffer, and deleted.
FlushAndFree(q) ==
  /\ outs' = Dealloc(outs, q)
  /\ disk' = IF outs[q].file = NoFile THEN disk
             ELSE Flushed(outs[q], outs[q].buf, Len(outs[q].buf))

-----------------------------------------------------------------------------
(* Handles.                                                                *)

Init ==
  /\ dir \in UNION {Injection(S, Inodes) : S \in SUBSET Names}
  /\ disk \in [{dir[n] : n \in DOMAIN dir} -> InitContents]
  /\ sent = disk
  /\ hnd = << >> /\ outs = << >> /\ obj = << >>
  /\ frames = << >> /\ call = Idle /\ proc = "running"
  /\ ret = << >> /\ writes = 0 /\ raced = {}

\* open(n, m): the ifstream first, then the ofstream; "w" wins over "a".
\* A stream that fails to open, or that the mode does not ask for, is an error
\* nobody reports.
Open(o, n, m) ==
  \E a \in HandlePtrs \ DOMAIN hnd, i \in Inodes \cup {NoFile} :
    LET read == FileToRead(n, 0)
        in   == IF "r" \in m THEN [file |-> read, pos |-> 0, eof |-> FALSE] ELSE Null
        k    == IF "r" \in m /\ read # NoFile THEN 1 ELSE 0
    IN  /\ Running /\ o \notin DOMAIN obj
        /\ obj' = Alloc(obj, o, [addr |-> a, file |-> i, closed |-> FALSE])
        /\ \/ /\ m \cap {"w", "a"} = {}
              /\ i = NoFile
              /\ hnd' = Alloc(hnd, a, [in |-> in, out |-> Null])
              /\ UNCHANGED <<fileVars, outs, history>>
           \/ /\ m \cap {"w", "a"} # {}
              /\ OpenToWrite(n, i, "w" \in m, k, << >>)
              /\ \E q \in StreamPtrs \ DOMAIN outs :
                   /\ outs' = Alloc(outs, q, [file |-> i, pos |-> 0,
                                              app |-> "w" \notin m, buf |-> << >>, bad |-> FALSE])
                   /\ hnd' = Alloc(hnd, a, [in |-> in, out |-> q])
        /\ ret' = << >>
        /\ UNCHANGED <<frames, call, proc, writes>>

\* Bug: every read starts over at the beginning of the file.
HandleReadAgain(o) ==
  /\ Running /\ MayUse(o) /\ obj[o].addr \in DOMAIN hnd
  /\ LET in == hnd[obj[o].addr].in
     IN  /\ in # Null /\ in.file # NoFile
         /\ hnd' = [hnd EXCEPT ![obj[o].addr].in.pos = Len(disk[in.file]),
                               ![obj[o].addr].in.eof = TRUE]
         /\ ret' = Decode(CStr(disk[in.file]))
  /\ UNCHANGED <<fileVars, outs, obj, frames, call, proc, writes, history>>

\* handle.read(): everything between the stream's position and end-of-file, as
\* a C string.  The library reads it buffer by buffer, a file that fits in one
\* at once; no other process changes the file in the meantime here.
HandleRead(o) ==
  /\ Running /\ MayUse(o) /\ obj[o].addr \in DOMAIN hnd
  /\ LET a   == obj[o].addr
         in  == hnd[a].in
         got == IF in = Null THEN << >>
                ELSE IF in.file = NoFile \/ (StickyEof /\ in.eof) THEN << >>
                ELSE Rest(disk[in.file], in.pos)
     IN  /\ hnd' = IF in = Null \/ in.file = NoFile THEN hnd
                   ELSE [hnd EXCEPT ![a].in.pos = @ + Len(got), ![a].in.eof = TRUE]
         /\ IF Len(CStr(got)) > MaxString
            THEN proc' = "aborted" /\ ret' = << >>
            ELSE ret' = Decode(CStr(got)) /\ UNCHANGED proc
  /\ UNCHANGED <<fileVars, outs, obj, frames, call, writes, history>>

\* handle.write(x): the struct is copied, and x's conversion to a string starts.
WriteBegin(o) ==
  /\ Running /\ MayUse(o) /\ obj[o].addr \in DOMAIN hnd
  /\ Len(frames) < MaxDepth /\ writes < MaxWrites
  /\ frames' = Append(frames, [obj |-> o, out |-> hnd[obj[o].addr].out])
  /\ writes' = writes + 1
  /\ ret' = << >>
  /\ UNCHANGED <<fileVars, heapVars, call, proc, history>>

\* x converted to d, as a C string; d goes to the ofstream of the copy, whose
\* address another open() may have been given in the meantime.
WriteEnd(d) ==
  /\ Running /\ frames # << >>
  /\ LET f == frames[Len(frames)]
         i == IF f.out \in DOMAIN outs THEN outs[f.out].file ELSE NoFile
     IN  /\ f.out \in {Null} \cup DOMAIN outs
         /\ IF f.out = Null THEN UNCHANGED <<disk, outs>> ELSE Insert(f.out, CStr(d))
         /\ sent' = IF i = NoFile THEN sent ELSE [sent EXCEPT ![i] = @ \o CStr(d)]
  /\ frames' = SubSeq(frames, 1, Len(frames) - 1)
  /\ ret' = << >>
  /\ UNCHANGED <<dir, hnd, obj, call, proc, writes, raced>>

\* Bug: close() does not delete the struct.
CloseKeepsStruct(o) ==
  /\ Running /\ MayClose(o) /\ obj[o].addr \in DOMAIN hnd
  /\ LET q == hnd[obj[o].addr].out
     IN  IF q \notin DOMAIN outs THEN UNCHANGED <<disk, outs>> ELSE FlushAndFree(q)
  /\ obj' = [obj EXCEPT ![o].closed = TRUE]
  /\ ret' = << >>
  /\ UNCHANGED <<dir, hnd, frames, call, proc, writes, history>>

\* handle.close(): the streams are closed, they and the struct freed; the
\* object keeps the address.
Close(o) ==
  /\ Running /\ MayClose(o) /\ obj[o].addr \in DOMAIN hnd
  /\ LET a == obj[o].addr
     IN  /\ hnd' = Dealloc(hnd, a)
         /\ IF hnd[a].out = Null THEN UNCHANGED <<disk, outs>>
            ELSE FlushAndFree(hnd[a].out)
  /\ obj' = [obj EXCEPT ![o].closed = TRUE]
  /\ ret' = << >>
  /\ UNCHANGED <<dir, frames, call, proc, writes, history>>

\* Freed memory is used: a method of a closed handle whose address nothing has
\* been given since, or a write whose ofstream was freed while its argument was
\* converted and whose address nothing has been given since.
UseFreed ==
  /\ Running
  /\ \/ \E o \in Objs : MayUse(o) /\ obj[o].addr \notin DOMAIN hnd
     \/ frames # << >> /\ frames[Len(frames)].out \notin {Null} \cup DOMAIN outs
  /\ Undefined

\* A value that does not convert to a string is passed on as a null char*.
PassUnconverted == Running /\ Undefined

-----------------------------------------------------------------------------
(* Whole-file calls.                                                       *)

\* Bug: nobody checks that the file is open.
BlindReadUnchecked(n) ==
  /\ Running
  /\ ret' = << >>
  /\ LET i == FileToRead(n, 0)
     IN  call' = [op |-> "read", file |-> i, size |-> IF i = NoFile THEN 0 ELSE Len(disk[i])]
  /\ UNCHANGED <<fileVars, heapVars, frames, proc, writes, history>>

\* blind_read_file(n): the file is opened and measured; its size becomes an int.
BlindReadBegin(n) ==
  /\ Running
  /\ ret' = << >>
  /\ LET i    == FileToRead(n, 0)
         size == ToInt(Len(disk[i]))
     IN  \/ i = NoFile /\ UNCHANGED <<call, proc>>
         \/ i # NoFile /\ size < 0 /\ proc' = "aborted" /\ UNCHANGED call
         \/ /\ i # NoFile /\ size >= 0
            /\ call' = [op |-> "read", file |-> i, size |-> size]
            /\ UNCHANGED proc
  /\ UNCHANGED <<fileVars, heapVars, frames, writes, history>>

\* Bug: the stream is not moved back to the beginning after it was measured.
BlindReadAtEnd ==
  /\ proc = "running" /\ call # Idle /\ call.op = "read"
  /\ call' = Idle
  /\ ret' = Fill(<< >>, call.size)
  /\ UNCHANGED <<fileVars, heapVars, frames, proc, writes, history>>

\* size bytes are returned, whatever the file has by now.
BlindReadEnd ==
  /\ proc = "running" /\ call # Idle /\ call.op = "read"
  /\ call' = Idle
  /\ IF call.size > MaxString
     THEN proc' = "aborted" /\ ret' = << >>
     ELSE ret' = Decode(Fill(disk[call.file], call.size)) /\ UNCHANGED proc
  /\ UNCHANGED <<fileVars, heapVars, frames, writes, history>>

\* Bug: the file is not emptied.
BlindWriteInPlace(n, d) ==
  \E i \in Inodes \cup {NoFile} :
    /\ Running /\ writes < MaxWrites
    /\ OpenToWrite(n, i, FALSE, 0, CStr(d))
    /\ call' = IF i = NoFile THEN Idle
               ELSE [op |-> "write", file |-> i, data |-> d, done |-> 0]
    /\ writes' = writes + 1
    /\ ret' = << >>
    /\ UNCHANGED <<heapVars, frames, proc>>

\* blind_write_file(n, d): the file is created or emptied, if it can be opened.
BlindWriteBegin(n, d) ==
  \E i \in Inodes \cup {NoFile} :
    /\ Running /\ writes < MaxWrites
    /\ OpenToWrite(n, i, TRUE, 0, CStr(d))
    /\ call' = IF i = NoFile THEN Idle
               ELSE [op |-> "write", file |-> i, data |-> d, done |-> 0]
    /\ writes' = writes + 1
    /\ ret' = << >>
    /\ UNCHANGED <<heapVars, frames, proc>>

\* Bug: each piece is written over the one before it.
BlindWriteOver ==
  /\ proc = "running" /\ call # Idle /\ call.op = "write"
  /\ \E k \in 1..(Len(CStr(call.data)) - call.done) :
       /\ call' = [call EXCEPT !.done = @ + k]
       /\ disk' = [disk EXCEPT ![call.file] =
                     WriteAt(@, 0, SubSeq(call.data, call.done + 1, call.done + k))]
  /\ UNCHANGED <<dir, heapVars, frames, proc, ret, writes, history>>

\* The library writes the C string of d in pieces.
BlindWriteSome ==
  /\ proc = "running" /\ call # Idle /\ call.op = "write"
  /\ \E k \in 1..(Len(CStr(call.data)) - call.done) :
       /\ call.done + k <= Quota
       /\ call' = [call EXCEPT !.done = @ + k]
       /\ disk' = [disk EXCEPT ![call.file] =
                     WriteAt(@, call.done, SubSeq(call.data, call.done + 1, call.done + k))]
  /\ UNCHANGED <<dir, heapVars, frames, proc, ret, writes, history>>

\* Bug: the call returns while some of the text is still to be written.
BlindWriteEndsEarly ==
  /\ proc = "running" /\ call # Idle /\ call.op = "write"
  /\ call' = Idle
  /\ UNCHANGED <<fileVars, heapVars, frames, proc, ret, writes, history>>

\* close() of the call's own ofstream: all of the text has been written, or the
\* file takes no more of it.
BlindWriteEnd ==
  /\ proc = "running" /\ call # Idle /\ call.op = "write"
  /\ call.done \in {Len(CStr(call.data)), Quota}
  /\ call' = Idle
  /\ UNCHANGED <<fileVars, heapVars, frames, proc, ret, writes, history>>

\* delete(n): std::remove; a file that is open lives on without its path.
Delete(n) ==
  /\ Running
  /\ dir' = IF n \in Writable THEN Dealloc(dir, n) ELSE dir
  /\ ret' = << >>
  /\ UNCHANGED <<disk, heapVars, frames, call, proc, writes, history>>

-----------------------------------------------------------------------------
(* The rest of the world.                                                  *)

\* The program ends or is killed: no ofstream is flushed on the way out.
Exit ==
  /\ proc = "running"
  /\ proc' = "exited"
  /\ UNCHANGED <<fileVars, heapVars, frames, call, ret, writes, history>>

\* Another process replaces what the file on path n holds.
ExternalWrite(n, c) ==
  /\ External /\ proc = "running" /\ n \in DOMAIN dir
  /\ disk' = [disk EXCEPT ![dir[n]] = c]
  /\ IF Writers(dir[n]) # {} \/ (call # Idle /\ call.file = dir[n])
     THEN raced' = raced \cup {dir[n]} /\ UNCHANGED sent
     ELSE sent' = [sent EXCEPT ![dir[n]] = c] /\ raced' = raced \ {dir[n]}
  /\ UNCHANGED <<dir, heapVars, frames, call, proc, ret, writes>>

Next ==
  \/ \E o \in Objs, n \in Names, m \in Modes : Open(o, n, m)
  \/ \E o \in Objs : HandleRead(o) \/ WriteBegin(o) \/ Close(o)
  \/ \E d \in Data : WriteEnd(d)
  \/ UseFreed \/ PassUnconverted
  \/ \E n \in Names : BlindReadBegin(n) \/ Delete(n)
  \/ \E n \in Names, d \in Data : BlindWriteBegin(n, d)
  \/ BlindReadEnd \/ BlindWriteSome \/ BlindWriteEnd
  \/ Exit
  \/ \E n \in Names, c \in InitContents : ExternalWrite(n, c)

Spec == Init /\ [][Next]_vars

-----------------------------------------------------------------------------
(* What holds whatever the program does.                                   *)

\* A struct is freed with its ofstream and never before it: even a program that
\* uses freed handles cannot make an allocated struct point to a freed or a
\* shared ofstream, or make one unreachable.
StructsOwnStreams ==
  /\ DOMAIN outs = {hnd[a].out : a \in DOMAIN hnd} \ {Null}
  /\ \A a, b \in DOMAIN hnd : hnd[a].out = hnd[b].out /\ hnd[a].out # Null => a = b

-----------------------------------------------------------------------------
(* What a program that closes no handle twice is promised.                 *)

Live == {o \in DOMAIN obj : ~obj[o].closed}

\* The heap of handles has no dangling and no shared address, and nothing that
\* was allocated is unreachable (open_file, close_file; winx_fs.hpp:123-139).
Owned ==
  /\ DOMAIN hnd = {obj[o].addr : o \in Live}
  /\ \A o, p \in Live : obj[o].addr = obj[p].addr => o = p
  /\ StructsOwnStreams
  /\ \A o \in Live : hnd[obj[o].addr].out # Null =>
                    outs[hnd[obj[o].addr].out].file = obj[o].file

-----------------------------------------------------------------------------
(* What every program is promised of its files, also one that uses closed  *)
(* handles, whose addresses other handles may have by then.                *)

\* Nobody has file i open to write it.
Quiet(i) ==
  Writers(i) = {} /\ ~(call # Idle /\ call.op = "write" /\ call.file = i)

\* The files whose writers took turns, and the promise about their content.
Promised == DOMAIN disk \ raced
Promise == INSTANCE DurableFiles WITH
             NewText <- InitContents \cup {<< >>} \cup {CStr(d) : d \in Data},
             text    <- [i \in Promised |-> sent[i]],
             stored  <- [i \in Promised |-> disk[i]],
             open    <- {i \in Promised : ~Quiet(i)}

\* Once no stream on it is open, a file holds exactly what the program put into
\* it, in program order, if its writers took turns; if the file system did not
\* take all of it, a beginning as long as it took (winx_util.cpp:25-30, 63-76).
CloseMakesDurable ==
  \A i \in Promised : Quiet(i) => disk[i] = Promise!Kept(sent[i])

\* Whenever the process ends, a file holds a beginning of what the program put
\* into it: no hole, no reordering, no stale tail, also after a failed write.
PrefixSurvives ==
  \A i \in Promised : disk[i] \in {SubSeq(sent[i], 1, k) : k \in 0..Len(sent[i])}

\* Handles, streams and their buffers, blind calls and the other processes
\* implement DurableFiles: what a file holds only ever grows towards the text
\* put into it until someone empties it, and close stores the rest.
KeepsPromise == Promise!Spec

\* A byte that reached a file is never written over: only an open for writing
\* removes it, with all others.  Two appending streams may share a file.
NeverOverwrites ==
  [][ \A i \in DOMAIN disk :
        (i \notin raced' \/ (call = Idle /\ \A q \in Writers(i) : outs[q].app))
        => disk'[i] = << >> \/ SubSeq(disk'[i], 1, Len(disk[i])) = disk[i] ]_vars

\* What a read of a quiet file returns is what the program put there: a blind read,
\* all of it; a handle's, what lies behind its position, up to a Nul, however the
\* file was written, emptied and written again since the handle's last read.  A
\* stream that does not try again reads nothing once it has met the end
\* (winx_util.cpp:7-23, 83; winx_fs.hpp:123).
ReadsWhatWasWritten ==
  [][ /\ \A i \in DOMAIN disk \ raced :
           (call # Idle /\ call.op = "read" /\ call.file = i /\ call' = Idle /\ Quiet(i)
              /\ proc' = "running")
           => ret' = Decode(Promise!Kept(sent[i]))
      /\ \A a \in DOMAIN hnd \cap DOMAIN hnd' :
           LET in == hnd[a].in
           IN  (in # Null /\ hnd'[a].in # in /\ proc' = "running")
               => \/ in.file \in raced \/ ~Quiet(in.file)
                  \/ /\ ~(StickyEof /\ in.eof)
                     /\ ret' = Decode(CStr(Rest(Promise!Kept(sent[in.file]), in.pos))) ]_vars

-----------------------------------------------------------------------------
(* What README.md:41 says of blind calls: "the totality of the file content *)
(* is handled".  Neither holds.                                            *)

\* When a blind write is done, the file holds the text it was given
\* (winx_fs.hpp:61 passes the text on as a C string).
BlindWriteIsTotal ==
  [][ (call # Idle /\ call.op = "write" /\ call' = Idle /\ call.file \notin raced)
      => disk'[call.file] = call.data ]_vars

\* A blind read that returns, returns all the file holds (winx_util.cpp:13
\* keeps its size in an int).
BlindReadIsTotal ==
  [][ (call # Idle /\ call.op = "read" /\ call' = Idle /\ proc' = "running")
      => ret' = Decode(disk[call.file]) ]_vars
=============================================================================
