---------------------------- MODULE EngineProofs ----------------------------
(***************************************************************************)
(* Proofs about a Winx process, for every value of the constants of        *)
(* Engine: any number of calls, programs, configurations and ways to       *)
(* start.                                                                  *)
(*                                                                         *)
(* First its output: Shown, the invariant of std::cout and its buffer,     *)
(* under the two things that a step can do to them, and each action of     *)
(* Engine.  Then its life: the order of its steps, and OnItsWay, which     *)
(* ties what exists to the number of steps done.  Then that it loads       *)
(* modules as ModuleLoader says, and tells so by its exit status (Told);   *)
(* that its configuration reaches V8 (FlagsStand); and that its states are *)
(* well typed.                                                             *)
(***************************************************************************)
EXTENDS Engine, SequenceTheorems, TLAPS

INSTANCE TextLemmas WITH Letter <- Nat

-----------------------------------------------------------------------------
\* The ends of a process after which nothing may be missing.
Orderly == {"no", "exit 0", "exit 1", "check failed"}

\* What was printed is what went out, what is in the buffer, and what was lost, in
\* this order; nothing is lost as long as the stream is good and the process did
\* not abort; an ended process has no buffer; one that waits for a line has an
\* empty one.
Shown ==
  /\ pend \in Texts /\ screen \in Texts /\ printed \in Texts
  /\ calls \in Nat /\ good \in BOOLEAN
  /\ \E lost \in Texts : /\ printed = Then(Then(screen, pend), lost)
                         /\ good /\ end \in Orderly => lost = << >>
  /\ end # "no" => pend = << >>
  /\ waiting /\ good => pend = << >>
  /\ waiting => end \in Orderly

\* A step that prints ts, or nothing if the stream is broken, keeps the invariant:
\* what it prints is behind all that was printed before.
LEMMA Printing ==
  ASSUME Shown, end = "no", NEW ts \in Texts,
         calls' \in Nat, good' \in BOOLEAN, good' => good,
         screen' \in Texts, pend' \in Texts,
         printed' = Then(printed, ts),
         Then(screen', pend') = Then(Then(screen, pend), IF good THEN ts ELSE << >>),
         end' # "no" => pend' = << >>,
         waiting' /\ good' => pend' = << >>,
         waiting' => end' \in Orderly
  PROVE  Shown'
<1>1. PICK lost \in Texts :
        /\ printed = Then(Then(screen, pend), lost)
        /\ good /\ end \in Orderly => lost = << >>
  BY DEF Shown
<1>2. /\ screen \in Texts /\ pend \in Texts /\ printed \in Texts
      /\ Then(screen, pend) \in Texts /\ printed' \in Texts
  BY Joined DEF Shown
<1>3. \E l \in Texts : /\ printed' = Then(Then(screen', pend'), l)
                       /\ good' /\ end' \in Orderly => l = << >>
  <2>1. CASE good
    <3>1. printed = Then(screen, pend)
      BY <1>1, <1>2, <2>1, Nothing DEF Orderly
    <3>2. printed' = Then(Then(screen', pend'), << >>)
      BY <1>2, <2>1, <3>1, Nothing
    <3> QED
      BY <3>2, Nothing
  <2>2. CASE ~good
    <3>1. Then(screen', pend') = Then(screen, pend)
      BY <1>2, <2>2, Nothing
    <3>2. Then(lost, ts) \in Texts /\ printed' = Then(Then(screen', pend'), Then(lost, ts))
      BY <1>1, <1>2, <3>1, Joined, Together
    <3> QED
      BY <2>2, <3>2
  <2> QED
    BY <2>1, <2>2
<1> QED
  BY <1>2, <1>3 DEF Shown

\* So does a step that loses the buffer, and the text it prints, provided the stream
\* is broken by then or the process aborts.
LEMMA Losing ==
  ASSUME Shown, NEW ts \in Texts,
         calls' \in Nat, good' \in BOOLEAN,
         screen' = screen, pend' = << >>, printed' = Then(printed, ts),
         good' => end' \notin Orderly,
         waiting' => end' \in Orderly
  PROVE  Shown'
<1>1. PICK lost \in Texts : printed = Then(Then(screen, pend), lost)
  BY DEF Shown
<1>2. /\ screen \in Texts /\ pend \in Texts /\ printed \in Texts
      /\ pend' \in Texts /\ printed' \in Texts
  BY Joined, Nothing DEF Shown
<1>3. /\ Then(Then(pend, lost), ts) \in Texts
      /\ printed' = Then(screen, Then(Then(pend, lost), ts))
  <2>1. Then(pend, lost) \in Texts /\ printed = Then(screen, Then(pend, lost))
    BY <1>1, <1>2, Joined, Together
  <2> QED
    BY <1>2, <2>1, Joined, Together
<1>4. Then(screen', pend') = screen
  BY <1>2, Nothing
<1>5. \E l \in Texts : /\ printed' = Then(Then(screen', pend'), l)
                       /\ good' /\ end' \in Orderly => l = << >>
  <2>1. printed' = Then(Then(screen', pend'), Then(Then(pend, lost), ts))
    BY <1>3, <1>4
  <2>2. ~(good' /\ end' \in Orderly)
    OBVIOUS
  <2> QED
    BY <1>3, <2>1, <2>2
<1> QED
  BY <1>2, <1>5 DEF Shown

-----------------------------------------------------------------------------
(* What a step may do to the console.                                      *)

Unprinted == UNCHANGED <<good, printed, cin, waiting, calls>>

\* The part of the buffer that the library writes, on its own account, when texts
\* are printed or flushed.
LEMMA OutMoves ==
  ASSUME Shown, NEW ts \in Texts, NEW k \in 0..Len(pend \o ts), Console!Out(ts, k)
  PROVE  /\ screen' \in Texts /\ pend' \in Texts
         /\ Then(screen', pend') = Then(Then(screen, pend), ts)
         /\ k = Len(pend \o ts) => pend' = << >>
<1>1. screen \in Texts /\ pend \in Texts /\ Then(pend, ts) \in Texts
  BY Joined DEF Shown
<1>2. PICK q \in Texts : q = Then(pend, ts)
  BY <1>1
<1>3. /\ screen' = Then(screen, SubSeq(q, 1, k))
      /\ pend' = SubSeq(q, k + 1, Len(q)) /\ k \in 0..Len(q)
  BY <1>2 DEF Console!Out, Then
<1>4. /\ SubSeq(q, 1, k) \in Texts /\ pend' \in Texts
      /\ Then(SubSeq(q, 1, k), pend') = q
  BY <1>3, Split
<1>5. screen' \in Texts /\ Then(screen', pend') = Then(screen, q)
  BY <1>1, <1>3, <1>4, Joined, Together
<1>6. Then(screen', pend') = Then(Then(screen, pend), ts)
  BY <1>1, <1>2, <1>5, Together
<1>7. k = Len(pend \o ts) => pend' = << >>
  BY <1>2, <1>3, AllOut DEF Then
<1> QED
  BY <1>4, <1>5, <1>6, <1>7

\* Whoever ends the process with exit(), or returns from main, has all of the buffer
\* written (winx.cpp:189 and 205, winx_modules.cpp:26 and 36).
LEMMA ExitShows ==
  ASSUME Shown, end = "no", NEW how \in {"exit 0", "exit 1"}, Console!Exit(how), Unprinted
  PROVE  Shown'
<1>1. /\ << >> \in Texts /\ pend \o << >> = pend /\ Then(printed, << >>) = printed
      /\ Len(pend) \in 0..Len(pend \o << >>)
  <2>1. pend \in Texts /\ printed \in Texts
    BY DEF Shown
  <2>2. Then(pend, << >>) = pend /\ Then(printed, << >>) = printed /\ << >> \in Texts
    BY <2>1, Nothing
  <2>3. Len(pend) \in 0..Len(pend)
    BY <2>1, Counted
  <2> QED
    BY <2>2, <2>3, Zenon DEF Then
<1>2. Console!Out(<< >>, Len(pend)) /\ end' = how
  BY DEF Console!Exit
<1>3. /\ screen' \in Texts /\ pend' = << >> /\ pend' \in Texts
      /\ Then(screen', pend') = Then(Then(screen, pend), << >>)
  BY <1>1, <1>2, OutMoves
<1>4. calls' \in Nat /\ good' = good /\ good' \in BOOLEAN /\ printed' = Then(printed, << >>)
  BY <1>1 DEF Unprinted, Shown
<1> QED
  BY <1>1, <1>2, <1>3, <1>4, Printing DEF Orderly

\* Whoever ends it with abort(), or a crash, may lose the buffer (winx.cpp:23, 129).
LEMMA AbortShows ==
  ASSUME Shown, ~waiting, NEW how \in {"aborted", "undefined"}, Console!Abort(how),
         UNCHANGED <<good, printed, input>>, calls' \in Nat
  PROVE  Shown'
<1>1. << >> \in Texts /\ printed' = Then(printed, << >>)
  BY Nothing DEF Shown
<1>2. screen' = screen /\ pend' = << >> /\ end' \notin Orderly
  BY DEF Console!Abort, Orderly
<1>3. good' \in BOOLEAN /\ ~waiting'
  BY DEF Shown, input
<1> QED
  BY <1>1, <1>2, <1>3, Losing

\* What debug_print flushes while a module is loaded (winx_util.cpp:102-103).
LEMMA FlushShows ==
  ASSUME Shown, end = "no", ~waiting, Console!Flush, Unprinted, end' = end
  PROVE  Shown'
<1>1. /\ << >> \in Texts /\ Then(printed, << >>) = printed
      /\ (IF good THEN << >> ELSE << >>) = << >>
  BY Nothing DEF Shown
<1>2. PICK k \in 0..Len(pend \o << >>) : Console!Out(<< >>, k)
  <2>1. CASE good
    <3>1. pend \in Texts /\ pend \o << >> = pend
      BY Nothing DEF Shown, Then
    <3>2. Console!Out(<< >>, Len(pend)) /\ Len(pend) \in 0..Len(pend \o << >>)
      BY <2>1, <3>1, Counted DEF Console!Flush
    <3> QED
      BY <3>2
  <2>2. CASE ~good
    BY <2>2 DEF Console!Flush, Console!Puts
  <2> QED
    BY <2>1, <2>2
<1>3. /\ screen' \in Texts /\ pend' \in Texts
      /\ Then(screen', pend') = Then(Then(screen, pend), << >>)
  BY <1>1, <1>2, OutMoves
<1>4. /\ calls' \in Nat /\ good' = good /\ good' \in BOOLEAN /\ ~waiting'
      /\ printed' = Then(printed, << >>)
  BY <1>1 DEF Unprinted, Shown
<1> QED
  BY <1>1, <1>3, <1>4, Printing

\* The text of a call is behind all others among what was printed, and goes to the
\* stream unless that is broken (winx_console.hpp:56-58, winx_os.hpp:92).
LEMMA AskedText ==
  ASSUME Shown, calls' = calls + 1, NEW c \in BOOLEAN, Console!Asked(c)
  PROVE  /\ calls' \in Nat
         /\ \E ts \in Texts : /\ printed' = Then(printed, ts)
                              /\ Console!Text(c) = IF good THEN ts ELSE << >>
<1>1. calls' \in Nat /\ printed \in Texts
  BY DEF Shown
<1>2. CASE c
  BY <1>1, <1>2, Appended DEF Console!Asked, Console!Text
<1>3. CASE ~c
  BY <1>1, <1>3, Nothing DEF Console!Asked, Console!Text
<1> QED
  BY <1>1, <1>2, <1>3

\* A failed check flushes std::cout before it aborts, as std::cerr is tied to it
\* (util.hpp:14-19).
LEMMA CheckShows ==
  ASSUME Shown, end = "no", ~waiting, Console!CheckFails, calls' \in Nat
  PROVE  Shown'
<1>1. /\ screen \in Texts /\ pend \in Texts /\ << >> \in Texts
      /\ Then(printed, << >>) = printed /\ (IF good THEN << >> ELSE << >>) = << >>
      /\ Then(screen, pend) \in Texts
  BY Nothing, Joined DEF Shown
<1>2. /\ end' = "check failed" /\ pend' = << >> /\ good' = good /\ good' \in BOOLEAN
      /\ printed' = Then(printed, << >>) /\ ~waiting'
  BY <1>1 DEF Console!CheckFails, Console!input, input, Shown
<1>3. CASE screen' = screen \o pend
  <2>1. screen' = Then(screen, pend)
    BY <1>3 DEF Then
  <2>2. /\ screen' \in Texts /\ pend' \in Texts
        /\ Then(screen', pend') = Then(Then(screen, pend), << >>)
    BY <1>1, <1>2, <2>1
  <2> QED
    BY <1>1, <1>2, <2>2, Printing
<1>4. CASE ~good /\ screen' = screen
  BY <1>1, <1>2, <1>4, Losing
<1> QED
  BY <1>3, <1>4 DEF Console!CheckFails

\* A null char* breaks the stream or crashes the process; what was printed before
\* stays where it is (winx_console.hpp:56, winx_os.hpp:92).
LEMMA NullShows ==
  ASSUME Shown, end = "no", calls' \in Nat,
         NEW ts \in Texts, printed' = Then(printed, ts),
         Console!NullPrinted(IF good THEN ts ELSE << >>),
         waiting' => end' = "no"
  PROVE  Shown'
<1>1. waiting' => end' \in Orderly
  BY DEF Orderly
<1>2. CASE good' = FALSE /\ Console!Puts(IF good THEN ts ELSE << >>) /\ end' = end
  <2>1. PICK us \in Texts : us = IF good THEN ts ELSE << >>
    BY Nothing
  <2>2. PICK k \in 0..Len(pend \o us) : Console!Out(us, k)
    BY <1>2, <2>1 DEF Console!Puts
  <2>3. /\ screen' \in Texts /\ pend' \in Texts
        /\ Then(screen', pend') = Then(Then(screen, pend), us)
    BY <2>2, OutMoves
  <2> QED
    BY <1>1, <1>2, <2>1, <2>3, Printing
<1>3. CASE Console!Abort("undefined") /\ good' = good
  <2>1. screen' = screen /\ pend' = << >> /\ end' \notin Orderly /\ good' \in BOOLEAN
    BY <1>3 DEF Console!Abort, Orderly, Shown
  <2> QED
    BY <1>1, <2>1, Losing
<1> QED
  BY <1>2, <1>3 DEF Console!NullPrinted

-----------------------------------------------------------------------------
(* The calls of the bindings and the steps of Engine.                      *)

\* Winx.console.log and debug (winx_console.hpp:49-59).
LEMMA LogShows ==
  ASSUME Shown, NEW n, NEW message \in BOOLEAN, NEW newline \in BOOLEAN,
         Console!formatted_print(n, message, newline)
  PROVE  Shown'
<1>1. end = "no" /\ ~waiting /\ calls' = calls + 1 /\ calls' \in Nat
  BY DEF Console!formatted_print, Console!Call, Shown
<1>2. CASE n # 2
  BY <1>1, <1>2, CheckShows DEF Console!formatted_print
<1>3. CASE n = 2
  <2>1. /\ Console!Asked(message) /\ ~waiting'
    BY <1>1, <1>3 DEF Console!formatted_print, Console!input
  <2>2. PICK ts \in Texts : /\ printed' = Then(printed, ts)
                            /\ Console!Text(message) = IF good THEN ts ELSE << >>
    BY <1>1, <2>1, AskedText
  <2>3. CASE message /\ newline
    <3>1. Console!Puts(Console!Text(message)) /\ good' = good /\ end' = end
      BY <1>3, <2>3 DEF Console!formatted_print
    <3>2. PICK us \in Texts : us = IF good THEN ts ELSE << >>
      BY Nothing
    <3>3. PICK k \in 0..Len(pend \o us) : Console!Out(us, k)
      BY <2>2, <3>1, <3>2 DEF Console!Puts
    <3>4. /\ screen' \in Texts /\ pend' \in Texts
          /\ Then(screen', pend') = Then(Then(screen, pend), us)
      BY <3>3, OutMoves
    <3>5. good' \in BOOLEAN
      BY <3>1 DEF Shown
    <3> QED
      BY <1>1, <2>1, <2>2, <3>1, <3>2, <3>4, <3>5, Printing
  <2>4. CASE ~(message /\ newline)
    <3>1. Console!NullPrinted(Console!Text(message))
      BY <1>3, <2>4 DEF Console!formatted_print
    <3> QED
      BY <1>1, <2>1, <2>2, <3>1, NullShows
  <2> QED
    BY <2>3, <2>4
<1> QED
  BY <1>2, <1>3

\* Winx.os.stdin (winx_os.hpp:81-100).
LEMMA PromptShows ==
  ASSUME Shown, NEW n, NEW message \in BOOLEAN, Console!prompt(n, message)
  PROVE  Shown'
<1>1. end = "no" /\ ~waiting /\ calls' = calls + 1 /\ calls' \in Nat
  BY DEF Console!prompt, Console!Call, Shown
<1>2. CASE n > 1
  <2>1. UNCHANGED <<pend, good, screen, printed, waiting, end>>
    BY <1>2 DEF Console!prompt, Console!output, Console!input
  <2> QED
    BY <1>1, <2>1 DEF Shown
<1>3. CASE ~(n > 1)
  <2> DEFINE c == n = 1 /\ message
  <2>1. Console!Asked(c) /\ c \in BOOLEAN /\ (waiting' => end' = "no" /\ cin = "open")
    BY <1>3 DEF Console!prompt
  <2> HIDE DEF c
  <2>2. PICK ts \in Texts : /\ printed' = Then(printed, ts)
                            /\ Console!Text(c) = IF good THEN ts ELSE << >>
    BY <1>1, <2>1, AskedText
  <2>3. CASE n = 1 /\ ~message
    <3>1. Console!NullPrinted(<< >>)
      BY <1>3, <2>3 DEF Console!prompt
    <3>2. Console!Text(c) = << >>
      BY <2>3 DEF Console!Text, c
    <3> QED
      BY <1>1, <2>1, <2>2, <3>1, <3>2, NullShows
  <2>4. CASE ~(n = 1 /\ ~message)
    <3>1. Console!Text(n = 1) = Console!Text(c)
      BY <2>4 DEF Console!Text, c
    <3>2. /\ IF good /\ cin = "open"
             THEN Console!Out(Console!Text(c), Len(pend \o Console!Text(c)))
             ELSE Console!Puts(Console!Text(c))
          /\ good' = good /\ end' = end
      BY <1>3, <2>4, <3>1 DEF Console!prompt
    <3>3. PICK us \in Texts : us = IF good THEN ts ELSE << >>
      BY Nothing
    <3>4. \E k \in 0..Len(pend \o us) : /\ Console!Out(us, k)
                                        /\ good /\ cin = "open" => k = Len(pend \o us)
      <4>1. CASE good /\ cin = "open"
        <5>1. Len(pend \o us) \in 0..Len(pend \o us)
          BY Joined, Counted DEF Then, Shown
        <5> QED
          BY <2>2, <3>2, <3>3, <4>1, <5>1
      <4>2. CASE ~(good /\ cin = "open")
        BY <2>2, <3>2, <3>3, <4>2 DEF Console!Puts
      <4> QED
        BY <4>1, <4>2
    <3>5. PICK k \in 0..Len(pend \o us) : /\ Console!Out(us, k)
                                          /\ good /\ cin = "open" => k = Len(pend \o us)
      BY <3>4
    <3>6. /\ screen' \in Texts /\ pend' \in Texts
          /\ Then(screen', pend') = Then(Then(screen, pend), us)
          /\ good /\ cin = "open" => pend' = << >>
      BY <3>5, OutMoves
    <3>7. good' \in BOOLEAN /\ (waiting' => end' \in Orderly)
      BY <2>1, <3>2 DEF Shown, Orderly
    <3> QED
      BY <1>1, <2>1, <2>2, <3>2, <3>3, <3>6, <3>7, Printing
  <2> QED
    BY <2>3, <2>4
<1> QED
  BY <1>2, <1>3

\* Winx.os.get_free_memory and its like (winx_os.hpp:13-79).
LEMMA QueryShows ==
  ASSUME Shown, NEW n, Console!query(n)
  PROVE  Shown'
<1>1. end = "no" /\ ~waiting /\ calls' \in Nat
  BY DEF Console!query, Console!Call, Shown
<1>2. CASE n # 0
  BY <1>1, <1>2, CheckShows DEF Console!query
<1>3. CASE n = 0
  <2>1. UNCHANGED <<pend, good, screen, printed, waiting, end>>
    BY <1>3 DEF Console!query, Console!output, Console!input
  <2> QED
    BY <1>1, <2>1 DEF Shown
<1> QED
  BY <1>2, <1>3

\* A call that leaves the console alone, or aborts (winx.cpp:119-132, Winx.cc:6-20).
LEMMA OtherCallShows ==
  ASSUME Shown, Console!Call, UNCHANGED <<good, printed, input>>,
         \/ UNCHANGED <<pend, screen, end>>
         \/ \E how \in {"aborted", "undefined"} : Console!Abort(how)
  PROVE  Shown'
<1>1. end = "no" /\ ~waiting /\ calls' \in Nat
  BY DEF Console!Call, Shown
<1>2. CASE UNCHANGED <<pend, screen, end>>
  BY <1>1, <1>2 DEF Shown, input
<1>3. CASE \E how \in {"aborted", "undefined"} : Console!Abort(how)
  BY <1>1, <1>3, AbortShows
<1> QED
  BY <1>2, <1>3

-----------------------------------------------------------------------------
(* The steps of the process.                                               *)

\* Most leave the console alone.
LEMMA QuietShows ==
  ASSUME Shown, UNCHANGED console
  PROVE  Shown'
  BY DEF Shown, console, output, input

\* A line comes, or standard input ends: the process waits no longer, and has printed
\* nothing since (winx_os.hpp:95-96).
LEMMA AnswerShows ==
  ASSUME Shown, Console!Answer
  PROVE  Shown'
  BY DEF Shown, Console!Answer, Console!output

\* The end of the polyfill script, or its abort (winx.cpp:22-23).
LEMMA EndPolyfillShows ==
  ASSUME Shown, EndPolyfill
  PROVE  Shown'
<1>1. /\ end = "no" /\ ~waiting /\ calls' = calls /\ calls' \in Nat
      /\ UNCHANGED <<good, printed, input>>
  BY DEF EndPolyfill, Doing, Shown
<1>2. CASE Console!Abort("aborted")
  BY <1>1, <1>2, AbortShows
<1>3. CASE UNCHANGED <<pend, screen, end>>
  BY <1>1, <1>3, QuietShows DEF console, output, input
<1> QED
  BY <1>2, <1>3 DEF EndPolyfill

\* A step of the module loader, which may end the process in the middle of a body
\* (winx_modules.cpp:26, 36 and 60, winx.cpp:88).
LEMMA LoadModulesShows ==
  ASSUME Shown, LoadModules
  PROVE  Shown'
<1>1. /\ end = "no" /\ ~waiting /\ calls' = calls /\ calls' \in Nat
      /\ UNCHANGED <<good, printed, input>> /\ Unprinted
  BY DEF LoadModules, Doing, Shown, Unprinted, input
<1>2. \/ Console!Exit("exit 1") \/ Console!Abort("aborted")
      \/ UNCHANGED <<pend, screen, end>>
      \/ Console!Flush /\ UNCHANGED end
  BY DEF LoadModules
<1>3. CASE Console!Exit("exit 1")
  BY <1>1, <1>3, ExitShows
<1>4. CASE Console!Abort("aborted")
  BY <1>1, <1>4, AbortShows
<1>5. CASE UNCHANGED <<pend, screen, end>>
  BY <1>1, <1>5, QuietShows DEF console, output, input
<1>6. CASE Console!Flush /\ UNCHANGED end
  BY <1>1, <1>6, FlushShows
<1> QED
  BY <1>2, <1>3, <1>4, <1>5, <1>6

\* A refused command line, or the return from main (winx.cpp:189-211).
LEMMA LeavingShows ==
  ASSUME Shown, RefuseArguments \/ ReturnFromMain
  PROVE  Shown'
<1>1. end = "no" /\ Console!Exit("exit 0") /\ Unprinted
  BY DEF RefuseArguments, ReturnFromMain, Unprinted, input
<1> QED
  BY <1>1, ExitShows

\* The calls of JavaScript.
LEMMA CallsShow ==
  ASSUME Shown, Calls
  PROVE  Shown'
<1>1. CASE Log
  BY <1>1, LogShows DEF Log
<1>2. CASE Prompt
  BY <1>2, PromptShows DEF Prompt
<1>3. CASE Query
  BY <1>3, QueryShows DEF Query
<1>4. CASE GetRequest
  BY <1>4, OtherCallShows DEF GetRequest
<1>5. CASE HelloJava
  BY <1>5, OtherCallShows DEF HelloJava
<1>6. CASE AssignGlobal
  BY <1>6, OtherCallShows DEF AssignGlobal, output
<1> QED
  BY <1>1, <1>2, <1>3, <1>4, <1>5, <1>6 DEF Calls

\* Shown is inductive: it holds at the start, and every step of Engine keeps it.
LEMMA ShownHolds == Spec => []Shown
<1>1. Init => Shown
  BY Nothing DEF Init, Console!Init, Shown
<1>2. Shown /\ [Next]_vars => Shown'
  <2> SUFFICES ASSUME Shown, [Next]_vars
               PROVE  Shown'
    OBVIOUS
  <2>1. CASE RefuseArguments \/ ReturnFromMain
    BY <2>1, LeavingShows
  <2>2. CASE SetFlags
    BY <2>2, QuietShows DEF SetFlags
  <2>3. CASE EndPolyfill
    BY <2>3, EndPolyfillShows
  <2>4. CASE LoadModules
    BY <2>4, LoadModulesShows
  <2>5. CASE \E part \in Parts : CreatePart(part) \/ FreePart(part)
    BY <2>5, QuietShows DEF CreatePart, FreePart
  <2>6. CASE \E name \in {"Winx", "request", "jni"} : BindName(name)
    BY <2>6, QuietShows DEF BindName
  <2>7. CASE \E name \in Hosted : StoreGlobal(name)
    BY <2>7, QuietShows DEF StoreGlobal
  <2>8. CASE Calls
    BY <2>8, CallsShow
  <2>9. CASE Answer
    BY <2>9, AnswerShows DEF Answer
  <2>10. CASE UNCHANGED vars
    BY <2>10, QuietShows DEF vars
  <2> QED
    BY <2>1, <2>2, <2>3, <2>4, <2>5, <2>6, <2>7, <2>8, <2>9, <2>10 DEF Next, Process
<1> QED
  BY <1>1, <1>2, PTL DEF Spec

\* What a program printed goes out in order, and all of it, however the process ends,
\* except by an abort of V8 or a crash, and unless the stream broke before: std::cout
\* is flushed by exit, by the return from main, and by the message of a failed check
\* (winx_console.hpp:49-59, winx_modules.cpp:26 and 36, util.hpp:14-19).
THEOREM OutputGoesOut == Spec => []OutputSurvives
<1>1. Shown => OutputSurvives
  <2> SUFFICES ASSUME Shown
               PROVE  OutputSurvives
    OBVIOUS
  <2>1. PICK lost \in Texts : /\ printed = Then(Then(screen, pend), lost)
                              /\ good /\ end \in Orderly => lost = << >>
    BY DEF Shown
  <2>2. screen \in Texts /\ pend \in Texts /\ printed \in Texts /\ Then(pend, lost) \in Texts
    BY Joined DEF Shown
  <2>3. printed = Then(screen, Then(pend, lost))
    BY <2>1, <2>2, Together
  <2>4. screen = SubSeq(printed, 1, Len(screen))
    BY <2>2, <2>3, Beginning
  <2>5. end \in {"exit 0", "exit 1", "check failed"} /\ good => screen = printed
    BY <2>1, <2>2, Nothing DEF Shown, Orderly
  <2> QED
    BY <2>4, <2>5 DEF OutputSurvives
<1> QED
  BY <1>1, ShownHolds, PTL

\* Whoever is asked for a line sees the question and all that was printed before:
\* reading std::cin flushes std::cout (winx_os.hpp:89-96).
THEOREM QuestionsAreSeen == Spec => []PromptIsSeen
<1>1. Shown => PromptIsSeen
  <2> SUFFICES ASSUME Shown, waiting, good
               PROVE  screen = printed
    BY DEF PromptIsSeen
  <2>1. PICK lost \in Texts : printed = Then(Then(screen, pend), lost) /\ lost = << >>
    BY DEF Shown
  <2> QED
    BY <2>1, Nothing DEF Shown
<1> QED
  BY <1>1, ShownHolds, PTL

-----------------------------------------------------------------------------
(* The order of a life: what it creates and frees, binds and stores, when.  *)

\* What a process does of its own accord, and the names that it binds.
Bound == {"Winx", "request", "jni"}
Steps ==
  {Create(part) : part \in Parts} \cup {Free(part) : part \in Parts}
  \cup {Bind(name) : name \in Bound} \cup {Store(name) : name \in Hosted}
  \cup {SetFlagsFromString, Polyfill, Module}

\* Every step that the functions write down is one of these.
LEMMA Typed ==
  /\ \A part \in Parts : Create(part) \in Steps /\ Free(part) \in Steps
  /\ \A name \in Bound : Bind(name) \in Steps
  /\ \A name \in Hosted : Store(name) \in Steps
  /\ SetFlagsFromString \in Steps /\ Polyfill \in Steps /\ Module \in Steps
  BY DEF Steps

\* The four lists that the functions make, written out: of winx and of a JVM, without
\* a request and with one.
MainLife ==
  <<Create("workers"), Create("platform"), SetFlagsFromString, Create("v8"),
    Create("allocator"), Create("isolate"), Create("scope"), Bind("Winx"),
    Create("template"), Free("scope"), Create("scope"), Create("context"),
    Store("winxEngine"), Polyfill, Module, Free("scope"), Free("template"),
    Free("context"), Free("isolate"), Free("v8"), Free("platform"), Free("allocator"),
    Free("workers")>>

MainLifeWithRequest ==
  <<Create("workers"), Create("platform"), SetFlagsFromString, Create("v8"),
    Create("allocator"), Create("isolate"), Create("scope"), Bind("Winx"),
    Bind("request"), Create("template"), Free("scope"), Create("scope"),
    Create("context"), Store("winxEngine"), Polyfill, Module, Free("scope"),
    Free("template"), Free("context"), Free("isolate"), Free("v8"), Free("platform"),
    Free("allocator"), Free("workers")>>

HostedLife ==
  <<Create("workers"), Create("platform"), SetFlagsFromString, Create("v8"),
    Create("allocator"), Create("isolate"), Create("scope"), Bind("Winx"),
    Create("template"), Free("scope"), Create("scope"), Bind("jni"),
    Create("context"), Store("env"), Store("obj"), Free("scope"), Create("scope"),
    Store("winxEngine"), Polyfill, Module, Free("scope"), Free("template"),
    Free("context"), Free("isolate"), Free("v8"), Free("platform"), Free("allocator"),
    Free("workers")>>

HostedLifeWithRequest ==
  <<Create("workers"), Create("platform"), SetFlagsFromString, Create("v8"),
    Create("allocator"), Create("isolate"), Create("scope"), Bind("Winx"),
    Bind("request"), Create("template"), Free("scope"), Create("scope"), Bind("jni"),
    Create("context"), Store("env"), Store("obj"), Free("scope"), Create("scope"),
    Store("winxEngine"), Polyfill, Module, Free("scope"), Free("template"),
    Free("context"), Free("isolate"), Free("v8"), Free("platform"), Free("allocator"),
    Free("workers")>>

\* Lists with the same steps at the same places are the same.
LEMMA SameList ==
  ASSUME NEW t \in Seq(Steps), NEW u \in Seq(Steps), Len(t) = Len(u),
         \A i \in 1..Len(u) : t[i] = u[i]
  PROVE  t = u
  OBVIOUS

\* The functions make these lists (winx.cpp:91-104, 154-172, 178-211).
LEMMA MainLifeIs ==
  ASSUME NEW s, s.request = "none", s.host # "java"
  PROVE  Life(s) = MainLife /\ Life(s) \in Seq(Steps)
<1>1. /\ Life(s) \in Seq(Steps) /\ MainLife \in Seq(Steps)
      /\ Len(Life(s)) = 23 /\ Len(MainLife) = 23
      /\ \A i \in 1..23 : Life(s)[i] = MainLife[i]
    BY Typed DEF Life, internal_main, InternalInitializeEngine,
         InitializeStandardWinxRuntimeBindings, InternalExecuteJavascript, ShutdownEngine,
         MainLife, Parts, Bound, Hosted
<1> QED
  BY <1>1, SameList

\* winx with a request.
LEMMA MainLifeWithRequestIs ==
  ASSUME NEW s, s.request # "none", s.host # "java"
  PROVE  Life(s) = MainLifeWithRequest /\ Life(s) \in Seq(Steps)
<1>1. /\ Life(s) \in Seq(Steps) /\ MainLifeWithRequest \in Seq(Steps)
      /\ Len(Life(s)) = 24 /\ Len(MainLifeWithRequest) = 24
      /\ \A i \in 1..24 : Life(s)[i] = MainLifeWithRequest[i]
    BY Typed DEF Life, internal_main, InternalInitializeEngine,
         InitializeStandardWinxRuntimeBindings, InternalExecuteJavascript, ShutdownEngine,
         MainLifeWithRequest, Parts, Bound, Hosted
<1> QED
  BY <1>1, SameList

\* A JVM without a request (jwinx/Winx.cc:22-66).
LEMMA HostedLifeIs ==
  ASSUME NEW s, s.request = "none", s.host = "java"
  PROVE  Life(s) = HostedLife /\ Life(s) \in Seq(Steps)
<1>1. /\ Life(s) \in Seq(Steps) /\ HostedLife \in Seq(Steps)
      /\ Len(Life(s)) = 28 /\ Len(HostedLife) = 28
      /\ \A i \in 1..28 : Life(s)[i] = HostedLife[i]
    BY Typed DEF Life, startupV8, InternalInitializeEngine,
         InitializeStandardWinxRuntimeBindings, InternalExecuteJavascript, ShutdownEngine,
         HostedLife, Parts, Bound, Hosted
<1> QED
  BY <1>1, SameList

\* A JVM with one.
LEMMA HostedLifeWithRequestIs ==
  ASSUME NEW s, s.request # "none", s.host = "java"
  PROVE  Life(s) = HostedLifeWithRequest /\ Life(s) \in Seq(Steps)
<1>1. /\ Life(s) \in Seq(Steps) /\ HostedLifeWithRequest \in Seq(Steps)
      /\ Len(Life(s)) = 29 /\ Len(HostedLifeWithRequest) = 29
      /\ \A i \in 1..29 : Life(s)[i] = HostedLifeWithRequest[i]
    BY Typed DEF Life, startupV8, InternalInitializeEngine,
         InitializeStandardWinxRuntimeBindings, InternalExecuteJavascript, ShutdownEngine,
         HostedLifeWithRequest, Parts, Bound, Hosted
<1> QED
  BY <1>1, SameList

\* The i-th step of the list L is this one, and no other is.
Once(L, step, i) == i \in DOMAIN L /\ \A j \in DOMAIN L : L[j] = step <=> j = i

\* The names that contexts are made with, and what is stored in the context before
\* JavaScript runs.
BoundNames(s) ==
  {"Winx"} \cup (IF s.request # "none" THEN {"request"} ELSE {})
  \cup (IF s.host = "java" THEN {"jni"} ELSE {})
StoredNames(s) == {"winxEngine"} \cup (IF s.host = "java" THEN {"env", "obj"} ELSE {})

\* When what happens in the life L: the bindings are set up in n steps, the c-th
\* step makes the context, and JavaScript is to run after m.
Order(s, L, n, c, m) ==
  /\ L \in Seq(Steps) /\ DOMAIN L = 1..(m + 11) /\ Len(L) = m + 11
  /\ 9 < n /\ n + 1 < c /\ c <= m
  /\ Once(L, Create("workers"), 1) /\ Once(L, Free("workers"), m + 11)
  /\ Once(L, Create("platform"), 2) /\ Once(L, Free("platform"), m + 9)
  /\ Once(L, SetFlagsFromString, 3)
  /\ Once(L, Create("v8"), 4) /\ Once(L, Free("v8"), m + 8)
  /\ Once(L, Create("allocator"), 5) /\ Once(L, Free("allocator"), m + 10)
  /\ Once(L, Create("isolate"), 6) /\ Once(L, Free("isolate"), m + 7)
  /\ Once(L, Create("template"), n - 1) /\ Once(L, Free("template"), m + 5)
  /\ Once(L, Create("context"), c) /\ Once(L, Free("context"), m + 6)
  /\ \A j \in DOMAIN L : L[j] = Create("scope") => 7 <= j /\ j <= m
  /\ L[m + 4] = Free("scope")
  /\ \E i \in 1..m : /\ L[i] = Create("scope")
                     /\ \A j \in (i + 1)..(m + 3) : L[j] # Free("scope")
  /\ Once(L, Polyfill, m + 2) /\ Once(L, Module, m + 3)
  /\ \A x \in BoundNames(s) : \E i \in 1..(c - 1) : L[i] = Bind(x)
  /\ \A x \in StoredNames(s) : \E i \in (c + 1)..(m + 1) : L[i] = Store(x)

\* Each of the four lists goes in that order.
LEMMA MainLifeOrder ==
  ASSUME NEW s, s.request = "none", s.host # "java"
  PROVE  Order(s, Life(s), 10, 12, 12)
<1> DEFINE L == MainLife
<1>1. Life(s) = L /\ L \in Seq(Steps)
  BY MainLifeIs
<1> USE DEF MainLife, Create, Free, Bind, Store, SetFlagsFromString, Polyfill, Module
<1>2. DOMAIN L = 1..23 /\ Len(L) = 23
  OBVIOUS
<1>3. /\ Once(L, Create("workers"), 1) /\ Once(L, Free("workers"), 23)
      /\ Once(L, Create("platform"), 2) /\ Once(L, Free("platform"), 21)
      /\ Once(L, SetFlagsFromString, 3)
      /\ Once(L, Create("v8"), 4) /\ Once(L, Free("v8"), 20)
      /\ Once(L, Create("allocator"), 5) /\ Once(L, Free("allocator"), 22)
      /\ Once(L, Create("isolate"), 6) /\ Once(L, Free("isolate"), 19)
      /\ Once(L, Create("template"), 9) /\ Once(L, Free("template"), 17)
      /\ Once(L, Create("context"), 12) /\ Once(L, Free("context"), 18)
      /\ Once(L, Polyfill, 14) /\ Once(L, Module, 15)
  BY <1>2 DEF Once
<1>4. /\ \A j \in 1..23 : L[j] = Create("scope") => 7 <= j /\ j <= 12
      /\ L[16] = Free("scope") /\ L[11] = Create("scope") /\ 11 \in 1..12
      /\ \A j \in (11 + 1)..(12 + 3) : L[j] # Free("scope")
  OBVIOUS
<1>5. BoundNames(s) = {"Winx"} /\ StoredNames(s) = {"winxEngine"}
  BY DEF BoundNames, StoredNames
<1>6. /\ L[8] = Bind("Winx") /\ 8 \in 1..11
      /\ L[13] = Store("winxEngine") /\ 13 \in (12 + 1)..(12 + 1)
  OBVIOUS
<1> HIDE DEF L, MainLife, Create, Free, Bind, Store, SetFlagsFromString, Polyfill, Module
<1>7. /\ \A x \in BoundNames(s) : \E i \in 1..(12 - 1) : L[i] = Bind(x)
      /\ \A x \in StoredNames(s) : \E i \in (12 + 1)..(12 + 1) : L[i] = Store(x)
  BY <1>5, <1>6
<1> QED
  BY <1>1, <1>2, <1>3, <1>4, <1>7 DEF Order

\* winx with a request.
LEMMA MainLifeWithRequestOrder ==
  ASSUME NEW s, s.request # "none", s.host # "java"
  PROVE  Order(s, Life(s), 11, 13, 13)
<1> DEFINE L == MainLifeWithRequest
<1>1. Life(s) = L /\ L \in Seq(Steps)
  BY MainLifeWithRequestIs
<1> USE DEF MainLifeWithRequest, Create, Free, Bind, Store, SetFlagsFromString, Polyfill, Module
<1>2. DOMAIN L = 1..24 /\ Len(L) = 24
  OBVIOUS
<1>3. /\ Once(L, Create("workers"), 1) /\ Once(L, Free("workers"), 24)
      /\ Once(L, Create("platform"), 2) /\ Once(L, Free("platform"), 22)
      /\ Once(L, SetFlagsFromString, 3)
      /\ Once(L, Create("v8"), 4) /\ Once(L, Free("v8"), 21)
      /\ Once(L, Create("allocator"), 5) /\ Once(L, Free("allocator"), 23)
      /\ Once(L, Create("isolate"), 6) /\ Once(L, Free("isolate"), 20)
      /\ Once(L, Create("template"), 10) /\ Once(L, Free("template"), 18)
      /\ Once(L, Create("context"), 13) /\ Once(L, Free("context"), 19)
      /\ Once(L, Polyfill, 15) /\ Once(L, Module, 16)
  BY <1>2 DEF Once
<1>4. /\ \A j \in 1..24 : L[j] = Create("scope") => 7 <= j /\ j <= 13
      /\ L[17] = Free("scope") /\ L[12] = Create("scope") /\ 12 \in 1..13
      /\ \A j \in (12 + 1)..(13 + 3) : L[j] # Free("scope")
  OBVIOUS
<1>5. BoundNames(s) = {"Winx", "request"} /\ StoredNames(s) = {"winxEngine"}
  BY DEF BoundNames, StoredNames
<1>6. /\ L[8] = Bind("Winx") /\ 8 \in 1..12 /\ L[9] = Bind("request") /\ 9 \in 1..12
      /\ L[14] = Store("winxEngine") /\ 14 \in (13 + 1)..(13 + 1)
  OBVIOUS
<1> HIDE DEF L, MainLifeWithRequest, Create, Free, Bind, Store, SetFlagsFromString, Polyfill, Module
<1>7. /\ \A x \in BoundNames(s) : \E i \in 1..(13 - 1) : L[i] = Bind(x)
      /\ \A x \in StoredNames(s) : \E i \in (13 + 1)..(13 + 1) : L[i] = Store(x)
  BY <1>5, <1>6
<1> QED
  BY <1>1, <1>2, <1>3, <1>4, <1>7 DEF Order

\* A JVM without a request.
LEMMA HostedLifeOrder ==
  ASSUME NEW s, s.request = "none", s.host = "java"
  PROVE  Order(s, Life(s), 10, 13, 17)
<1> DEFINE L == HostedLife
<1>1. Life(s) = L /\ L \in Seq(Steps)
  BY HostedLifeIs
<1> USE DEF HostedLife, Create, Free, Bind, Store, SetFlagsFromString, Polyfill, Module
<1>2. DOMAIN L = 1..28 /\ Len(L) = 28
  OBVIOUS
<1>3. /\ Once(L, Create("workers"), 1) /\ Once(L, Free("workers"), 28)
      /\ Once(L, Create("platform"), 2) /\ Once(L, Free("platform"), 26)
      /\ Once(L, SetFlagsFromString, 3)
      /\ Once(L, Create("v8"), 4) /\ Once(L, Free("v8"), 25)
      /\ Once(L, Create("allocator"), 5) /\ Once(L, Free("allocator"), 27)
      /\ Once(L, Create("isolate"), 6) /\ Once(L, Free("isolate"), 24)
      /\ Once(L, Create("template"), 9) /\ Once(L, Free("template"), 22)
      /\ Once(L, Create("context"), 13) /\ Once(L, Free("context"), 23)
      /\ Once(L, Polyfill, 19) /\ Once(L, Module, 20)
  BY <1>2 DEF Once
<1>4. /\ \A j \in 1..28 : L[j] = Create("scope") => 7 <= j /\ j <= 17
      /\ L[21] = Free("scope") /\ L[17] = Create("scope") /\ 17 \in 1..17
      /\ \A j \in (17 + 1)..(17 + 3) : L[j] # Free("scope")
  OBVIOUS
<1>5. BoundNames(s) = {"Winx", "jni"} /\ StoredNames(s) = {"winxEngine", "env", "obj"}
  BY DEF BoundNames, StoredNames
<1>6. /\ L[8] = Bind("Winx") /\ 8 \in 1..12 /\ L[12] = Bind("jni") /\ 12 \in 1..12
      /\ L[18] = Store("winxEngine") /\ 18 \in (13 + 1)..(17 + 1)
      /\ L[14] = Store("env") /\ 14 \in (13 + 1)..(17 + 1)
      /\ L[15] = Store("obj") /\ 15 \in (13 + 1)..(17 + 1)
  OBVIOUS
<1> HIDE DEF L, HostedLife, Create, Free, Bind, Store, SetFlagsFromString, Polyfill, Module
<1>7. /\ \A x \in BoundNames(s) : \E i \in 1..(13 - 1) : L[i] = Bind(x)
      /\ \A x \in StoredNames(s) : \E i \in (13 + 1)..(17 + 1) : L[i] = Store(x)
  BY <1>5, <1>6
<1> QED
  BY <1>1, <1>2, <1>3, <1>4, <1>7 DEF Order

\* A JVM with one.
LEMMA HostedLifeWithRequestOrder ==
  ASSUME NEW s, s.request # "none", s.host = "java"
  PROVE  Order(s, Life(s), 11, 14, 18)
<1> DEFINE L == HostedLifeWithRequest
<1>1. Life(s) = L /\ L \in Seq(Steps)
  BY HostedLifeWithRequestIs
<1> USE DEF HostedLifeWithRequest, Create, Free, Bind, Store, SetFlagsFromString, Polyfill, Module
<1>2. DOMAIN L = 1..29 /\ Len(L) = 29
  OBVIOUS
<1>3. /\ Once(L, Create("workers"), 1) /\ Once(L, Free("workers"), 29)
      /\ Once(L, Create("platform"), 2) /\ Once(L, Free("platform"), 27)
      /\ Once(L, SetFlagsFromString, 3)
      /\ Once(L, Create("v8"), 4) /\ Once(L, Free("v8"), 26)
      /\ Once(L, Create("allocator"), 5) /\ Once(L, Free("allocator"), 28)
      /\ Once(L, Create("isolate"), 6) /\ Once(L, Free("isolate"), 25)
      /\ Once(L, Create("template"), 10) /\ Once(L, Free("template"), 23)
      /\ Once(L, Create("context"), 14) /\ Once(L, Free("context"), 24)
      /\ Once(L, Polyfill, 20) /\ Once(L, Module, 21)
  BY <1>2 DEF Once
<1>4. /\ \A j \in 1..29 : L[j] = Create("scope") => 7 <= j /\ j <= 18
      /\ L[22] = Free("scope") /\ L[18] = Create("scope") /\ 18 \in 1..18
      /\ \A j \in (18 + 1)..(18 + 3) : L[j] # Free("scope")
  OBVIOUS
<1>5. BoundNames(s) = {"Winx", "request", "jni"} /\ StoredNames(s) = {"winxEngine", "env", "obj"}
  BY DEF BoundNames, StoredNames
<1>6. /\ L[8] = Bind("Winx") /\ 8 \in 1..13 /\ L[9] = Bind("request") /\ 9 \in 1..13
      /\ L[13] = Bind("jni") /\ 13 \in 1..13
      /\ L[19] = Store("winxEngine") /\ 19 \in (14 + 1)..(18 + 1)
      /\ L[15] = Store("env") /\ 15 \in (14 + 1)..(18 + 1)
      /\ L[16] = Store("obj") /\ 16 \in (14 + 1)..(18 + 1)
  OBVIOUS
<1> HIDE DEF L, HostedLifeWithRequest, Create, Free, Bind, Store, SetFlagsFromString, Polyfill, Module
<1>7. /\ \A x \in BoundNames(s) : \E i \in 1..(14 - 1) : L[i] = Bind(x)
      /\ \A x \in StoredNames(s) : \E i \in (14 + 1)..(18 + 1) : L[i] = Store(x)
  BY <1>5, <1>6
<1> QED
  BY <1>1, <1>2, <1>3, <1>4, <1>7 DEF Order

-----------------------------------------------------------------------------
(* How far a process got says what there is: OnItsWay, the invariant.       *)

\* After k steps of the life L: the part exists, the name is bound, and JavaScript
\* finds the name in the global object of the context.
Made(L, part, k) ==
  \E i \in 1..k : L[i] = Create(part) /\ \A j \in (i + 1)..k : L[j] # Free(part)
Named(L, x, k) == \E i \in 1..k : L[i] = Bind(x)
Given(L, x, k) ==
  \E i \in 1..k :
    /\ L[i] = Store(x) \/ (L[i] = Create("context") /\ Named(L, x, i))
    /\ \A j \in (i + 1)..k : L[j] # Create("context")

\* The process did the first k steps of its life, all of them or none if it
\* returned from main.
Reached(L, k) ==
  /\ k \in 0..Len(L) /\ todo = SubSeq(L, k + 1, Len(L))
  /\ live = {part \in Parts : Made(L, part, k)}
  /\ template = {x \in Bound : Named(L, x, k)}
  /\ \A x : Given(L, x, k) => x \in DOMAIN globals
  /\ end = "exit 0" => k \in {0, Len(L)}
OnItsWay == \E k \in Nat : Reached(Life(start), k)

\* Every life goes in this order.
LEMMA LivesInOrder ==
  ASSUME NEW s
  PROVE  \E n, c, m \in Nat : Order(s, Life(s), n, c, m)
<1>1. CASE s.request = "none" /\ s.host # "java"
  BY <1>1, MainLifeOrder
<1>2. CASE s.request # "none" /\ s.host # "java"
  BY <1>2, MainLifeWithRequestOrder
<1>3. CASE s.request = "none" /\ s.host = "java"
  BY <1>3, HostedLifeOrder
<1>4. CASE s.request # "none" /\ s.host = "java"
  BY <1>4, HostedLifeWithRequestOrder
<1> QED
  BY <1>1, <1>2, <1>3, <1>4

\* What is behind the first k steps of a list.
LEMMA From ==
  ASSUME NEW L \in Seq(Steps), NEW l \in Nat, Len(L) = l, NEW k \in 0..l
  PROVE  /\ SubSeq(L, k + 1, l) \in Seq(Steps)
         /\ Len(SubSeq(L, k + 1, l)) = l - k
         /\ \A i \in 1..(l - k) : SubSeq(L, k + 1, l)[i] = L[k + i]
<1>1. DOMAIN L = 1..l /\ k \in Nat /\ k <= l
  BY LenProperties
<1>2. \A i \in (k + 1)..l : i \in 1..l /\ L[i] \in Steps
  BY <1>1
<1>3. k + 1 \in Int /\ l \in Int
  BY <1>1
<1>4. PICK u : u = SubSeq(L, k + 1, l)
  OBVIOUS
<1>5. /\ u \in Seq(Steps)
      /\ Len(u) = IF k + 1 <= l THEN l - (k + 1) + 1 ELSE 0
      /\ \A i \in 1..(l - (k + 1) + 1) : u[i] = L[(k + 1) + i - 1]
  BY <1>2, <1>3, <1>4, SubSeqProperties
<1>6. Len(u) = l - k
  BY <1>1, <1>5
<1>7. ASSUME NEW i \in 1..(l - k)
      PROVE  u[i] = L[k + i]
  <2>1. i \in 1..(l - (k + 1) + 1) /\ (k + 1) + i - 1 = k + i
    BY <1>1
  <2> QED
    BY <1>5, <2>1
<1> QED
  BY <1>4, <1>5, <1>6, <1>7

\* What is still to do after k steps.
LEMMA Rest ==
  ASSUME NEW L \in Seq(Steps), NEW l \in Nat, Len(L) = l, NEW k \in 0..l,
         NEW rest, rest = SubSeq(L, k + 1, l)
  PROVE  /\ rest = << >> <=> k = l
         /\ rest # << >> => /\ k + 1 \in 0..l /\ k + 1 \in DOMAIN L
                            /\ Head(rest) = L[k + 1]
                            /\ Tail(rest) = SubSeq(L, k + 2, l)
         /\ rest = L => k = 0
<1>1. k \in Nat /\ DOMAIN L = 1..l /\ k <= l
  BY LenProperties
<1>2. /\ rest \in Seq(Steps) /\ Len(rest) = l - k
      /\ \A i \in 1..(l - k) : rest[i] = L[k + i]
  BY From
<1>3. rest = << >> <=> k = l
  <2>1. rest = << >> <=> Len(rest) = 0
    BY <1>2, EmptySeq
  <2> QED
    BY <1>1, <1>2, <2>1
<1>4. rest = L => k = 0
  BY <1>1, <1>2
<1>5. ASSUME rest # << >>
      PROVE  /\ k + 1 \in 0..l /\ k + 1 \in DOMAIN L
             /\ Head(rest) = L[k + 1] /\ Tail(rest) = SubSeq(L, k + 2, l)
  <2>1. k < l /\ 1 \in 1..(l - k) /\ k + 1 \in 0..l /\ k + 1 \in 1..l
    BY <1>1, <1>3, <1>5
  <2>2. Head(rest) = L[k + 1]
    BY <1>2, <1>5, <2>1
  <2>3. PICK u : u = SubSeq(L, (k + 1) + 1, l)
    OBVIOUS
  <2>4. /\ u \in Seq(Steps) /\ Len(u) = l - (k + 1)
        /\ \A i \in 1..(l - (k + 1)) : u[i] = L[(k + 1) + i]
    BY <2>1, <2>3, From
  <2>5. PICK t : t = Tail(rest)
    OBVIOUS
  <2>6. t \in Seq(Steps) /\ Len(t) = Len(rest) - 1 /\ \A i \in 1..Len(t) : t[i] = rest[i + 1]
    BY <1>2, <1>5, <2>5, HeadTailProperties
  <2>7. Len(t) = l - (k + 1)
    BY <1>1, <1>2, <2>6
  <2>8. \A i \in 1..(l - (k + 1)) : t[i] = u[i]
    <3> SUFFICES ASSUME NEW i \in 1..(l - (k + 1))
                 PROVE  t[i] = u[i]
      OBVIOUS
    <3>1. i + 1 \in 1..(l - k) /\ k + (i + 1) = (k + 1) + i /\ i \in 1..Len(t)
      BY <1>1, <2>7
    <3>2. t[i] = rest[i + 1] /\ rest[i + 1] = L[k + (i + 1)]
      BY <1>2, <2>6, <3>1
    <3> QED
      BY <2>4, <3>1, <3>2
  <2>9. t = u
    BY <2>4, <2>6, <2>7, <2>8, SameList
  <2>10. (k + 1) + 1 = k + 2
    BY <1>1
  <2> QED
    BY <1>1, <2>1, <2>2, <2>3, <2>5, <2>9, <2>10
<1> QED
  BY <1>3, <1>4, <1>5

\* The steps are told apart by what they do and by what they do it to.
LEMMA IsCreate ==
  ASSUME NEW step, NEW part, step = Create(part)
  PROVE  /\ \A p : step = Create(p) <=> p = part
         /\ \A p : step # Free(p)
         /\ \A x : step # Bind(x)
         /\ \A x : step # Store(x)
  BY DEF Create, Free, Bind, Store

\* So is a step that frees a part.
LEMMA IsFree ==
  ASSUME NEW step, NEW part, step = Free(part)
  PROVE  /\ \A p : step = Free(p) <=> p = part
         /\ \A p : step # Create(p)
         /\ \A x : step # Bind(x)
         /\ \A x : step # Store(x)
  BY DEF Create, Free, Bind, Store

\* So is a step that binds a name.
LEMMA IsBind ==
  ASSUME NEW step, NEW name, step = Bind(name)
  PROVE  /\ \A x : step = Bind(x) <=> x = name
         /\ \A p : step # Create(p)
         /\ \A p : step # Free(p)
         /\ \A x : step # Store(x)
         /\ step \in Steps => name \in Bound
  BY DEF Create, Free, Bind, Store, Steps, SetFlagsFromString, Polyfill, Module

\* So is a step that stores an object of the host.
LEMMA IsStore ==
  ASSUME NEW step, NEW name, step = Store(name)
  PROVE  /\ \A x : step = Store(x) <=> x = name
         /\ \A p : step # Create(p)
         /\ \A p : step # Free(p)
         /\ \A x : step # Bind(x)
  BY DEF Create, Free, Bind, Store

\* So are the steps that run something.
LEMMA IsRun ==
  ASSUME NEW step \in {SetFlagsFromString, Polyfill, Module}
  PROVE  /\ \A p : step # Create(p)
         /\ \A p : step # Free(p)
         /\ \A x : step # Bind(x)
         /\ \A x : step # Store(x)
  BY DEF Create, Free, Bind, Store, SetFlagsFromString, Polyfill, Module

\* One step more: what it adds to what there is, and what it takes away.
LEMMA OneMore ==
  ASSUME NEW L, NEW k \in Nat
  PROVE  /\ \A p : Made(L, p, k + 1) <=>
               L[k + 1] = Create(p) \/ (Made(L, p, k) /\ L[k + 1] # Free(p))
         /\ \A x : Named(L, x, k + 1) <=> L[k + 1] = Bind(x) \/ Named(L, x, k)
         /\ \A x : Given(L, x, k + 1) <=>
               \/ L[k + 1] = Store(x)
               \/ L[k + 1] = Create("context") /\ Named(L, x, k + 1)
               \/ Given(L, x, k) /\ L[k + 1] # Create("context")
<1>1. /\ \A i : i \in 1..(k + 1) <=> i \in 1..k \/ i = k + 1
      /\ \A i \in 1..k : \A j : j \in (i + 1)..(k + 1) <=> j \in (i + 1)..k \/ j = k + 1
      /\ ((k + 1) + 1)..(k + 1) = {}
  OBVIOUS
<1>2. ASSUME NEW p
      PROVE  Made(L, p, k + 1) <=>
               L[k + 1] = Create(p) \/ (Made(L, p, k) /\ L[k + 1] # Free(p))
  BY <1>1 DEF Made
<1>3. ASSUME NEW x
      PROVE  Named(L, x, k + 1) <=> L[k + 1] = Bind(x) \/ Named(L, x, k)
  BY <1>1 DEF Named
<1>4. ASSUME NEW x
      PROVE  Given(L, x, k + 1) <=>
               \/ L[k + 1] = Store(x)
               \/ L[k + 1] = Create("context") /\ Named(L, x, k + 1)
               \/ Given(L, x, k) /\ L[k + 1] # Create("context")
  BY <1>1 DEF Given
<1> QED
  BY <1>2, <1>3, <1>4

\* The next step of the process, and where it is afterwards.
LEMMA NextStep ==
  ASSUME OnItsWay, NEW step, Doing(step), Done
  PROVE  LET L == Life(start)
         IN  /\ L \in Seq(Steps) /\ Len(L) \in Nat
             /\ \E k \in Nat : /\ Reached(L, k) /\ k + 1 \in 0..Len(L) /\ L[k + 1] = step
                              /\ todo' = SubSeq(L, (k + 1) + 1, Len(L))
                              /\ step \in Steps
<1>1. PICK L : L = Life(start)
  OBVIOUS
<1>2. PICK l \in Nat : Len(L) = l /\ L \in Seq(Steps)
  BY <1>1, LivesInOrder, LenProperties DEF Order
<1>3. PICK k \in Nat : Reached(L, k)
  BY <1>1 DEF OnItsWay
<1>4. k \in 0..l /\ todo = SubSeq(L, k + 1, l)
  BY <1>2, <1>3 DEF Reached
<1>5. todo # << >> /\ Head(todo) = step /\ todo' = Tail(todo)
  BY DEF Doing, Done
<1>6. /\ k + 1 \in 0..l /\ k + 1 \in DOMAIN L /\ L[k + 1] = step
      /\ todo' = SubSeq(L, k + 2, l)
  BY <1>2, <1>4, <1>5, Rest
<1>7. (k + 1) + 1 = k + 2
  OBVIOUS
<1>8. step \in Steps
  BY <1>2, <1>6
<1> QED
  BY <1>1, <1>2, <1>3, <1>6, <1>7, <1>8

\* Nothing is made, named or given by a step that is about something else.
LEMMA Unmade ==
  ASSUME NEW L, NEW k \in Nat, \A p : L[k + 1] # Create(p), \A p : L[k + 1] # Free(p)
  PROVE  \A p : Made(L, p, k + 1) <=> Made(L, p, k)
  BY OneMore

\* The same for names of the template.
LEMMA Unnamed ==
  ASSUME NEW L, NEW k \in Nat, \A x : L[k + 1] # Bind(x)
  PROVE  \A x : Named(L, x, k + 1) <=> Named(L, x, k)
  BY OneMore

\* The same for names in the context.
LEMMA Ungiven ==
  ASSUME NEW L, NEW k \in Nat, \A p : L[k + 1] # Create(p), \A x : L[k + 1] # Store(x)
  PROVE  \A x : Given(L, x, k + 1) => Given(L, x, k)
  BY OneMore

\* Only names that may be bound are.
LEMMA NamesBound ==
  ASSUME NEW L \in Seq(Steps), NEW k \in 0..Len(L), NEW x, Named(L, x, k)
  PROVE  x \in Bound
<1>1. PICK l \in Nat : Len(L) = l /\ DOMAIN L = 1..l
  BY LenProperties
<1>2. PICK i \in 1..k : L[i] = Bind(x)
  BY DEF Named
<1>3. i \in DOMAIN L /\ L[i] \in Steps
  BY <1>1, <1>2
<1> QED
  BY <1>2, <1>3, IsBind

\* CreatePart, also of the context, which is made of the template.
LEMMA CreateGoesOn ==
  ASSUME OnItsWay, NEW part \in Parts, CreatePart(part)
  PROVE  OnItsWay'
<1>1. Doing(Create(part)) /\ Done /\ start' = start /\ end' = "no"
  BY DEF CreatePart, Doing, console
<1>2. PICK L : L = Life(start)
  OBVIOUS
<1>3. PICK k \in Nat :
        /\ Reached(L, k) /\ k + 1 \in 0..Len(L) /\ L[k + 1] = Create(part)
        /\ todo' = SubSeq(L, (k + 1) + 1, Len(L))
  BY <1>1, <1>2, NextStep
<1>4. /\ live = {p \in Parts : Made(L, p, k)}
      /\ template = {x \in Bound : Named(L, x, k)}
      /\ \A x : Given(L, x, k) => x \in DOMAIN globals
  BY <1>3 DEF Reached
<1>5. live' = {p \in Parts : Made(L, p, k + 1)}
  <2>1. (\A p : L[k + 1] = Create(p) <=> p = part) /\ (\A p : L[k + 1] # Free(p))
    BY <1>3, IsCreate
  <2>2. \A p : Made(L, p, k + 1) <=> p = part \/ Made(L, p, k)
    BY <2>1, OneMore
  <2> QED
    BY <1>4, <2>2 DEF CreatePart
<1>6. template' = {x \in Bound : Named(L, x, k + 1)}
  <2>1. \A x : Named(L, x, k + 1) <=> Named(L, x, k)
    BY <1>3, IsCreate, Unnamed
  <2> QED
    BY <1>4, <2>1 DEF CreatePart
<1>7. \A x : Given(L, x, k + 1) => x \in DOMAIN globals'
  <2>1. \A x : L[k + 1] # Store(x)
    BY <1>3, IsCreate
  <2>2. \A x : Given(L, x, k + 1) =>
               \/ L[k + 1] = Create("context") /\ Named(L, x, k + 1)
               \/ Given(L, x, k) /\ L[k + 1] # Create("context")
    BY <2>1, OneMore
  <2>3. CASE part = "context"
    <3>1. DOMAIN globals' = template'
      BY <2>3 DEF CreatePart
    <3>2. L \in Seq(Steps)
      BY <1>2, LivesInOrder DEF Order
    <3>3. \A x : Given(L, x, k + 1) => Named(L, x, k + 1)
      BY <1>3, <2>2, <2>3
    <3>4. \A x : Named(L, x, k + 1) => x \in Bound
      BY <1>3, <3>2, NamesBound
    <3> QED
      BY <1>6, <3>1, <3>3, <3>4
  <2>4. CASE part # "context"
    <3>1. globals' = globals /\ L[k + 1] # Create("context")
      BY <1>3, <2>4, IsCreate DEF CreatePart
    <3> QED
      BY <1>4, <2>2, <3>1
  <2> QED
    BY <2>3, <2>4
<1>8. Reached(L, k + 1)'
  BY <1>1, <1>3, <1>5, <1>6, <1>7 DEF Reached
<1> QED
  BY <1>1, <1>2, <1>8 DEF OnItsWay

\* FreePart.
LEMMA FreeGoesOn ==
  ASSUME OnItsWay, NEW part \in Parts, FreePart(part)
  PROVE  OnItsWay'
<1>1. Doing(Free(part)) /\ Done /\ start' = start /\ end' = "no"
  BY DEF FreePart, Doing, console
<1>2. PICK L : L = Life(start)
  OBVIOUS
<1>3. PICK k \in Nat :
        /\ Reached(L, k) /\ k + 1 \in 0..Len(L) /\ L[k + 1] = Free(part)
        /\ todo' = SubSeq(L, (k + 1) + 1, Len(L))
  BY <1>1, <1>2, NextStep
<1>4. /\ live = {p \in Parts : Made(L, p, k)}
      /\ template = {x \in Bound : Named(L, x, k)}
      /\ \A x : Given(L, x, k) => x \in DOMAIN globals
  BY <1>3 DEF Reached
<1>5. live' = {p \in Parts : Made(L, p, k + 1)}
  <2>1. (\A p : L[k + 1] = Free(p) <=> p = part) /\ (\A p : L[k + 1] # Create(p))
    BY <1>3, IsFree
  <2>2. \A p : Made(L, p, k + 1) <=> p # part /\ Made(L, p, k)
    BY <2>1, OneMore
  <2> QED
    BY <1>4, <2>2 DEF FreePart
<1>6. template' = {x \in Bound : Named(L, x, k + 1)}
  <2>1. \A x : Named(L, x, k + 1) <=> Named(L, x, k)
    BY <1>3, IsFree, Unnamed
  <2> QED
    BY <1>4, <2>1 DEF FreePart
<1>7. \A x : Given(L, x, k + 1) => x \in DOMAIN globals'
  <2>1. \A x : Given(L, x, k + 1) => Given(L, x, k)
    BY <1>3, IsFree, Ungiven
  <2> QED
    BY <1>4, <2>1 DEF FreePart
<1>8. Reached(L, k + 1)'
  BY <1>1, <1>3, <1>5, <1>6, <1>7 DEF Reached
<1> QED
  BY <1>1, <1>2, <1>8 DEF OnItsWay

\* BindName.
LEMMA BindGoesOn ==
  ASSUME OnItsWay, NEW name \in Bound, BindName(name)
  PROVE  OnItsWay'
<1>1. Doing(Bind(name)) /\ Done /\ start' = start /\ end' = "no"
  BY DEF BindName, Doing, console
<1>2. PICK L : L = Life(start)
  OBVIOUS
<1>3. PICK k \in Nat :
        /\ Reached(L, k) /\ k + 1 \in 0..Len(L) /\ L[k + 1] = Bind(name)
        /\ todo' = SubSeq(L, (k + 1) + 1, Len(L))
  BY <1>1, <1>2, NextStep
<1>4. /\ live = {p \in Parts : Made(L, p, k)}
      /\ template = {x \in Bound : Named(L, x, k)}
      /\ \A x : Given(L, x, k) => x \in DOMAIN globals
  BY <1>3 DEF Reached
<1>5. live' = {p \in Parts : Made(L, p, k + 1)}
  <2>1. \A p : Made(L, p, k + 1) <=> Made(L, p, k)
    BY <1>3, IsBind, Unmade
  <2> QED
    BY <1>4, <2>1 DEF BindName
<1>6. template' = {x \in Bound : Named(L, x, k + 1)}
  <2>1. \A x : L[k + 1] = Bind(x) <=> x = name
    BY <1>3, IsBind
  <2>2. \A x : Named(L, x, k + 1) <=> x = name \/ Named(L, x, k)
    BY <2>1, OneMore
  <2> QED
    BY <1>4, <2>2 DEF BindName
<1>7. \A x : Given(L, x, k + 1) => x \in DOMAIN globals'
  <2>1. \A x : Given(L, x, k + 1) => Given(L, x, k)
    BY <1>3, IsBind, Ungiven
  <2> QED
    BY <1>4, <2>1 DEF BindName
<1>8. Reached(L, k + 1)'
  BY <1>1, <1>3, <1>5, <1>6, <1>7 DEF Reached
<1> QED
  BY <1>1, <1>2, <1>8 DEF OnItsWay

\* StoreGlobal.
LEMMA StoreGoesOn ==
  ASSUME OnItsWay, NEW name \in Hosted, StoreGlobal(name)
  PROVE  OnItsWay'
<1>1. Doing(Store(name)) /\ Done /\ start' = start /\ end' = "no"
  BY DEF StoreGlobal, Doing, console
<1>2. PICK L : L = Life(start)
  OBVIOUS
<1>3. PICK k \in Nat :
        /\ Reached(L, k) /\ k + 1 \in 0..Len(L) /\ L[k + 1] = Store(name)
        /\ todo' = SubSeq(L, (k + 1) + 1, Len(L))
  BY <1>1, <1>2, NextStep
<1>4. /\ live = {p \in Parts : Made(L, p, k)}
      /\ template = {x \in Bound : Named(L, x, k)}
      /\ \A x : Given(L, x, k) => x \in DOMAIN globals
  BY <1>3 DEF Reached
<1>5. live' = {p \in Parts : Made(L, p, k + 1)}
  <2>1. \A p : Made(L, p, k + 1) <=> Made(L, p, k)
    BY <1>3, IsStore, Unmade
  <2> QED
    BY <1>4, <2>1 DEF StoreGlobal
<1>6. template' = {x \in Bound : Named(L, x, k + 1)}
  <2>1. \A x : Named(L, x, k + 1) <=> Named(L, x, k)
    BY <1>3, IsStore, Unnamed
  <2> QED
    BY <1>4, <2>1 DEF StoreGlobal
<1>7. \A x : Given(L, x, k + 1) => x \in DOMAIN globals'
  <2>1. (\A x : L[k + 1] = Store(x) <=> x = name) /\ (\A p : L[k + 1] # Create(p))
    BY <1>3, IsStore
  <2>2. \A x : Given(L, x, k + 1) => x = name \/ Given(L, x, k)
    BY <2>1, OneMore
  <2>3. DOMAIN globals' = DOMAIN globals \cup {name}
    BY DEF StoreGlobal, Set
  <2> QED
    BY <1>4, <2>2, <2>3
<1>8. Reached(L, k + 1)'
  BY <1>1, <1>3, <1>5, <1>6, <1>7 DEF Reached
<1> QED
  BY <1>1, <1>2, <1>8 DEF OnItsWay

\* The steps that run something.
LEMMA RunGoesOn ==
  ASSUME OnItsWay, NEW step \in {SetFlagsFromString, Polyfill, Module}, Doing(step), Done,
         UNCHANGED <<start, live, template, globals, end>>
  PROVE  OnItsWay'
<1>1. end' = "no"
  BY DEF Doing
<1>2. PICK L : L = Life(start)
  OBVIOUS
<1>3. PICK k \in Nat :
        /\ Reached(L, k) /\ k + 1 \in 0..Len(L) /\ L[k + 1] = step
        /\ todo' = SubSeq(L, (k + 1) + 1, Len(L))
  BY <1>1, <1>2, NextStep
<1>4. /\ live = {p \in Parts : Made(L, p, k)}
      /\ template = {x \in Bound : Named(L, x, k)}
      /\ \A x : Given(L, x, k) => x \in DOMAIN globals
  BY <1>3 DEF Reached
<1>5. live' = {p \in Parts : Made(L, p, k + 1)}
  <2>1. \A p : Made(L, p, k + 1) <=> Made(L, p, k)
    BY <1>3, IsRun, Unmade
  <2> QED
    BY <1>4, <2>1
<1>6. template' = {x \in Bound : Named(L, x, k + 1)}
  <2>1. \A x : Named(L, x, k + 1) <=> Named(L, x, k)
    BY <1>3, IsRun, Unnamed
  <2> QED
    BY <1>4, <2>1
<1>7. \A x : Given(L, x, k + 1) => x \in DOMAIN globals'
  <2>1. \A x : Given(L, x, k + 1) => Given(L, x, k)
    BY <1>3, IsRun, Ungiven
  <2> QED
    BY <1>4, <2>1
<1>8. Reached(L, k + 1)'
  BY <1>1, <1>3, <1>5, <1>6, <1>7 DEF Reached
<1> QED
  BY <1>2, <1>8 DEF OnItsWay

\* The steps that do not go on: calls of JavaScript, the loader's, and aborts.
LEMMA StaysThere ==
  ASSUME OnItsWay, UNCHANGED <<start, todo, live, template>>,
         DOMAIN globals \subseteq DOMAIN globals',
         end' = end \/ end' # "exit 0"
  PROVE  OnItsWay'
<1>1. PICK L : L = Life(start)
  OBVIOUS
<1>2. PICK k \in Nat : Reached(L, k)
  BY <1>1 DEF OnItsWay
<1>3. Reached(L, k)'
  BY <1>2 DEF Reached
<1> QED
  BY <1>1, <1>3 DEF OnItsWay

\* Only two steps leave main: of a command line that is refused before anything was
\* done, and of one that is done with everything.
LEMMA LeavesInTime ==
  ASSUME OnItsWay, RefuseArguments \/ ReturnFromMain
  PROVE  OnItsWay'
<1>1. UNCHANGED <<start, todo, live, template, globals>>
  BY DEF RefuseArguments, ReturnFromMain, engine
<1>2. PICK L : L = Life(start)
  OBVIOUS
<1>3. PICK l \in Nat : Len(L) = l /\ L \in Seq(Steps)
  BY <1>2, LivesInOrder, LenProperties DEF Order
<1>4. PICK k \in Nat : Reached(L, k)
  BY <1>2 DEF OnItsWay
<1>5. k \in 0..l /\ todo = SubSeq(L, k + 1, l)
  BY <1>3, <1>4 DEF Reached
<1>6. todo = L \/ todo = << >>
  BY <1>2 DEF RefuseArguments, ReturnFromMain
<1>7. k = l \/ k = 0
  <2>1. PICK rest : rest = todo
    OBVIOUS
  <2>2. rest = SubSeq(L, k + 1, l)
    BY <1>5, <2>1
  <2>3. (rest = << >> <=> k = l) /\ (rest = L => k = 0)
    BY <1>3, <1>5, <2>2, Rest, SMTT(30)
  <2> QED
    BY <1>6, <2>1, <2>3
<1>8. Reached(L, k)'
  BY <1>1, <1>3, <1>4, <1>6, <1>7 DEF Reached
<1> QED
  BY <1>1, <1>2, <1>8 DEF OnItsWay

\* No call ends the process as a return from main does: it aborts or fails a check.
LEMMA CallsStay ==
  ASSUME OnItsWay, Calls
  PROVE  OnItsWay'
<1>1. CASE Log
  <2>1. end' = end \/ end' # "exit 0"
    BY <1>1 DEF Log, Console!formatted_print, Console!CheckFails, Console!NullPrinted,
                Console!Abort
  <2> QED
    BY <1>1, <2>1, StaysThere DEF Log, engine
<1>2. CASE Prompt
  <2>1. end' = end \/ end' # "exit 0"
    BY <1>2 DEF Prompt, Console!prompt, Console!NullPrinted, Console!Abort
  <2> QED
    BY <1>2, <2>1, StaysThere DEF Prompt, engine
<1>3. CASE Query
  <2>1. end' = end \/ end' # "exit 0"
    BY <1>3 DEF Query, Console!query, Console!CheckFails
  <2> QED
    BY <1>3, <2>1, StaysThere DEF Query, engine
<1>4. CASE GetRequest
  <2>1. end' = end \/ end' # "exit 0"
    BY <1>4 DEF GetRequest, Console!Abort
  <2> QED
    BY <1>4, <2>1, StaysThere DEF GetRequest, engine
<1>5. CASE HelloJava
  <2>1. end' = end \/ end' # "exit 0"
    BY <1>5 DEF HelloJava, Console!Abort
  <2> QED
    BY <1>5, <2>1, StaysThere DEF HelloJava, engine
<1>6. CASE AssignGlobal
  <2>1. DOMAIN globals \subseteq DOMAIN globals'
    BY <1>6 DEF AssignGlobal, Set
  <2> QED
    BY <1>6, <2>1, StaysThere DEF AssignGlobal
<1> QED
  BY <1>1, <1>2, <1>3, <1>4, <1>5, <1>6 DEF Calls

\* A process starts before its first step.
LEMMA StartsThere == Init => OnItsWay
<1> SUFFICES ASSUME Init
             PROVE  OnItsWay
  OBVIOUS
<1>1. PICK L : L = Life(start)
  OBVIOUS
<1>2. PICK l \in Nat : Len(L) = l /\ L \in Seq(Steps)
  BY <1>1, LivesInOrder, LenProperties DEF Order
<1>3. 1..0 = {} /\ 0 \in 0..l
  BY <1>2
<1>4. todo = SubSeq(L, 0 + 1, l)
  <2>1. PICK rest : rest = SubSeq(L, 0 + 1, l)
    OBVIOUS
  <2>2. /\ rest \in Seq(Steps) /\ Len(rest) = l
        /\ \A i \in 1..l : rest[i] = L[i]
    <3>1. l - 0 = l /\ \A i \in 1..l : 0 + i = i
      OBVIOUS
    <3>2. /\ rest \in Seq(Steps) /\ Len(rest) = l - 0
          /\ \A i \in 1..(l - 0) : rest[i] = L[0 + i]
      BY <1>2, <1>3, <2>1, From
    <3> QED
      BY <3>1, <3>2
  <2>3. rest = L
    BY <1>2, <2>2, SameList
  <2>4. todo = L
    BY <1>1 DEF Init
  <2> QED
    BY <2>1, <2>3, <2>4
<1>5. \A x : ~Made(L, x, 0) /\ ~Named(L, x, 0) /\ ~Given(L, x, 0)
  BY <1>3 DEF Made, Named, Given
<1>6. live = {} /\ template = {} /\ end = "no"
  BY DEF Init, Console!Init
<1>7. Reached(L, 0)
  BY <1>2, <1>3, <1>4, <1>5, <1>6 DEF Reached
<1> QED
  BY <1>1, <1>7 DEF OnItsWay

\* Every step of Engine keeps the process on its way.
LEMMA GoesOn ==
  ASSUME OnItsWay, [Next]_vars
  PROVE  OnItsWay'
<1>1. CASE RefuseArguments \/ ReturnFromMain
  BY <1>1, LeavesInTime
<1>2. CASE SetFlags
  BY <1>2, RunGoesOn DEF SetFlags, console
<1>3. CASE EndPolyfill
  <2>1. CASE Console!Abort("aborted") /\ UNCHANGED todo
    BY <1>3, <2>1, StaysThere DEF EndPolyfill, Console!Abort
  <2>2. CASE Done /\ UNCHANGED <<pend, screen, end>>
    BY <1>3, <2>2, RunGoesOn DEF EndPolyfill
  <2> QED
    BY <1>3, <2>1, <2>2 DEF EndPolyfill
<1>4. CASE LoadModules
  <2>1. CASE Done /\ UNCHANGED <<pend, screen, end>>
    BY <1>4, <2>1, RunGoesOn DEF LoadModules
  <2>2. CASE UNCHANGED todo /\ (end' = end \/ end' # "exit 0")
    BY <1>4, <2>2, StaysThere DEF LoadModules
  <2>3. \/ Console!Exit("exit 1") /\ UNCHANGED todo
        \/ Console!Abort("aborted") /\ UNCHANGED todo
        \/ Done /\ UNCHANGED <<pend, screen, end>>
        \/ UNCHANGED <<todo, end>>
    BY <1>4 DEF LoadModules
  <2> QED
    BY <2>1, <2>2, <2>3 DEF Console!Exit, Console!Abort
<1>5. ASSUME NEW part \in Parts, CreatePart(part) \/ FreePart(part)
      PROVE  OnItsWay'
  BY <1>5, CreateGoesOn, FreeGoesOn
<1>6. ASSUME NEW name \in {"Winx", "request", "jni"}, BindName(name)
      PROVE  OnItsWay'
  BY <1>6, BindGoesOn DEF Bound
<1>7. ASSUME NEW name \in Hosted, StoreGlobal(name)
      PROVE  OnItsWay'
  BY <1>7, StoreGoesOn
<1>8. CASE Calls
  BY <1>8, CallsStay
<1>9. CASE Answer
  BY <1>9, StaysThere DEF Answer, Console!Answer, engine
<1>10. CASE UNCHANGED vars
  BY <1>10, StaysThere DEF vars, engine, console
<1> QED
  BY <1>1, <1>2, <1>3, <1>4, <1>5, <1>6, <1>7, <1>8, <1>9, <1>10 DEF Next, Process

\* The process is always on its way.
LEMMA OnItsWayHolds == Spec => []OnItsWay
<1>1. Init => OnItsWay
  BY StartsThere
<1>2. OnItsWay /\ [Next]_vars => OnItsWay'
  BY GoesOn
<1> QED
  BY <1>1, <1>2, PTL DEF Spec

\* A part that is made once and freed once is there in between.
LEMMA Span ==
  ASSUME NEW L, NEW l \in Nat, DOMAIN L = 1..l, NEW k \in 0..l, NEW part,
         NEW a \in Nat, NEW b \in Nat, a < b,
         Once(L, Create(part), a), Once(L, Free(part), b)
  PROVE  Made(L, part, k) <=> a <= k /\ k < b
<1>1. ASSUME Made(L, part, k)
      PROVE  a <= k /\ k < b
  <2>1. PICK i \in 1..k : L[i] = Create(part) /\ \A j \in (i + 1)..k : L[j] # Free(part)
    BY <1>1 DEF Made
  <2>2. i \in DOMAIN L /\ i \in Nat
    OBVIOUS
  <2>3. i = a
    BY <2>1, <2>2 DEF Once
  <2>4. L[b] = Free(part)
    BY DEF Once
  <2>5. b \notin (a + 1)..k
    BY <2>1, <2>3, <2>4
  <2> QED
    BY <2>3, <2>5
<1>2. ASSUME a <= k, k < b
      PROVE  Made(L, part, k)
  <2>1. a \in DOMAIN L /\ a \in 1..k /\ L[a] = Create(part)
    BY <1>2 DEF Once
  <2>2. \A j \in (a + 1)..k : j \in DOMAIN L /\ j # b
    BY <1>2, <2>1
  <2>3. \A j \in (a + 1)..k : L[j] # Free(part)
    BY <2>2 DEF Once
  <2> QED
    BY <2>1, <2>3 DEF Made
<1> QED
  BY <1>1, <1>2

\* When the parts are there.  Of the scopes, one is there while JavaScript is to run.
InTheirTime(L, n, c, m, k) ==
  /\ Made(L, "workers", k) <=> 1 <= k /\ k < m + 11
  /\ Made(L, "platform", k) <=> 2 <= k /\ k < m + 9
  /\ Made(L, "v8", k) <=> 4 <= k /\ k < m + 8
  /\ Made(L, "allocator", k) <=> 5 <= k /\ k < m + 10
  /\ Made(L, "isolate", k) <=> 6 <= k /\ k < m + 7
  /\ Made(L, "template", k) <=> n - 1 <= k /\ k < m + 5
  /\ Made(L, "context", k) <=> c <= k /\ k < m + 6
  /\ Made(L, "scope", k) => 7 <= k /\ k < m + 4
  /\ m < k /\ k < m + 4 => Made(L, "scope", k)

\* That is when they are there, in every life.
LEMMA Spans ==
  ASSUME NEW s, NEW L, NEW n \in Nat, NEW c \in Nat, NEW m \in Nat, Order(s, L, n, c, m),
         NEW k \in 0..(m + 11)
  PROVE  InTheirTime(L, n, c, m, k)
<1>1. PICK l \in Nat : l = m + 11
  OBVIOUS
<1>2. DOMAIN L = 1..l /\ k \in 0..l /\ 9 < n /\ n + 1 < c /\ c <= m /\ n - 1 \in Nat
  BY <1>1 DEF Order
<1>3. Made(L, "workers", k) <=> 1 <= k /\ k < m + 11
  BY <1>2, Span, SMTT(30) DEF Order
<1>4. Made(L, "platform", k) <=> 2 <= k /\ k < m + 9
  BY <1>2, Span, SMTT(30) DEF Order
<1>5. Made(L, "v8", k) <=> 4 <= k /\ k < m + 8
  BY <1>2, Span, SMTT(30) DEF Order
<1>6. Made(L, "allocator", k) <=> 5 <= k /\ k < m + 10
  BY <1>2, Span, SMTT(30) DEF Order
<1>7. Made(L, "isolate", k) <=> 6 <= k /\ k < m + 7
  BY <1>2, Span, SMTT(30) DEF Order
<1>8. Made(L, "template", k) <=> n - 1 <= k /\ k < m + 5
  BY <1>2, Span, SMTT(30) DEF Order
<1>9. Made(L, "context", k) <=> c <= k /\ k < m + 6
  BY <1>2, Span, SMTT(30) DEF Order
<1>10. ASSUME Made(L, "scope", k)
       PROVE  7 <= k /\ k < m + 4
  <2>1. PICK i \in 1..k : /\ L[i] = Create("scope")
                          /\ \A j \in (i + 1)..k : L[j] # Free("scope")
    BY <1>10 DEF Made
  <2>2. i \in DOMAIN L
    BY <1>2
  <2>3. 7 <= i /\ i <= m /\ L[m + 4] = Free("scope")
    BY <2>1, <2>2 DEF Order
  <2>4. m + 4 \notin (i + 1)..k
    BY <2>1, <2>3
  <2> QED
    BY <2>3, <2>4
<1>11. ASSUME m < k, k < m + 4
       PROVE  Made(L, "scope", k)
  <2>1. PICK i \in 1..m : /\ L[i] = Create("scope")
                          /\ \A j \in (i + 1)..(m + 3) : L[j] # Free("scope")
    BY DEF Order
  <2>2. i \in 1..k /\ \A j \in (i + 1)..k : j \in (i + 1)..(m + 3)
    BY <1>11
  <2> QED
    BY <2>1, <2>2 DEF Made
<1> QED
  BY <1>3, <1>4, <1>5, <1>6, <1>7, <1>8, <1>9, <1>10, <1>11 DEF InTheirTime

\* JavaScript runs after step m of the life.
LEMMA WhereItRuns ==
  ASSUME NEW s, NEW L, NEW n \in Nat, NEW c \in Nat, NEW m \in Nat, Order(s, L, n, c, m),
         NEW k \in Nat, Reached(L, k), Doing(Polyfill) \/ Doing(Module)
  PROVE  k = m + 1 \/ k = m + 2
<1>1. PICK l \in Nat : l = m + 11
  OBVIOUS
<1>2. L \in Seq(Steps) /\ Len(L) = l /\ k \in 0..l /\ todo = SubSeq(L, k + 1, l)
  BY <1>1 DEF Order, Reached
<1>3. todo # << >> /\ (Head(todo) = Polyfill \/ Head(todo) = Module)
  BY DEF Doing
<1>4. k + 1 \in DOMAIN L /\ Head(todo) = L[k + 1]
  BY <1>2, <1>3, Rest
<1>5. k + 1 = m + 2 \/ k + 1 = m + 3
  BY <1>3, <1>4 DEF Order, Once
<1> QED
  BY <1>5

\* A part of V8 is created after what it needs and freed before it.
LEMMA PartsNest ==
  ASSUME NEW s, NEW L, NEW n \in Nat, NEW c \in Nat, NEW m \in Nat, Order(s, L, n, c, m),
         NEW k \in 0..(m + 11)
  PROVE  \A part \in Parts : Made(L, part, k) =>
           \A need \in Needs[part] : need \in Parts /\ Made(L, need, k)
<1>1. 9 < n /\ n + 1 < c /\ c <= m /\ InTheirTime(L, n, c, m, k)
  BY Spans DEF Order
<1>2. Needs["workers"] = {} /\ Needs["platform"] = {"workers"} /\ Needs["v8"] = {"platform"}
  BY DEF Needs
<1>3. Needs["allocator"] = {} /\ Needs["isolate"] = {"v8", "allocator"}
  BY DEF Needs
<1>4. /\ Needs["template"] = {"isolate"} /\ Needs["scope"] = {"isolate"}
      /\ Needs["context"] = {"isolate"}
  BY DEF Needs
<1>5. /\ Made(L, "platform", k) => Made(L, "workers", k)
      /\ Made(L, "v8", k) => Made(L, "platform", k)
      /\ Made(L, "isolate", k) => Made(L, "v8", k) /\ Made(L, "allocator", k)
      /\ Made(L, "template", k) => Made(L, "isolate", k)
      /\ Made(L, "context", k) => Made(L, "isolate", k)
      /\ Made(L, "scope", k) => Made(L, "isolate", k)
  BY <1>1 DEF InTheirTime
<1> QED
  BY <1>2, <1>3, <1>4, <1>5 DEF Parts

\* Nothing is there before the first step, nor after the last one.
LEMMA NothingLeft ==
  ASSUME NEW s, NEW L, NEW n \in Nat, NEW c \in Nat, NEW m \in Nat, Order(s, L, n, c, m),
         NEW k \in {0, m + 11}
  PROVE  \A part \in Parts : ~Made(L, part, k)
<1>1. k \in 0..(m + 11) /\ 9 < n /\ n + 1 < c /\ c <= m /\ (k = 0 \/ k = m + 11)
  BY DEF Order
<1>2. InTheirTime(L, n, c, m, k)
  BY <1>1, Spans
<1>3. /\ ~Made(L, "workers", k) /\ ~Made(L, "platform", k) /\ ~Made(L, "v8", k)
      /\ ~Made(L, "allocator", k) /\ ~Made(L, "isolate", k)
      /\ ~Made(L, "template", k) /\ ~Made(L, "context", k) /\ ~Made(L, "scope", k)
  BY <1>1, <1>2 DEF InTheirTime
<1> QED
  BY <1>3 DEF Parts

\* Every part of V8 is created after what it needs and freed before it; JavaScript
\* runs in a context and a scope; a return from main leaves nothing behind, for
\* every way to start, program and configuration (winx.cpp:95-104, 154-172, 193-204,
\* jwinx/Winx.cc:39-63).
THEOREM PartsOutliveTheirUsers == Spec => []LifetimesNest
<1>1. OnItsWay => LifetimesNest
  <2> SUFFICES ASSUME OnItsWay
               PROVE  LifetimesNest
    OBVIOUS
  <2>1. PICK L : L = Life(start)
    OBVIOUS
  <2>2. PICK k \in Nat : Reached(L, k)
    BY <2>1 DEF OnItsWay
  <2>3. PICK n, c, m \in Nat : Order(start, L, n, c, m)
    BY <2>1, LivesInOrder
  <2>4. /\ k \in 0..(m + 11) /\ live = {part \in Parts : Made(L, part, k)}
        /\ end = "exit 0" => k \in {0, m + 11}
    BY <2>2, <2>3 DEF Reached, Order
  <2>5. \A part \in live : Needs[part] \subseteq live
    BY <2>3, <2>4, PartsNest
  <2>6. Doing(Polyfill) \/ Doing(Module) => {"context", "scope"} \subseteq live
    <3>1. SUFFICES ASSUME Doing(Polyfill) \/ Doing(Module)
                   PROVE  {"context", "scope"} \subseteq live
      OBVIOUS
    <3>2. (k = m + 1 \/ k = m + 2)
      BY <2>2, <2>3, <3>1, WhereItRuns
    <3>3. c <= m /\ InTheirTime(L, n, c, m, k)
      BY <2>3, <2>4, Spans DEF Order
    <3>4. Made(L, "context", k) /\ Made(L, "scope", k)
      BY <3>2, <3>3 DEF InTheirTime
    <3> QED
      BY <2>4, <3>4 DEF Parts
  <2>7. end = "exit 0" => live = {}
    BY <2>3, <2>4, NothingLeft
  <2> QED
    BY <2>5, <2>6, <2>7 DEF LifetimesNest
<1> QED
  BY <1>1, OnItsWayHolds, PTL

\* By the time JavaScript runs, all names of the host are given to its context.
LEMMA AllGiven ==
  ASSUME NEW s, NEW L, NEW n \in Nat, NEW c \in Nat, NEW m \in Nat, Order(s, L, n, c, m),
         NEW k \in Nat, k = m + 1 \/ k = m + 2
  PROVE  \A x \in BoundNames(s) \cup StoredNames(s) : Given(L, x, k)
<1>1. /\ Once(L, Create("context"), c) /\ c <= m /\ 9 < n /\ n + 1 < c
      /\ DOMAIN L = 1..(m + 11)
  BY DEF Order
<1>2. \A j \in (c + 1)..k : j \in DOMAIN L /\ j # c
  BY <1>1
<1>3. /\ c \in 1..k /\ L[c] = Create("context")
      /\ \A j \in (c + 1)..k : L[j] # Create("context")
  BY <1>1, <1>2 DEF Once
<1>4. ASSUME NEW x \in BoundNames(s)
      PROVE  Given(L, x, k)
  <2>1. PICK i \in 1..(c - 1) : L[i] = Bind(x)
    BY DEF Order
  <2>2. Named(L, x, c)
    BY <2>1 DEF Named
  <2> QED
    BY <1>3, <2>2 DEF Given
<1>5. ASSUME NEW x \in StoredNames(s)
      PROVE  Given(L, x, k)
  <2>1. PICK i \in (c + 1)..(m + 1) : L[i] = Store(x)
    BY DEF Order
  <2>2. i \in 1..k /\ \A j \in (i + 1)..k : j \in (c + 1)..k
    OBVIOUS
  <2> QED
    BY <1>3, <2>1, <2>2 DEF Given
<1> QED
  BY <1>4, <1>5

\* From the first line of the polyfill script on, JavaScript finds every name the
\* host gives it, and what a callback behind such a name works on, for every way to
\* start and whatever the program assigns to (winx.cpp:7, 63-69, jwinx/Winx.cc:46-51).
THEOREM NamesAreGivenFirst == Spec => []GlobalsAreReady
<1>1. OnItsWay => GlobalsAreReady
  <2> SUFFICES ASSUME OnItsWay, Running
               PROVE  /\ {"Winx", "winxEngine"} \subseteq DOMAIN globals
                      /\ start.request # "none" => "request" \in DOMAIN globals
                      /\ start.host = "java" => {"jni", "env", "obj"} \subseteq DOMAIN globals
    BY DEF GlobalsAreReady
  <2>1. Doing(Polyfill) \/ Doing(Module)
    BY DEF Running
  <2>2. PICK L : L = Life(start)
    OBVIOUS
  <2>3. PICK k \in Nat : Reached(L, k)
    BY <2>2 DEF OnItsWay
  <2>4. PICK n, c, m \in Nat : Order(start, L, n, c, m)
    BY <2>2, LivesInOrder
  <2>5. k = m + 1 \/ k = m + 2
    BY <2>1, <2>3, <2>4, WhereItRuns
  <2>6. \A x \in BoundNames(start) \cup StoredNames(start) : x \in DOMAIN globals
    BY <2>3, <2>4, <2>5, AllGiven DEF Reached
  <2> QED
    BY <2>6 DEF BoundNames, StoredNames
<1> QED
  BY <1>1, OnItsWayHolds, PTL
-----------------------------------------------------------------------------
\* The loader of a process.
\* The proofs about ModuleLoader, of the loader of this process.
P == INSTANCE ModuleEndsProofs WITH MaxEdits <- 0

\* A step of the loader means the same in both instances of ModuleLoader.
LEMMA SameSteps == Loader!Step <=> P!Step
<1> USE DEF P!begun, Loader!begun, P!world, Loader!world, P!program, Loader!program,
           P!Read, Loader!Read, P!Empty, Loader!Empty, P!Imports, Loader!Imports,
           P!Body, Loader!Body, P!Awaits, Loader!Awaits, P!Kids, Loader!Kids, P!Top,
           Loader!Top, P!SetTop, Loader!SetTop, P!SetTodo, Loader!SetTodo, P!LoadModule,
           Loader!LoadModule, P!Load, Loader!Load, P!Return, Loader!Return, P!Working,
           Loader!Working, P!InTree, Loader!InTree, P!Tree, Loader!Tree, P!NamesResolve,
           Loader!NamesResolve, P!Evaluating, Loader!Evaluating, P!Ready, Loader!Ready,
           P!InBody, Loader!InBody, P!HasRoom, Loader!HasRoom, P!Next1, Loader!Next1,
           P!Importer, Loader!Importer, P!Told, Loader!Told, P!WaitsFor,
           Loader!WaitsFor, P!Waiting, Loader!Waiting
<1>1. Loader!Start <=> P!Start
  BY Zenon DEF P!Start, Loader!Start
<1>2. Loader!ResolveModuleCallback <=> P!ResolveModuleCallback
  BY Zenon DEF P!ResolveModuleCallback, Loader!ResolveModuleCallback, P!Cardinality, Loader!Cardinality,
                 P!IsFiniteSet, Loader!IsFiniteSet
<1>3. Loader!LinkImports <=> P!LinkImports
  BY Zenon DEF P!LinkImports, Loader!LinkImports
<1>4. Loader!FinishLinking <=> P!FinishLinking
  BY Zenon DEF P!FinishLinking, Loader!FinishLinking
<1>5. Loader!EvaluateImports <=> P!EvaluateImports
  BY Zenon DEF P!EvaluateImports, Loader!EvaluateImports
<1>6. Loader!AwaitImports <=> P!AwaitImports
  BY Zenon DEF P!AwaitImports, Loader!AwaitImports
<1>7. Loader!ResolveDynamicModuleCallback <=> P!ResolveDynamicModuleCallback
  BY Zenon DEF P!ResolveDynamicModuleCallback, Loader!ResolveDynamicModuleCallback
<1>8. Loader!Suspend <=> P!Suspend
  BY Zenon DEF P!Suspend, Loader!Suspend
<1>9. Loader!FinishBody <=> P!FinishBody
  BY Zenon DEF P!FinishBody, Loader!FinishBody
<1>10. Loader!Throw <=> P!Throw
  BY Zenon DEF P!Throw, Loader!Throw
<1>11. Loader!OutOfMemory <=> P!OutOfMemory
  BY Zenon DEF P!OutOfMemory, Loader!OutOfMemory
<1>12. Loader!RunMicrotask <=> P!RunMicrotask
  BY Zenon DEF P!RunMicrotask, Loader!RunMicrotask
<1>13. Loader!FinishEvaluation <=> P!FinishEvaluation
  BY Zenon DEF P!FinishEvaluation, Loader!FinishEvaluation
<1> HIDE DEF P!begun, Loader!begun, P!world, Loader!world, P!program, Loader!program,
            P!Read, Loader!Read, P!Empty, Loader!Empty, P!Imports, Loader!Imports,
            P!Body, Loader!Body, P!Awaits, Loader!Awaits, P!Kids, Loader!Kids, P!Top,
            Loader!Top, P!SetTop, Loader!SetTop, P!SetTodo, Loader!SetTodo,
            P!LoadModule, Loader!LoadModule, P!Load, Loader!Load, P!Return,
            Loader!Return, P!Working, Loader!Working, P!InTree, Loader!InTree, P!Tree,
            Loader!Tree, P!NamesResolve, Loader!NamesResolve, P!Evaluating,
            Loader!Evaluating, P!Ready, Loader!Ready, P!InBody, Loader!InBody,
            P!HasRoom, Loader!HasRoom, P!Next1, Loader!Next1, P!Importer,
            Loader!Importer, P!Told, Loader!Told, P!WaitsFor, Loader!WaitsFor,
            P!Waiting, Loader!Waiting
<1> QED
  BY <1>1, <1>2, <1>3, <1>4, <1>5, <1>6, <1>7, <1>8, <1>9, <1>10, <1>11, <1>12, <1>13,
     Zenon DEF P!Step, Loader!Step

\* Every step of the process is a step of its loader, or leaves the loader alone.
LEMMA LoaderStep ==
  ASSUME [Next]_vars
  PROVE  Loader!Step \/ UNCHANGED loader
<1>1. CASE RefuseArguments \/ ReturnFromMain
  BY <1>1 DEF RefuseArguments, ReturnFromMain
<1>2. CASE SetFlags
  BY <1>2 DEF SetFlags
<1>3. CASE EndPolyfill
  BY <1>3 DEF EndPolyfill
<1>4. CASE LoadModules
  BY <1>4 DEF LoadModules
<1>5. CASE \E part \in Parts : CreatePart(part) \/ FreePart(part)
  BY <1>5 DEF CreatePart, FreePart
<1>6. CASE \E name \in {"Winx", "request", "jni"} : BindName(name)
  BY <1>6 DEF BindName
<1>7. CASE \E name \in Hosted : StoreGlobal(name)
  BY <1>7 DEF StoreGlobal
<1>8. CASE Calls
  BY <1>8 DEF Calls, Log, Prompt, Query, GetRequest, HelloJava, AssignGlobal
<1>9. CASE Answer
  BY <1>9 DEF Answer
<1>10. CASE UNCHANGED vars
  BY <1>10 DEF vars
<1> QED
  BY <1>1, <1>2, <1>3, <1>4, <1>5, <1>6, <1>7, <1>8, <1>9, <1>10 DEF Next, Process

\* A process loads its modules as ModuleLoader says, whatever else it does and in
\* whatever way it ends (winx.cpp:166-170 and 192-197).
THEOREM LoadsAsTheLoader == Spec => Loader!Spec
<1>1. Init => Loader!Init
  BY DEF Init
<1>2. [Next]_vars => [Loader!Next]_(Loader!vars)
  BY LoaderStep DEF Loader!Next, Loader!vars, loader
<1> QED
  BY <1>1, <1>2, PTL DEF Spec, Loader!Spec

\* The same of the instance that the proofs are about.
LEMMA LoadsAsProved == Spec => P!Spec
<1>1. Init => P!Init
  BY Zenon DEF Init, Loader!Init, P!Init
<1>2. [Next]_vars => [P!Next]_(P!vars)
  BY LoaderStep, SameSteps DEF P!Next, P!vars, loader
<1> QED
  BY <1>1, <1>2, PTL DEF Spec, P!Spec

\* So all that is proved of the loader is true in a process: of whole graphs, each
\* body once, with every import() answered and nothing left waiting, and as its
\* status says (winx_modules.cpp:17-71, winx.cpp:166-170).
THEOREM ProcessesLoadAsProved ==
  Spec => [](/\ Loader!TypeOK /\ Loader!RunsOnlyWholeGraphs /\ Loader!ImportsAreAnswered
             /\ Loader!NoBodyRunsTwice /\ Loader!NothingIsLeftWaiting
             /\ Loader!CyclesNeverRun /\ Loader!StatusTellsLoadFailures
             /\ Loader!ImportedCodeHasRun)
<1>1. P!LoaderAssumption
  BY EngineAssumption DEF Loader!LoaderAssumption, P!LoaderAssumption,
     P!Source, Loader!Source, P!Paths, Loader!Paths
<1> USE DEF P!begun, Loader!begun, P!Paths, Loader!Paths, P!Id, Loader!Id, P!Empty,
           Loader!Empty, P!Imports, Loader!Imports, P!Body, Loader!Body, P!Awaits,
           Loader!Awaits, P!Top, Loader!Top, P!InTree, Loader!InTree, P!Tree,
           Loader!Tree, P!NamesResolve, Loader!NamesResolve, P!Evaluating,
           Loader!Evaluating, P!Ready, Loader!Ready, P!InBody, Loader!InBody
<1>2. P!RunsOnlyWholeGraphs <=> Loader!RunsOnlyWholeGraphs
  BY Zenon DEF P!RunsOnlyWholeGraphs, Loader!RunsOnlyWholeGraphs
<1>3. P!ImportsAreAnswered <=> Loader!ImportsAreAnswered
  BY Zenon DEF P!ImportsAreAnswered, Loader!ImportsAreAnswered
<1>4. P!NoBodyRunsTwice <=> Loader!NoBodyRunsTwice
  BY Zenon DEF P!NoBodyRunsTwice, Loader!NoBodyRunsTwice
<1>5. P!NothingIsLeftWaiting <=> Loader!NothingIsLeftWaiting
  BY Zenon DEF P!NothingIsLeftWaiting, Loader!NothingIsLeftWaiting
<1>6. P!CyclesNeverRun <=> Loader!CyclesNeverRun
  BY Zenon DEF P!CyclesNeverRun, Loader!CyclesNeverRun
<1>7. P!StatusTellsLoadFailures <=> Loader!StatusTellsLoadFailures
  BY Zenon DEF P!StatusTellsLoadFailures, Loader!StatusTellsLoadFailures
<1>8. P!ImportedCodeHasRun <=> Loader!ImportedCodeHasRun
  BY Zenon DEF P!ImportedCodeHasRun, Loader!ImportedCodeHasRun
<1>9. P!TypeOK <=> Loader!TypeOK
  BY Zenon DEF P!TypeOK, Loader!TypeOK
<1> HIDE DEF P!begun, Loader!begun, P!Paths, Loader!Paths, P!Id, Loader!Id, P!Empty,
            Loader!Empty, P!Imports, Loader!Imports, P!Body, Loader!Body, P!Awaits,
            Loader!Awaits, P!Top, Loader!Top, P!InTree, Loader!InTree, P!Tree,
            Loader!Tree, P!NamesResolve, Loader!NamesResolve, P!Evaluating,
            Loader!Evaluating, P!Ready, Loader!Ready, P!InBody, Loader!InBody
<1>10. P!Spec => []P!TypeOK
  BY <1>1, P!TypesHold, PTL
<1>11. P!Spec => []P!RunsOnlyWholeGraphs
  BY <1>1, P!OnlyWholeGraphsRun, PTL
<1>12. P!Spec => []P!ImportsAreAnswered
  BY <1>1, P!ImportsGetAnswers, PTL
<1>13. P!Spec => []P!NoBodyRunsTwice
  BY <1>1, P!BodiesRunOnce, PTL
<1>14. P!Spec => []P!NothingIsLeftWaiting
  BY <1>1, P!NobodyIsLeftWaiting, PTL
<1>15. P!Spec => []P!CyclesNeverRun
  BY <1>1, P!CyclesAreNotRun, PTL
<1>16. P!Spec => []P!StatusTellsLoadFailures
  BY <1>1, P!StatusTellsWhatLoaded, PTL
<1>17. P!Spec => []P!ImportedCodeHasRun
  BY <1>1, P!ImportedCodeRan, PTL
<1> QED
  BY <1>2, <1>3, <1>4, <1>5, <1>6, <1>7, <1>8, <1>9, <1>10, <1>11, <1>12, <1>13, <1>14,
     <1>15, <1>16, <1>17, LoadsAsProved, PTL

-----------------------------------------------------------------------------
(* The exit status.                                                        *)

\* A step is still to be done.
Left(step) == \E i \in DOMAIN todo : todo[i] = step

\* How the process and its loader stand, at any time.
Told ==
  /\ end = "no" => status = IF Left(Module) THEN "running" ELSE "exit 0"
  /\ ExitStatusTellsLoading
  /\ start.args = "bad" => todo = Life(start)

\* What is still to do is a list of steps, in which the loading is behind k more steps
\* of the life or not at all.
LEMMA StillToDo ==
  ASSUME OnItsWay
  PROVE  /\ todo \in Seq(Steps)
         /\ \E L \in Seq(Steps), k, m \in Nat :
              /\ L = Life(start) /\ DOMAIN L = 1..(m + 11) /\ k \in 0..(m + 11)
              /\ Len(todo) = (m + 11) - k
              /\ \A i \in 1..((m + 11) - k) : todo[i] = L[k + i]
              /\ Once(L, Create("workers"), 1) /\ Once(L, SetFlagsFromString, 3)
              /\ Once(L, Module, m + 3)
<1>1. PICK L : L = Life(start)
  OBVIOUS
<1>2. PICK k \in Nat : Reached(L, k)
  BY <1>1 DEF OnItsWay
<1>3. PICK n, c, m \in Nat : Order(start, L, n, c, m)
  BY <1>1, LivesInOrder
<1>4. PICK l \in Nat : l = m + 11
  OBVIOUS
<1>5. /\ L \in Seq(Steps) /\ Len(L) = l /\ DOMAIN L = 1..l
      /\ Once(L, Create("workers"), 1) /\ Once(L, SetFlagsFromString, 3)
      /\ Once(L, Module, m + 3)
  BY <1>3, <1>4 DEF Order
<1>6. k \in 0..l /\ todo = SubSeq(L, k + 1, l)
  BY <1>2, <1>5 DEF Reached
<1>7. /\ SubSeq(L, k + 1, l) \in Seq(Steps) /\ Len(SubSeq(L, k + 1, l)) = l - k
      /\ \A i \in 1..(l - k) : SubSeq(L, k + 1, l)[i] = L[k + i]
  BY <1>5, <1>6, From
<1>8. /\ todo \in Seq(Steps) /\ Len(todo) = l - k
      /\ \A i \in 1..(l - k) : todo[i] = L[k + i]
  BY <1>6, <1>7
<1> QED
  BY <1>1, <1>4, <1>5, <1>6, <1>8

\* A process whose command line is refused does nothing.
LEMMA RefusedDoesNothing ==
  ASSUME OnItsWay, Told, NEW step, Doing(step), step # Create("workers")
  PROVE  start.args # "bad"
<1> SUFFICES ASSUME start.args = "bad"
             PROVE  FALSE
  OBVIOUS
<1>1. PICK L \in Seq(Steps), m \in Nat :
        L = Life(start) /\ DOMAIN L = 1..(m + 11) /\ Once(L, Create("workers"), 1)
  BY StillToDo
<1>2. todo = L
  BY <1>1 DEF Told
<1>3. 1 \in DOMAIN L /\ L[1] = Create("workers") /\ L # << >> /\ Head(L) = L[1]
  BY <1>1 DEF Once
<1> QED
  BY <1>2, <1>3 DEF Doing

\* A step leaves the others that are to be done.
LEMMA OthersAreLeft ==
  ASSUME OnItsWay, NEW step, NEW other, Doing(step), Done, step # other
  PROVE  Left(other)' <=> Left(other)
<1>1. todo \in Seq(Steps) /\ todo # << >> /\ Head(todo) = step /\ todo' = Tail(todo)
  BY StillToDo DEF Doing, Done
<1>2. PICK t \in Seq(Steps) : t = todo /\ t # << >> /\ t[1] # other
  BY <1>1
<1>3. PICK u : u = Tail(t)
  OBVIOUS
<1>4. PICK l \in Nat : l = Len(t) /\ DOMAIN t = 1..l /\ 1 <= l
  BY <1>2, LenProperties, EmptySeq
<1>5. DOMAIN u = 1..(l - 1) /\ \A i \in 1..(l - 1) : u[i] = t[i + 1]
  BY <1>2, <1>3, <1>4, HeadTailProperties, LenProperties
<1>6. (\E i \in DOMAIN u : u[i] = other) <=> (\E i \in DOMAIN t : t[i] = other)
  <2>1. ASSUME NEW i \in DOMAIN u, u[i] = other
        PROVE  i + 1 \in DOMAIN t /\ t[i + 1] = other
    BY <1>4, <1>5, <2>1
  <2>2. ASSUME NEW i \in DOMAIN t, t[i] = other
        PROVE  i - 1 \in DOMAIN u /\ u[i - 1] = other
    BY <1>2, <1>4, <1>5, <2>2
  <2> QED
    BY <2>1, <2>2
<1>7. todo' = u
  BY <1>1, <1>2, <1>3
<1> QED
  BY <1>2, <1>6, <1>7 DEF Left

\* A step that is once in the life of a process is done once.
LEMMA DoneOnce ==
  ASSUME OnItsWay, NEW step, Doing(step), Done, step \in {SetFlagsFromString, Module}
  PROVE  Left(step) /\ ~Left(step)'
<1>1. PICK L \in Seq(Steps), k \in Nat, m \in Nat, o \in Nat :
        /\ DOMAIN L = 1..(m + 11) /\ k \in 0..(m + 11)
        /\ Len(todo) = (m + 11) - k
        /\ \A i \in 1..((m + 11) - k) : todo[i] = L[k + i]
        /\ Once(L, step, o)
  <2>1. PICK L \in Seq(Steps), k \in Nat, m \in Nat :
          /\ DOMAIN L = 1..(m + 11) /\ k \in 0..(m + 11)
          /\ Len(todo) = (m + 11) - k
          /\ \A i \in 1..((m + 11) - k) : todo[i] = L[k + i]
          /\ Once(L, SetFlagsFromString, 3) /\ Once(L, Module, m + 3)
    BY StillToDo
  <2>2. \E o \in Nat : Once(L, step, o)
    BY <2>1
  <2> QED
    BY <2>1, <2>2
<1>2. todo \in Seq(Steps) /\ todo # << >> /\ Head(todo) = step /\ todo' = Tail(todo)
  BY StillToDo DEF Doing, Done
<1>3. PICK t \in Seq(Steps) : t = todo /\ t # << >> /\ t[1] = step
  BY <1>2
<1>4. PICK u : u = Tail(t)
  OBVIOUS
<1>5. PICK l \in Nat : l = Len(t) /\ DOMAIN t = 1..l /\ 1 <= l
  BY <1>3, LenProperties, EmptySeq
<1>6. DOMAIN u = 1..(l - 1) /\ \A i \in 1..(l - 1) : u[i] = t[i + 1]
  BY <1>3, <1>4, <1>5, HeadTailProperties, LenProperties
<1>7. l = (m + 11) - k /\ \A i \in 1..l : t[i] = L[k + i]
  BY <1>1, <1>3, <1>5
<1>8. \A i \in 1..l : k + i \in DOMAIN L /\ (t[i] = step => k + i = o)
  BY <1>1, <1>7 DEF Once
<1>9. k + 1 = o
  BY <1>3, <1>5, <1>8
<1>10. ASSUME NEW i \in DOMAIN u
       PROVE  u[i] # step
  <2>1. i + 1 \in 1..l /\ u[i] = t[i + 1] /\ k + (i + 1) # o
    BY <1>5, <1>6, <1>9
  <2> QED
    BY <1>8, <2>1
<1>11. todo' = u /\ 1 \in DOMAIN t
  BY <1>2, <1>3, <1>4, <1>5
<1> QED
  BY <1>3, <1>10, <1>11 DEF Left

\* A step that is neither the loading nor the end.
LEMMA StepTold ==
  ASSUME OnItsWay, Told, NEW step, Doing(step), Done, step # Module,
         start.args # "bad", UNCHANGED <<start, status, end>>
  PROVE  Told'
<1>1. Left(Module)' <=> Left(Module)
  BY OthersAreLeft
<1> QED
  BY <1>1 DEF Told, ExitStatusTellsLoading, Doing

\* A step that leaves the loading alone, or aborts.
LEMMA RestTold ==
  ASSUME Told, UNCHANGED <<start, todo, status>>,
         end' = end \/ (end = "no" /\ end' \notin {"no", "exit 0", "exit 1"})
  PROVE  Told'
<1>1. Left(Module)' <=> Left(Module)
  BY DEF Left
<1> QED
  BY <1>1 DEF Told, ExitStatusTellsLoading

\* A return from main, or from the parser of the command line.
LEMMA LeavingTold ==
  ASSUME OnItsWay, Told, RefuseArguments \/ ReturnFromMain
  PROVE  Told'
<1>1. /\ UNCHANGED <<start, todo, status>> /\ end = "no" /\ end' = "exit 0"
  BY DEF RefuseArguments, ReturnFromMain, Console!Exit, engine, loader
<1>2. PICK L \in Seq(Steps), m \in Nat :
        L = Life(start) /\ DOMAIN L = 1..(m + 11) /\ Once(L, Module, m + 3)
  BY StillToDo
<1>3. L # << >> /\ m + 3 \in DOMAIN L /\ L[m + 3] = Module
  BY <1>2 DEF Once
<1>4. CASE RefuseArguments
  <2>1. start.args = "bad" /\ todo = L
    BY <1>2, <1>4 DEF RefuseArguments
  <2>2. Left(Module)
    BY <1>3, <2>1 DEF Left
  <2> QED
    BY <1>1, <2>1, <2>2 DEF Told, ExitStatusTellsLoading
<1>5. CASE ReturnFromMain
  <2>1. todo = << >>
    BY <1>5 DEF ReturnFromMain
  <2>2. DOMAIN << >> = {}
    OBVIOUS
  <2>3. ~Left(Module)
    BY <2>1, <2>2 DEF Left
  <2>4. start.args # "bad"
    BY <1>2, <1>3, <2>1 DEF Told
  <2> QED
    BY <1>1, <2>3, <2>4 DEF Told, ExitStatusTellsLoading
<1> QED
  BY <1>4, <1>5

\* A step of the loader.
LEMMA LoadingTold ==
  ASSUME OnItsWay, Told, LoadModules
  PROVE  Told'
<1>1. Doing(Module) /\ end = "no" /\ UNCHANGED start
  BY DEF LoadModules, Doing
<1>2. start.args # "bad"
  BY <1>1, RefusedDoesNothing DEF Create, Module
<1>3. todo \in Seq(Steps) /\ todo # << >> /\ todo[1] = Module
  BY <1>1, StillToDo DEF Doing
<1>4. Left(Module)
  BY <1>3, EmptySeq, LenProperties DEF Left
<1>5. CASE status' = "exit 1" /\ Console!Exit("exit 1") /\ UNCHANGED todo
  BY <1>1, <1>2, <1>5 DEF Told, ExitStatusTellsLoading, Console!Exit
<1>6. CASE status' = "aborted" /\ Console!Abort("aborted") /\ UNCHANGED todo
  BY <1>1, <1>2, <1>6 DEF Told, ExitStatusTellsLoading, Console!Abort
<1>7. CASE status' = "exit 0" /\ Done /\ UNCHANGED <<pend, screen, end>>
  <2>1. ~Left(Module)'
    BY <1>1, <1>7, DoneOnce
  <2> QED
    BY <1>1, <1>2, <1>7, <2>1 DEF Told, ExitStatusTellsLoading
<1>8. CASE status' = "running" /\ UNCHANGED <<todo, end>>
  <2>1. Left(Module)'
    BY <1>4, <1>8 DEF Left
  <2> QED
    BY <1>1, <1>2, <1>8, <2>1 DEF Told, ExitStatusTellsLoading
<1> QED
  BY <1>5, <1>6, <1>7, <1>8 DEF LoadModules

\* The calls of JavaScript end the process in other ways.
LEMMA CallsTold ==
  ASSUME Told, Calls
  PROVE  Told'
<1>1. CASE Log
  <2>1. end' = end \/ (end = "no" /\ end' \notin {"no", "exit 0", "exit 1"})
    BY <1>1 DEF Log, Console!formatted_print, Console!CheckFails, Console!NullPrinted,
                Console!Abort, Console!Call
  <2> QED
    BY <1>1, <2>1, RestTold DEF Log, engine, loader
<1>2. CASE Prompt
  <2>1. end' = end \/ (end = "no" /\ end' \notin {"no", "exit 0", "exit 1"})
    BY <1>2 DEF Prompt, Console!prompt, Console!NullPrinted, Console!Abort, Console!Call
  <2> QED
    BY <1>2, <2>1, RestTold DEF Prompt, engine, loader
<1>3. CASE Query
  <2>1. end' = end \/ (end = "no" /\ end' \notin {"no", "exit 0", "exit 1"})
    BY <1>3 DEF Query, Console!query, Console!CheckFails, Console!Call
  <2> QED
    BY <1>3, <2>1, RestTold DEF Query, engine, loader
<1>4. CASE GetRequest
  <2>1. end' = end \/ (end = "no" /\ end' \notin {"no", "exit 0", "exit 1"})
    BY <1>4 DEF GetRequest, Console!Abort, Console!Call
  <2> QED
    BY <1>4, <2>1, RestTold DEF GetRequest, engine, loader
<1>5. CASE HelloJava
  <2>1. end' = end \/ (end = "no" /\ end' \notin {"no", "exit 0", "exit 1"})
    BY <1>5 DEF HelloJava, Console!Abort, Console!Call
  <2> QED
    BY <1>5, <2>1, RestTold DEF HelloJava, engine, loader
<1>6. CASE AssignGlobal
  BY <1>6, RestTold DEF AssignGlobal, loader
<1> QED
  BY <1>1, <1>2, <1>3, <1>4, <1>5, <1>6 DEF Calls

\* Told holds at the start, and every step of Engine keeps it.
LEMMA ToldHolds == Spec => []Told
<1>1. Init => Told
  <2> SUFFICES ASSUME Init
               PROVE  Told
    OBVIOUS
  <2>1. PICK L \in Seq(Steps), m \in Nat :
          L = Life(start) /\ DOMAIN L = 1..(m + 11) /\ Once(L, Module, m + 3)
    BY StartsThere, StillToDo
  <2>2. Left(Module)
    BY <2>1 DEF Left, Init, Once
  <2>3. todo = Life(start) /\ end = "no" /\ status = "running"
    BY DEF Init, Console!Init, Loader!Init
  <2> QED
    BY <2>2, <2>3 DEF Told, ExitStatusTellsLoading
<1>2. OnItsWay /\ Told /\ [Next]_vars => Told'
  <2> SUFFICES ASSUME OnItsWay, Told, [Next]_vars
               PROVE  Told'
    OBVIOUS
  <2>1. CASE RefuseArguments \/ ReturnFromMain
    BY <2>1, LeavingTold
  <2>2. CASE SetFlags
    <3>1. Doing(SetFlagsFromString) /\ Done /\ UNCHANGED <<start, status, end>>
      BY <2>2 DEF SetFlags, loader, console
    <3>2. SetFlagsFromString # Create("workers") /\ SetFlagsFromString # Module
      BY DEF SetFlagsFromString, Create, Module
    <3> QED
      BY <3>1, <3>2, RefusedDoesNothing, StepTold
  <2>3. CASE EndPolyfill
    <3>1. /\ Doing(Polyfill) /\ end = "no" /\ UNCHANGED <<start, status>>
          /\ \/ Done /\ UNCHANGED end
             \/ end' = "aborted" /\ UNCHANGED todo
      BY <2>3 DEF EndPolyfill, Console!Abort, loader, Doing
    <3>2. Polyfill # Create("workers") /\ Polyfill # Module
      BY DEF Polyfill, Create, Module
    <3>3. CASE Done /\ UNCHANGED end
      BY <3>1, <3>2, <3>3, RefusedDoesNothing, StepTold
    <3>4. CASE end' = "aborted" /\ UNCHANGED todo
      BY <3>1, <3>4, RestTold
    <3> QED
      BY <3>1, <3>3, <3>4
  <2>4. CASE LoadModules
    BY <2>4, LoadingTold
  <2>5. ASSUME NEW part \in Parts, CreatePart(part)
        PROVE  Told'
    <3>1. Doing(Create(part)) /\ Done /\ UNCHANGED <<start, status, end>>
      BY <2>5 DEF CreatePart, loader, console
    <3>2. start.args # "bad"
      BY <2>5 DEF CreatePart, Told
    <3>3. Create(part) # Module
      BY DEF Create, Module
    <3> QED
      BY <3>1, <3>2, <3>3, StepTold
  <2>6. ASSUME NEW part \in Parts, FreePart(part)
        PROVE  Told'
    <3>1. Doing(Free(part)) /\ Done /\ UNCHANGED <<start, status, end>>
      BY <2>6 DEF FreePart, loader, console
    <3>2. Free(part) # Create("workers") /\ Free(part) # Module
      BY DEF Free, Create, Module
    <3> QED
      BY <3>1, <3>2, RefusedDoesNothing, StepTold
  <2>7. ASSUME NEW name \in {"Winx", "request", "jni"}, BindName(name)
        PROVE  Told'
    <3>1. Doing(Bind(name)) /\ Done /\ UNCHANGED <<start, status, end>>
      BY <2>7 DEF BindName, loader, console
    <3>2. Bind(name) # Create("workers") /\ Bind(name) # Module
      BY DEF Bind, Create, Module
    <3> QED
      BY <3>1, <3>2, RefusedDoesNothing, StepTold
  <2>8. ASSUME NEW name \in Hosted, StoreGlobal(name)
        PROVE  Told'
    <3>1. Doing(Store(name)) /\ Done /\ UNCHANGED <<start, status, end>>
      BY <2>8 DEF StoreGlobal, loader, console
    <3>2. Store(name) # Create("workers") /\ Store(name) # Module
      BY DEF Store, Create, Module
    <3> QED
      BY <3>1, <3>2, RefusedDoesNothing, StepTold
  <2>9. CASE Calls
    BY <2>9, CallsTold
  <2>10. CASE Answer
    BY <2>10, RestTold DEF Answer, Console!Answer, engine, loader
  <2>11. CASE UNCHANGED vars
    BY <2>11, RestTold DEF vars, engine, loader, console
  <2> QED
    BY <2>1, <2>2, <2>3, <2>4, <2>5, <2>6, <2>7, <2>8, <2>9, <2>10, <2>11 DEF Next, Process
<1> QED
  BY <1>1, <1>2, OnItsWayHolds, PTL DEF Spec

\* The exit status of a process tells a shell how loading went (winx.cpp:178-211,
\* winx_modules.cpp:26 and 36).
THEOREM ShellsAreTold == Spec => []ExitStatusTellsLoading
<1>1. Told => ExitStatusTellsLoading
  BY DEF Told
<1> QED
  BY <1>1, ToldHolds, PTL

-----------------------------------------------------------------------------
(* V8's flags.                                                             *)

\* The proofs about the configuration.
C == INSTANCE ConfigProofs

\* V8's flags are what V8 makes of the configuration, once it was given it.
FlagsStand ==
  /\ Left(SetFlagsFromString) => flags = [f \in DOMAIN Flags |-> None]
  /\ ~Left(SetFlagsFromString) =>
       flags = Config!SetFlagsFromString(Config!get_v8_flags(start.config))

\* What every step does to the list of steps and to the flags.
LEMMA StepsOneByOne ==
  ASSUME [Next]_vars
  PROVE  \/ SetFlags
         \/ UNCHANGED <<start, todo, flags>>
         \/ \E step : /\ Doing(step) /\ Done /\ step # SetFlagsFromString
                      /\ UNCHANGED <<start, flags>>
<1>1. CASE RefuseArguments \/ ReturnFromMain
  BY <1>1 DEF RefuseArguments, ReturnFromMain, engine
<1>2. CASE SetFlags
  BY <1>2
<1>3. CASE EndPolyfill
  <2>1. UNCHANGED todo \/ Done
    BY <1>3 DEF EndPolyfill
  <2>2. Doing(Polyfill) /\ UNCHANGED <<start, flags>>
    BY <1>3 DEF EndPolyfill
  <2>3. Polyfill # SetFlagsFromString
    BY DEF Polyfill, SetFlagsFromString
  <2> QED
    BY <2>1, <2>2, <2>3
<1>4. CASE LoadModules
  <2>1. UNCHANGED todo \/ Done
    BY <1>4 DEF LoadModules
  <2>2. Doing(Module) /\ UNCHANGED <<start, flags>>
    BY <1>4 DEF LoadModules
  <2>3. Module # SetFlagsFromString
    BY DEF Module, SetFlagsFromString
  <2> QED
    BY <2>1, <2>2, <2>3
<1>5. ASSUME NEW part \in Parts, CreatePart(part)
      PROVE  \E step : /\ Doing(step) /\ Done /\ step # SetFlagsFromString
                       /\ UNCHANGED <<start, flags>>
  <2>1. Create(part) # SetFlagsFromString
    BY DEF Create, SetFlagsFromString
  <2> QED
    BY <1>5, <2>1 DEF CreatePart
<1>6. ASSUME NEW part \in Parts, FreePart(part)
      PROVE  \E step : /\ Doing(step) /\ Done /\ step # SetFlagsFromString
                       /\ UNCHANGED <<start, flags>>
  <2>1. Free(part) # SetFlagsFromString
    BY DEF Free, SetFlagsFromString
  <2> QED
    BY <1>6, <2>1 DEF FreePart
<1>7. ASSUME NEW name, BindName(name)
      PROVE  \E step : /\ Doing(step) /\ Done /\ step # SetFlagsFromString
                       /\ UNCHANGED <<start, flags>>
  <2>1. Bind(name) # SetFlagsFromString
    BY DEF Bind, SetFlagsFromString
  <2> QED
    BY <1>7, <2>1 DEF BindName
<1>8. ASSUME NEW name, StoreGlobal(name)
      PROVE  \E step : /\ Doing(step) /\ Done /\ step # SetFlagsFromString
                       /\ UNCHANGED <<start, flags>>
  <2>1. Store(name) # SetFlagsFromString
    BY DEF Store, SetFlagsFromString
  <2> QED
    BY <1>8, <2>1 DEF StoreGlobal
<1>9. CASE Calls
  BY <1>9 DEF Calls, Log, Prompt, Query, GetRequest, HelloJava, AssignGlobal, engine
<1>10. CASE Answer
  BY <1>10 DEF Answer, engine
<1>11. CASE UNCHANGED vars
  BY <1>11 DEF vars, engine
<1> QED
  BY <1>1, <1>2, <1>3, <1>4, <1>5, <1>6, <1>7, <1>8, <1>9, <1>10, <1>11 DEF Next, Process

\* FlagsStand holds at the start, and every step of Engine keeps it.
LEMMA FlagsStandHolds == Spec => []FlagsStand
<1>1. Init => FlagsStand
  <2> SUFFICES ASSUME Init
               PROVE  FlagsStand
    OBVIOUS
  <2>1. PICK L \in Seq(Steps), m \in Nat :
          L = Life(start) /\ DOMAIN L = 1..(m + 11) /\ Once(L, SetFlagsFromString, 3)
    BY StartsThere, StillToDo
  <2>2. Left(SetFlagsFromString)
    BY <2>1 DEF Left, Init, Once
  <2> QED
    BY <2>2 DEF Init, FlagsStand
<1>2. OnItsWay /\ FlagsStand /\ [Next]_vars => FlagsStand'
  <2> SUFFICES ASSUME OnItsWay, FlagsStand, [Next]_vars
               PROVE  FlagsStand'
    OBVIOUS
  <2>1. CASE SetFlags
    <3>1. /\ Doing(SetFlagsFromString) /\ Done /\ UNCHANGED start
          /\ flags' = Config!SetFlagsFromString(Config!get_v8_flags(start.config))
      BY <2>1 DEF SetFlags
    <3>2. ~Left(SetFlagsFromString)'
      BY <3>1, DoneOnce
    <3> QED
      BY <3>1, <3>2 DEF FlagsStand
  <2>2. CASE UNCHANGED <<start, todo, flags>>
    BY <2>2 DEF FlagsStand, Left
  <2>3. CASE \E step : /\ Doing(step) /\ Done /\ step # SetFlagsFromString
                       /\ UNCHANGED <<start, flags>>
    <3>1. Left(SetFlagsFromString)' <=> Left(SetFlagsFromString)
      BY <2>3, OthersAreLeft
    <3> QED
      BY <2>3, <3>1 DEF FlagsStand
  <2> QED
    BY <2>1, <2>2, <2>3, StepsOneByOne
<1> QED
  BY <1>1, <1>2, OnItsWayHolds, PTL DEF Spec

\* V8 has its flags when it starts.
LEMMA FlagsBeforeV8 ==
  ASSUME OnItsWay, "v8" \in live
  PROVE  ~Left(SetFlagsFromString)
<1>1. PICK L : L = Life(start)
  OBVIOUS
<1>2. PICK k \in Nat : Reached(L, k)
  BY <1>1 DEF OnItsWay
<1>3. PICK n \in Nat, c \in Nat, m \in Nat : Order(start, L, n, c, m)
  BY <1>1, LivesInOrder
<1>4. k \in 0..(m + 11) /\ live = {part \in Parts : Made(L, part, k)}
  BY <1>2, <1>3 DEF Reached, Order
<1>5. InTheirTime(L, n, c, m, k)
  BY <1>3, <1>4, Spans DEF Order
<1>6. 4 <= k
  BY <1>4, <1>5 DEF InTheirTime
<1>7. PICK l \in Nat : l = m + 11
  OBVIOUS
<1>8. L \in Seq(Steps) /\ Len(L) = l /\ DOMAIN L = 1..l /\ Once(L, SetFlagsFromString, 3)
  BY <1>3, <1>7 DEF Order
<1>9. todo = SubSeq(L, k + 1, l) /\ k \in 0..l
  BY <1>2, <1>8 DEF Reached
<1>10. /\ SubSeq(L, k + 1, l) \in Seq(Steps) /\ Len(SubSeq(L, k + 1, l)) = l - k
       /\ \A i \in 1..(l - k) : SubSeq(L, k + 1, l)[i] = L[k + i]
  BY <1>8, <1>9, From
<1>11. DOMAIN todo = 1..(l - k) /\ \A i \in 1..(l - k) : todo[i] = L[k + i]
  BY <1>9, <1>10, LenProperties
<1>12. \A i \in 1..(l - k) : k + i \in DOMAIN L /\ k + i # 3
  BY <1>6, <1>8, <1>9
<1> QED
  BY <1>8, <1>11, <1>12 DEF Left, Once

\* Both instances of Config mean the same flags.
LEMMA SameFlags ==
  ASSUME NEW config
  PROVE  C!SetFlagsFromString(C!get_v8_flags(config)) =
           Config!SetFlagsFromString(Config!get_v8_flags(config))
  BY Zenon DEF C!SetFlagsFromString, Config!SetFlagsFromString, C!get_v8_flags, Config!get_v8_flags,
     C!Reading, Config!Reading, C!Written, Config!Written, C!TakeWord, Config!TakeWord,
     C!SetFlag, Config!SetFlag, C!Reads, Config!Reads, C!Garbled, Config!Garbled,
     C!Words, Config!Words, C!Word, Config!Word, C!BoolWord, Config!BoolWord

\* A process is started once.
LEMMA StartsAsGiven == Spec => [](start \in Starts)
<1>1. Init => start \in Starts
  BY DEF Init
<1>2. start \in Starts /\ [Next]_vars => (start \in Starts)'
  BY StepsOneByOne DEF SetFlags
<1> QED
  BY <1>1, <1>2, PTL DEF Spec

\* The configuration's flags reach V8, each with its value, before V8 starts, up to
\* the first that does not fit, for every table that was parsed, whatever flags V8
\* has (winx_config.cpp:37-56, winx.cpp:160-161).
THEOREM FlagsReachIt == Spec => []FlagsReachV8
<1>1. OnItsWay /\ FlagsStand /\ start \in Starts => FlagsReachV8
  <2> SUFFICES ASSUME OnItsWay, FlagsStand, start \in Starts, "v8" \in live, start.config.parses,
                      NEW i \in DOMAIN start.config.v8, Config!Arrives(start.config.v8, i)
               PROVE  flags[start.config.v8[i].key] = start.config.v8[i].value
    BY Zenon DEF FlagsReachV8
  <2>1. PICK config : config = start.config
    OBVIOUS
  <2>2. flags = Config!SetFlagsFromString(Config!get_v8_flags(config))
    BY <2>1, FlagsBeforeV8 DEF FlagsStand
  <2>3. None \notin DOMAIN Flags /\ Config!Table(config.v8)
    BY <2>1, EngineAssumption
  <2>4. C!SetFlagsFromString(C!get_v8_flags(config))[config.v8[i].key] = config.v8[i].value
    <3>1. C!Table(config.v8)
      BY <2>3, Zenon DEF Config!Table, C!Table, Config!Range, C!Range
    <3>2. C!Arrives(config.v8, i)
      BY <2>1, Zenon DEF Config!Arrives, C!Arrives, Config!Fits, C!Fits, Config!Dropped,
         C!Dropped, Config!Reads, C!Reads
    <3> QED
      BY <2>1, <2>3, <3>1, <3>2, C!FlagsArrive
  <2>5. C!SetFlagsFromString(C!get_v8_flags(config)) =
          Config!SetFlagsFromString(Config!get_v8_flags(config))
    BY SameFlags
  <2> QED
    BY <2>1, <2>2, <2>4, <2>5
<1> QED
  BY <1>1, StartsAsGiven, OnItsWayHolds, FlagsStandHolds, PTL

-----------------------------------------------------------------------------
\* Types.
\* Two texts that make a text of some letters are texts of those letters.
LEMMA Pieces ==
  ASSUME NEW S, NEW a \in Texts, NEW b \in Texts, Then(a, b) \in Seq(S)
  PROVE  a \in Seq(S) /\ b \in Seq(S)
<1>1. PICK k \in Nat, l \in Nat : k = Len(a) /\ l = Len(b)
  BY LenProperties DEF Texts
<1>2. PICK c \in Seq(S) : c = Then(a, b)
  OBVIOUS
<1>3. /\ Len(c) = k + l
      /\ \A i \in 1..(k + l) : c[i] = IF i <= k THEN a[i] ELSE b[i - k]
  BY <1>1, <1>2, ConcatProperties DEF Texts, Then
<1>4. \A i \in 1..(k + l) : c[i] \in S
  BY <1>3, ElementOfSeq
<1>5. \A i \in 1..k : a[i] \in S
  BY <1>3, <1>4
<1>6. ASSUME NEW i \in 1..l
      PROVE  b[i] \in S
  <2>1. k + i \in 1..(k + l) /\ ~(k + i <= k) /\ (k + i) - k = i
    OBVIOUS
  <2> QED
    BY <1>3, <1>4, <2>1
<1>7. a \in Seq(S)
  BY <1>1, <1>5 DEF Texts
<1>8. b \in Seq(S)
  BY <1>1, <1>6 DEF Texts
<1> QED
  BY <1>7, <1>8

\* What the console is asked, and what it knows.
Heard ==
  /\ printed \in Seq(1..MaxCalls) /\ calls \in 0..MaxCalls
  /\ good \in BOOLEAN /\ cin \in {"open", "ended"} /\ waiting \in BOOLEAN
  /\ end \in Console!Ends

\* A call is counted, and what it asks to print is named by its number.
LEMMA Asking ==
  ASSUME Heard, Console!Call
  PROVE  /\ calls' \in 0..MaxCalls
         /\ \A m \in BOOLEAN : Console!Asked(m) => printed' \in Seq(1..MaxCalls)
<1>1. calls \in Nat /\ MaxCalls \in Nat /\ calls < MaxCalls /\ calls' = calls + 1
  BY EngineAssumption DEF Heard, Console!Call
<1>2. PICK N : N = 1..MaxCalls
  OBVIOUS
<1>3. PICK n \in N : n = calls'
  BY <1>1, <1>2
<1>4. printed \in Seq(N)
  BY <1>2 DEF Heard
<1>5. Append(printed, n) \in Seq(N)
  BY <1>4
<1> QED
  BY <1>1, <1>2, <1>3, <1>4, <1>5 DEF Console!Asked

\* Every call keeps Heard.
LEMMA CallsHeard ==
  ASSUME Heard, Calls
  PROVE  Heard'
<1>1. CASE Log
  <2>1. PICK n \in ArgCounts, message \in BOOLEAN, newline \in BOOLEAN :
          Console!formatted_print(n, message, newline)
    BY <1>1 DEF Log
  <2>2. calls' \in 0..MaxCalls /\ printed' \in Seq(1..MaxCalls)
    BY <2>1, Asking DEF Console!formatted_print, Console!CheckFails, Heard
  <2>3. UNCHANGED <<cin, waiting>> /\ good' \in BOOLEAN /\ end' \in Console!Ends
    BY <2>1 DEF Console!formatted_print, Console!CheckFails, Console!NullPrinted,
       Console!Abort, Console!input, Console!Ends, Heard
  <2> QED
    BY <2>2, <2>3 DEF Heard
<1>2. CASE Prompt
  <2>1. PICK n \in ArgCounts, message \in BOOLEAN : Console!prompt(n, message)
    BY <1>2 DEF Prompt
  <2>2. calls' \in 0..MaxCalls
    BY <2>1, Asking DEF Console!prompt
  <2>3. printed' \in Seq(1..MaxCalls)
    <3>1. CASE n > 1
      BY <2>1, <3>1 DEF Console!prompt, Console!output, Heard
    <3>2. CASE ~(n > 1)
      <4>1. PICK asked \in BOOLEAN : asked = (n = 1 /\ message)
        OBVIOUS
      <4>2. Console!Call /\ Console!Asked(asked)
        BY <2>1, <3>2, <4>1 DEF Console!prompt
      <4> QED
        BY <4>1, <4>2, Asking
    <3> QED
      BY <3>1, <3>2
  <2>4. /\ UNCHANGED cin /\ waiting' \in BOOLEAN /\ good' \in BOOLEAN
        /\ end' \in Console!Ends
    BY <2>1 DEF Console!prompt, Console!NullPrinted, Console!Abort, Console!input,
       Console!output, Console!Ends, Heard
  <2> QED
    BY <2>2, <2>3, <2>4 DEF Heard
<1>3. CASE Query
  <2>1. PICK n \in ArgCounts : Console!query(n)
    BY <1>3 DEF Query
  <2>2. calls' \in 0..MaxCalls
    BY <2>1, Asking DEF Console!query
  <2>3. UNCHANGED <<printed, good, cin, waiting>> /\ end' \in Console!Ends
    BY <2>1 DEF Console!query, Console!CheckFails, Console!input, Console!output,
       Console!Ends, Heard
  <2> QED
    BY <2>2, <2>3 DEF Heard
<1>4. CASE GetRequest
  <2>1. Console!Call /\ UNCHANGED <<good, printed, cin, waiting>> /\ end' \in Console!Ends
    BY <1>4 DEF GetRequest, Console!Abort, input, Console!Ends, Heard
  <2> QED
    BY <2>1, Asking DEF Heard
<1>5. CASE HelloJava
  <2>1. Console!Call /\ UNCHANGED <<good, printed, cin, waiting>> /\ end' \in Console!Ends
    BY <1>5 DEF HelloJava, Console!Abort, input, Console!Ends, Heard
  <2> QED
    BY <2>1, Asking DEF Heard
<1>6. CASE AssignGlobal
  <2>1. Console!Call /\ UNCHANGED <<good, printed, cin, waiting, end>>
    BY <1>6 DEF AssignGlobal, input, output
  <2> QED
    BY <2>1, Asking DEF Heard
<1> QED
  BY <1>1, <1>2, <1>3, <1>4, <1>5, <1>6 DEF Calls

\* Heard holds at the start, and every step of Engine keeps it.
LEMMA HeardHolds == Spec => []Heard
<1>1. Init => Heard
  <2>1. << >> \in Seq(1..MaxCalls) /\ 0 \in 0..MaxCalls
    BY EngineAssumption
  <2> QED
    BY <2>1 DEF Init, Console!Init, Heard, Console!Ends
<1>2. Heard /\ [Next]_vars => Heard'
  <2> SUFFICES ASSUME Heard, [Next]_vars
               PROVE  Heard'
    OBVIOUS
  <2>1. CASE Calls
    BY <2>1, CallsHeard
  <2>2. CASE Answer
    BY <2>2 DEF Answer, Console!Answer, Console!output, Heard
  <2>3. CASE UNCHANGED vars
    BY <2>3 DEF vars, console, output, input, Heard
  <2>4. CASE Process
    <3>1. /\ UNCHANGED <<good, printed, cin, waiting, calls>>
          /\ end' \in {end, "exit 0", "exit 1", "aborted"}
      <4>1. CASE RefuseArguments \/ ReturnFromMain
        BY <4>1 DEF RefuseArguments, ReturnFromMain, Console!Exit, input
      <4>2. CASE SetFlags
        BY <4>2 DEF SetFlags, console, output, input
      <4>3. CASE EndPolyfill
        BY <4>3 DEF EndPolyfill, Console!Abort, input
      <4>4. CASE LoadModules
        BY <4>4 DEF LoadModules, Console!Exit, Console!Abort, input
      <4>5. CASE \E part \in Parts : CreatePart(part) \/ FreePart(part)
        BY <4>5 DEF CreatePart, FreePart, console, output, input
      <4>6. CASE \E name \in {"Winx", "request", "jni"} : BindName(name)
        BY <4>6 DEF BindName, console, output, input
      <4>7. CASE \E name \in Hosted : StoreGlobal(name)
        BY <4>7 DEF StoreGlobal, console, output, input
      <4> QED
        BY <2>4, <4>1, <4>2, <4>3, <4>4, <4>5, <4>6, <4>7 DEF Process
    <3> QED
      BY <3>1 DEF Heard, Console!Ends
  <2> QED
    BY <2>1, <2>2, <2>3, <2>4 DEF Next
<1> QED
  BY <1>1, <1>2, PTL DEF Spec

\* A global was set by the engine or by the program.
LEMMA GlobalsTyped == Spec => [](globals \in [DOMAIN globals -> {"engine", "program"}])
<1> DEFINE OfSomebody == globals \in [DOMAIN globals -> {"engine", "program"}]
<1>1. Init => OfSomebody
  <2>1. << >> \in [DOMAIN << >> -> {"engine", "program"}]
    <3>1. << >> \in Seq({"engine", "program"}) /\ DOMAIN << >> = {}
      OBVIOUS
    <3> QED
      BY <3>1
  <2> QED
    BY <2>1 DEF Init
<1>2. OfSomebody /\ [Next]_vars => OfSomebody'
  <2> SUFFICES ASSUME OfSomebody, [Next]_vars
               PROVE  OfSomebody'
    OBVIOUS
  <2>1. ASSUME NEW name, NEW who \in {"engine", "program"}, Set(name, who)
        PROVE  OfSomebody'
    BY <2>1 DEF Set
  <2>2. CASE UNCHANGED globals
    BY <2>2
  <2>3. ASSUME NEW part \in Parts, CreatePart(part)
        PROVE  OfSomebody'
    BY <2>3 DEF CreatePart
  <2>4. ASSUME NEW name \in Hosted, StoreGlobal(name)
        PROVE  OfSomebody'
    BY <2>1, <2>4 DEF StoreGlobal
  <2>5. CASE AssignGlobal
    BY <2>1, <2>5 DEF AssignGlobal
  <2>6. CASE RefuseArguments \/ ReturnFromMain
    BY <2>2, <2>6 DEF RefuseArguments, ReturnFromMain, engine
  <2>7. CASE SetFlags \/ EndPolyfill \/ LoadModules
    BY <2>2, <2>7 DEF SetFlags, EndPolyfill, LoadModules
  <2>8. ASSUME NEW part \in Parts, FreePart(part)
        PROVE  OfSomebody'
    BY <2>2, <2>8 DEF FreePart
  <2>9. ASSUME NEW name, BindName(name)
        PROVE  OfSomebody'
    BY <2>2, <2>9 DEF BindName
  <2>10. CASE Log \/ Prompt \/ Query \/ GetRequest \/ HelloJava \/ Answer
    BY <2>2, <2>10 DEF Log, Prompt, Query, GetRequest, HelloJava, Answer, engine
  <2>11. CASE UNCHANGED vars
    BY <2>2, <2>11 DEF vars, engine
  <2> HIDE DEF OfSomebody
  <2> QED
    BY <2>3, <2>4, <2>5, <2>6, <2>7, <2>8, <2>9, <2>10, <2>11 DEF Next, Process, Calls
<1> QED
  BY <1>1, <1>2, PTL DEF Spec

\* What went out, and what is in the buffer, are pieces of what was printed.
LEMMA ConsoleTyped ==
  ASSUME Shown, Heard
  PROVE  Console!TypeOK
<1>1. PICK S : S = 1..MaxCalls
  OBVIOUS
<1>2. PICK lost \in Texts : printed = Then(Then(screen, pend), lost)
  BY DEF Shown
<1>3. screen \in Texts /\ pend \in Texts /\ Then(screen, pend) \in Texts
  BY Joined DEF Shown
<1>4. printed \in Seq(S)
  BY <1>1 DEF Heard
<1>5. Then(screen, pend) \in Seq(S)
  BY <1>2, <1>3, <1>4, Pieces
<1>6. screen \in Seq(S) /\ pend \in Seq(S)
  BY <1>3, <1>5, Pieces
<1> QED
  BY <1>1, <1>4, <1>6 DEF Heard, Console!TypeOK

\* Flags have values that the table has, or that V8 makes of its words.
LEMMA FlagsAreTyped ==
  ASSUME FlagsStand, start \in Starts
  PROVE  flags \in [DOMAIN Flags -> Config!Values(start.config.v8)]
<1>1. PICK config : config = start.config
  OBVIOUS
<1>2. None \notin DOMAIN Flags /\ (config.parses => Config!Table(config.v8))
  BY <1>1, EngineAssumption
<1>3. C!Values(config.v8) = Config!Values(config.v8)
  BY Zenon DEF C!Values, Config!Values, C!Garbled, Config!Garbled, C!Range, Config!Range
<1>4. CASE Left(SetFlagsFromString)
  <2>1. None \in Config!Values(config.v8)
    BY DEF Config!Values
  <2> QED
    BY <1>1, <1>4, <2>1 DEF FlagsStand
<1>5. CASE ~Left(SetFlagsFromString)
  <2>1. C!Table(config.v8) <=> Config!Table(config.v8)
    BY Zenon DEF Config!Table, C!Table, Config!Range, C!Range
  <2>2. C!SetFlagsFromString(C!get_v8_flags(config)) \in [DOMAIN Flags -> C!Values(config.v8)]
    BY <1>2, <2>1, C!FlagsTyped
  <2>3. flags = C!SetFlagsFromString(C!get_v8_flags(config))
    BY <1>1, <1>5, SameFlags DEF FlagsStand
  <2> QED
    BY <1>1, <1>3, <2>2, <2>3
<1> QED
  BY <1>4, <1>5

\* Every state is well typed: what is left to do is the end of the life of the process,
\* which goes step by step, and flags have no value that was not given to them.
THEOREM ProcessesAreTyped == Spec => []TypeOK
<1> DEFINE GlobalsKnown == globals \in [DOMAIN globals -> {"engine", "program"}]
<1>1. ASSUME OnItsWay, FlagsStand, start \in Starts, GlobalsKnown, Shown, Heard, Loader!TypeOK
      PROVE  TypeOK
  <2>1. PICK L : L = Life(start)
    OBVIOUS
  <2>2. PICK k \in Nat : Reached(L, k)
    BY <1>1, <2>1 DEF OnItsWay
  <2>3. /\ k \in 0..Len(Life(start)) /\ todo = SubSeq(Life(start), k + 1, Len(Life(start)))
        /\ live \subseteq Parts /\ template \subseteq {"Winx", "request", "jni"}
    BY <2>1, <2>2 DEF Reached, Bound
  <2>4. flags \in [DOMAIN Flags -> Config!Values(start.config.v8)]
    BY <1>1, FlagsAreTyped
  <2>5. Console!TypeOK
    BY <1>1, ConsoleTyped
  <2> QED
    BY <1>1, <2>3, <2>4, <2>5, Zenon DEF TypeOK
<1>2. Spec => []Loader!TypeOK
  BY ProcessesLoadAsProved, PTL
<1> HIDE DEF GlobalsKnown
<1>3. Spec => []GlobalsKnown
  BY GlobalsTyped DEF GlobalsKnown
<1> QED
  BY <1>1, <1>2, <1>3, OnItsWayHolds, FlagsStandHolds, StartsAsGiven, ShownHolds, HeardHolds, PTL
=============================================================================
