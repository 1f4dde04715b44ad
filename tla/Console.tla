------------------------------ MODULE Console ------------------------------
(***************************************************************************)
(* Standard output and input as the bindings use them: Winx.console.log    *)
(* and debug (src/winx_console.hpp), Winx.os.stdin and the queries of      *)
(* Winx.os (src/winx_os.hpp), over std::cout, std::cin and std::cerr.      *)
(*                                                                         *)
(* A call prints one text, named by the number of the call.  How much of   *)
(* std::cout's buffer goes out early is left open: a terminal gets whole   *)
(* lines, a file or a pipe gets full buffers.  How a call may end the      *)
(* process is part of the call, and what becomes of the buffer then.       *)
(***************************************************************************)
EXTENDS Naturals, Sequences

CONSTANTS
  ArgCounts, \* with how many arguments programs call the bindings
  MaxCalls   \* bounds the calls

VARIABLES
  pend,    \* texts in the buffer of std::cout
  good,    \* whether std::cout is in a state to print
  screen,  \* texts that went out
  printed, \* texts the program asked to print, in order
  cin,     \* "open", or "ended" after the last line of standard input
  waiting, \* whether the process waits for a line
  calls,   \* calls of bindings so far
  end      \* "no", or how the process ended

output == <<pend, good, screen, printed>>
input == <<cin, waiting>>
console == <<output, input, calls, end>>

Ends == {"no", "exit 0", "exit 1", "check failed", "aborted", "undefined"}

TypeOK ==
  /\ pend \in Seq(1..MaxCalls) /\ screen \in Seq(1..MaxCalls) /\ printed \in Seq(1..MaxCalls)
  /\ good \in BOOLEAN /\ cin \in {"open", "ended"} /\ waiting \in BOOLEAN
  /\ calls \in 0..MaxCalls /\ end \in Ends

Init ==
  /\ pend = << >> /\ screen = << >> /\ printed = << >> /\ good = TRUE
  /\ cin = "open" /\ waiting = FALSE /\ calls = 0 /\ end = "no"

-----------------------------------------------------------------------------
\* Of the buffer, with ts behind it, the first k texts go out.
Out(ts, k) ==
  /\ screen' = screen \o SubSeq(pend \o ts, 1, k)
  /\ pend' = SubSeq(pend \o ts, k + 1, Len(pend \o ts))

Puts(ts) == \E k \in 0..Len(pend \o ts) : Out(ts, k)

\* std::endl, or reading from std::cin, which std::cout is tied to.  A stream
\* in a failed state may or may not be flushed, depending on the library.
Flush == IF good THEN Out(<< >>, Len(pend)) ELSE Puts(<< >>)

\* Bug: the process ends without the work that exit() does.
ExitAtOnce(how) == end' = how /\ pend' = << >> /\ UNCHANGED screen

\* exit() and the return of main write the buffer out, also that of a failed
\* stream; abort() and crashes do not.
Exit(how) == end' = how /\ Out(<< >>, Len(pend))
Abort(how) == end' = how /\ pend' = << >> /\ UNCHANGED screen

\* CHECK_EQ: the message goes to std::cerr, which flushes std::cout, and abort().
CheckFails ==
  /\ end' = "check failed" /\ pend' = << >>
  /\ \/ screen' = screen \o pend
     \/ ~good /\ UNCHANGED screen
  /\ UNCHANGED <<good, printed, input>>

\* A char* that is null goes to std::cout, after ts: libstdc++ has the stream
\* fail, libc++ reads from address 0.
NullPrinted(ts) ==
  \/ good' = FALSE /\ Puts(ts) /\ UNCHANGED end
  \/ Abort("undefined") /\ UNCHANGED good

Call == end = "no" /\ ~waiting /\ calls < MaxCalls /\ calls' = calls + 1

\* The text of this call, if it converts.  A Symbol does not, nor does an object
\* whose toString throws.
Asked(converts) == printed' = IF converts THEN Append(printed, calls') ELSE printed
Text(converts) == IF converts /\ good THEN <<calls'>> ELSE << >>

\* formatted_print: the message and the text after it may convert or not.
formatted_print(n, message, newline) ==
  /\ Call
  /\ IF n # 2 THEN CheckFails
     ELSE /\ Asked(message)
          /\ IF message /\ newline
             THEN Puts(Text(TRUE)) /\ UNCHANGED <<good, end>>
             ELSE NullPrinted(Text(message))
          /\ UNCHANGED input

\* Bugs: reading a line does not flush what was printed; it waits for another
\* line after the last one.
promptUnflushed(n, message) ==
  /\ Call /\ n <= 1 /\ message
  /\ Asked(n = 1) /\ Puts(Text(n = 1))
  /\ waiting' = (cin = "open")
  /\ UNCHANGED <<good, cin, end>>
promptForever(n, message) ==
  /\ Call /\ n <= 1 /\ message
  /\ Asked(n = 1) /\ Out(Text(n = 1), Len(pend \o Text(n = 1)))
  /\ waiting' = TRUE
  /\ UNCHANGED <<good, cin, end>>

\* prompt: what it is given is printed, and a line is read, unless the input has
\* ended; then std::cin is not even asked, and nothing is flushed.
prompt(n, message) ==
  /\ Call
  /\ IF n > 1 THEN UNCHANGED <<output, input, end>>
     ELSE /\ Asked(n = 1 /\ message)
          /\ IF n = 1 /\ ~message THEN NullPrinted(<< >>)
             ELSE /\ IF good /\ cin = "open"
                     THEN Out(Text(n = 1), Len(pend \o Text(n = 1)))
                     ELSE Puts(Text(n = 1))
                  /\ UNCHANGED <<good, end>>
          /\ waiting' = (cin = "open" /\ end' = "no")
          /\ UNCHANGED cin

\* A line comes, or the input ends, with a last line or without.
Answer ==
  /\ waiting /\ end = "no"
  /\ waiting' = FALSE /\ cin' \in {cin, "ended"}
  /\ UNCHANGED <<output, calls, end>>

\* get_free_memory, get_total_memory and get_cpu_info only ask the system.
query(n) ==
  /\ Call
  /\ IF n # 0 THEN CheckFails ELSE UNCHANGED <<output, input, end>>
=============================================================================
