------------------------------- MODULE Engine -------------------------------
(***************************************************************************)
(* The life of a Winx process: winx on a command line (src/winx.cpp) or    *)
(* Winx.startupV8 in a JVM (jwinx/Winx.cc).  It composes the module loader *)
(* and the console: while JavaScript runs, in the polyfill script or in    *)
(* the body of a module, it calls the bindings, and a call or a failed     *)
(* load may end the process at any point.                                  *)
(*                                                                         *)
(* Everything the process does of its own accord is a list of steps that   *)
(* the functions below concatenate in the order of the code.               *)
(***************************************************************************)
EXTENDS Naturals, Sequences

CONSTANTS
  Starts, \* how processes start: see TypeOK
  Names, Program, Await, Cwd, Folders, Contents, Trees, MaxStack, \* ModuleLoader
  ArgCounts, MaxCalls,                                            \* Console
  Flags, Ints, Floats, None                                       \* Config

VARIABLES
  start,   \* how this process started
  todo,    \* the steps it has still to do
  live,    \* the parts of V8, and of the process, that exist
  flags,   \* V8's flags
  template, \* the names that contexts are made with
  globals, \* name in the context's global object -> who set it: "engine", "program"
  \* ModuleLoader's
  files, folder, inst, loads, at, jobs, ran, threw, promise, status, edits,
  \* Console's
  pend, good, screen, printed, cin, waiting, calls, end

Loader == INSTANCE ModuleLoader WITH MaxEdits <- 0
Console == INSTANCE Console
Config == INSTANCE Config

\* A [v8] table that was parsed has a value for each of its keys.
ASSUME EngineAssumption ==
  /\ Loader!LoaderAssumption
  /\ MaxCalls \in Nat
  /\ None \notin DOMAIN Flags
  /\ \A s \in Starts : s.config.parses => Config!Table(s.config.v8)

engine == <<start, todo, live, flags, template, globals>>
loader == <<files, folder, inst, loads, at, jobs, ran, threw, promise, status, edits>>
output == <<pend, good, screen, printed>>
input == <<cin, waiting>>
console == <<output, input, calls, end>>
vars == <<engine, loader, console>>

-----------------------------------------------------------------------------
Parts == {"workers", "platform", "v8", "allocator", "isolate", "template",
          "scope", "context"}
Hosted == {"winxEngine", "env", "obj"}

Create(part) == <<"create", part>>
Free(part)   == <<"free", part>>
Bind(name)   == <<"bind", name>>
Store(name)  == <<"store", name>>
SetFlagsFromString == <<"run", "flags">>
Polyfill == <<"run", "polyfill">>
Module   == <<"run", "module">>

InternalInitializeEngine ==
  <<Create("workers"), Create("platform"), SetFlagsFromString, Create("v8"),
    Create("allocator"), Create("isolate")>>

InitializeStandardWinxRuntimeBindings(s) ==
  <<Create("scope"), Bind("Winx")>>
  \o (IF s.request # "none" THEN <<Bind("request")>> ELSE << >>)
  \o <<Create("template"), Free("scope")>>

\* Bug: the engine's address is stored once the polyfill script has run.
StoreAfterPolyfill == <<Polyfill, Store("winxEngine"), Module>>

InternalExecuteJavascript == <<Store("winxEngine"), Polyfill, Module>>

\* Bug: the isolate outlives V8.
ShutdownV8First ==
  <<Free("template"), Free("context"), Free("v8"), Free("isolate"), Free("platform"),
    Free("allocator")>>

ShutdownEngine ==
  <<Free("template"), Free("context"), Free("isolate"), Free("v8"), Free("platform"),
    Free("allocator")>>

\* main, and Java_Winx_startupV8, which stores more before JavaScript runs.
internal_main(s) ==
  InternalInitializeEngine \o InitializeStandardWinxRuntimeBindings(s)
  \o <<Create("scope"), Create("context")>> \o InternalExecuteJavascript \o <<Free("scope")>>
  \o ShutdownEngine \o <<Free("workers")>>
startupV8(s) ==
  InternalInitializeEngine \o InitializeStandardWinxRuntimeBindings(s)
  \o <<Create("scope"), Bind("jni"), Create("context"), Store("env"), Store("obj"), Free("scope")>>
  \o <<Create("scope")>> \o InternalExecuteJavascript \o <<Free("scope")>>
  \o ShutdownEngine \o <<Free("workers")>>

Life(s) == IF s.host = "java" THEN startupV8(s) ELSE internal_main(s)

\* The script that runs first: the embedded one, if the configuration names no
\* file, or one that is not there or empty.
polyfill(s) ==
  LET file == Config!get_winx_flag(s.config, "polyfills_file", "")
  IN  IF file \in DOMAIN s.scripts THEN s.scripts[file] ELSE "embedded"

modules_folder(s) ==
  LET name == Config!get_winx_flag(s.config, "modules_folder", "")
  IN  IF name = "" THEN Cwd ELSE name

Init ==
  /\ start \in Starts
  /\ todo = Life(start) /\ live = {} /\ template = {} /\ globals = << >>
  /\ flags = [f \in DOMAIN Flags |-> None]
  /\ Loader!Init /\ files = start.files /\ folder = modules_folder(start)
  /\ Console!Init

Doing(step) == end = "no" /\ todo # << >> /\ Head(todo) = step
Done == todo' = Tail(todo)

\* CLI11_PARSE returns from internal_main; main does not look at what it returned.
RefuseArguments ==
  /\ end = "no" /\ todo = Life(start) /\ start.args = "bad"
  /\ Console!Exit("exit 0")
  /\ UNCHANGED <<engine, loader, good, printed, input, calls>>

CreatePart(part) ==
  /\ Doing(Create(part)) /\ (todo = Life(start) => start.args = "ok")
  /\ Done /\ live' = live \cup {part}
  /\ globals' = IF part = "context" THEN [n \in template |-> "engine"] ELSE globals
  /\ UNCHANGED <<start, flags, template, loader, console>>

SetFlags ==
  /\ Doing(SetFlagsFromString)
  /\ Done /\ flags' = Config!SetFlagsFromString(Config!get_v8_flags(start.config))
  /\ UNCHANGED <<start, live, template, globals, loader, console>>

FreePart(part) ==
  /\ Doing(Free(part))
  /\ Done /\ live' = live \ {part}
  /\ UNCHANGED <<start, flags, template, globals, loader, console>>

\* SetupBinding and SetAccessor: names for contexts still to be made.
BindName(name) ==
  /\ Doing(Bind(name))
  /\ Done /\ template' = template \cup {name}
  /\ UNCHANGED <<start, live, flags, globals, loader, console>>

Set(name, who) ==
  globals' = [n \in DOMAIN globals \cup {name} |-> IF n = name THEN who ELSE globals[n]]

\* CONTEXT_GLOBAL_STORE: an object of the host becomes a global of the program.
StoreGlobal(name) ==
  /\ Doing(Store(name))
  /\ Done /\ Set(name, "engine")
  /\ UNCHANGED <<start, live, flags, template, loader, console>>

\* Bug: a polyfill script that throws has the engine shut down at once.
EndPolyfillThrown ==
  /\ Doing(Polyfill) /\ ~waiting
  /\ todo' = IF polyfill(start) = "throws" THEN ShutdownEngine ELSE Tail(todo)
  /\ UNCHANGED <<start, live, flags, template, globals, loader, console>>

\* ToLocalChecked aborts on a polyfill script that does not compile or throws.
EndPolyfill ==
  /\ Doing(Polyfill) /\ ~waiting
  /\ IF polyfill(start) = "throws"
     THEN Console!Abort("aborted") /\ UNCHANGED todo
     ELSE Done /\ UNCHANGED <<pend, screen, end>>
  /\ UNCHANGED <<start, live, flags, template, globals, loader,
                 good, printed, input, calls>>

\* The loader goes on, and the process with it: exit(1), V8's abort, or the
\* return of ExecuteModule.  In debug mode the resolve callback says what it
\* loads, which flushes the console.
LoadModules ==
  /\ Doing(Module) /\ ~waiting
  /\ Loader!Step
  /\ \/ status' = "exit 1"  /\ Console!Exit("exit 1") /\ UNCHANGED todo
     \/ status' = "aborted" /\ Console!Abort("aborted") /\ UNCHANGED todo
     \/ status' = "exit 0"  /\ Done /\ UNCHANGED <<pend, screen, end>>
     \/ /\ status' = "running"
        /\ IF start.debug /\ Loader!ResolveModuleCallback
           THEN Console!Flush ELSE UNCHANGED <<pend, screen>>
        /\ UNCHANGED <<todo, end>>
  /\ UNCHANGED <<start, live, flags, template, globals, good, printed, input, calls>>

ReturnFromMain ==
  /\ end = "no" /\ todo = << >>
  /\ Console!Exit("exit 0")
  /\ UNCHANGED <<engine, loader, good, printed, input, calls>>

-----------------------------------------------------------------------------
\* JavaScript is running: a polyfill script other than the embedded one, which
\* only defines functions, or the body of a module.
Running ==
  /\ end = "no" /\ ~waiting
  /\ \/ Doing(Polyfill) /\ polyfill(start) # "embedded"
     \/ Doing(Module) /\ \E m \in Loader!begun : Loader!InBody(m) /\ Loader!HasRoom(m)

Log ==
  \E n \in ArgCounts, message, newline \in BOOLEAN :
    /\ Running
    /\ Console!formatted_print(n, message, newline)
    /\ UNCHANGED <<engine, loader>>

Prompt ==
  \E n \in ArgCounts, message \in BOOLEAN :
    /\ Running
    /\ Console!prompt(n, message)
    /\ UNCHANGED <<engine, loader>>

Query ==
  \E n \in ArgCounts :
    /\ Running
    /\ Console!query(n)
    /\ UNCHANGED <<engine, loader>>

\* A callback finds what it works on in globals that the program can assign to.
Found(names) == \A n \in names : n \in DOMAIN globals /\ globals[n] = "engine"

\* EmbeddedRequestGetterAccessor: the text is parsed each time it is asked for,
\* and a text that is not JSON aborts.
GetRequest ==
  /\ Running /\ Console!Call /\ Found({"request"})
  /\ CASE ~Found({"winxEngine"}) -> Console!Abort("undefined")
       [] Found({"winxEngine"}) /\ start.request = "bad" -> Console!Abort("aborted")
       [] OTHER -> UNCHANGED <<pend, screen, end>>
  /\ UNCHANGED <<engine, loader, good, printed, input>>

\* invoke_jni_helloJava
HelloJava ==
  /\ Running /\ Console!Call /\ Found({"jni"})
  /\ IF Found({"env", "obj"}) THEN UNCHANGED <<pend, screen, end>>
     ELSE Console!Abort("undefined")
  /\ UNCHANGED <<engine, loader, good, printed, input>>

\* The objects of the host are properties like all others.
AssignGlobal ==
  \E name \in DOMAIN globals \cap Hosted :
    /\ Running /\ Console!Call
    /\ Set(name, "program")
    /\ UNCHANGED <<start, todo, live, flags, template, loader,
                   output, input, end>>

Answer == Console!Answer /\ UNCHANGED <<engine, loader>>

Process ==
  \/ RefuseArguments \/ SetFlags \/ EndPolyfill \/ LoadModules \/ ReturnFromMain
  \/ \E part \in Parts : CreatePart(part) \/ FreePart(part)
  \/ \E name \in {"Winx", "request", "jni"} : BindName(name)
  \/ \E name \in Hosted : StoreGlobal(name)

Calls == Log \/ Prompt \/ Query \/ GetRequest \/ HelloJava \/ AssignGlobal

Next == Process \/ Calls \/ Answer

Spec == Init /\ [][Next]_vars

\* The process goes on by itself; nobody has to answer it, nor to call anything.
FairSpec == Spec /\ WF_vars(Process)

-----------------------------------------------------------------------------
TypeOK ==
  /\ start \in Starts /\ live \subseteq Parts
  /\ flags \in [DOMAIN Flags -> Config!Values(start.config.v8)]
  /\ template \subseteq {"Winx", "request", "jni"}
  /\ globals \in [DOMAIN globals -> {"engine", "program"}]
  /\ \E k \in 0..Len(Life(start)) : todo = SubSeq(Life(start), k + 1, Len(Life(start)))
  /\ Loader!TypeOK /\ Console!TypeOK

\* What a part of V8 must find when it is created, and as long as it is there.
Needs ==
  [workers |-> {}, platform |-> {"workers"}, v8 |-> {"platform"},
   allocator |-> {}, isolate |-> {"v8", "allocator"}, template |-> {"isolate"},
   scope |-> {"isolate"}, context |-> {"isolate"}]

\* Every part of V8 is created after what it needs and freed before it; JavaScript
\* runs in a context, inside the isolate's scope; a context is made of a complete
\* template; and a process that returns from main leaves nothing behind
\* (winx.cpp:95-104, 154-172, 193-204 and jwinx/Winx.cc:39-63).
LifetimesNest ==
  /\ \A part \in live : Needs[part] \subseteq live
  /\ Doing(Polyfill) \/ Doing(Module) => {"context", "scope"} \subseteq live
  /\ end = "exit 0" => live = {}

\* From the first line of the polyfill script on, JavaScript finds every name the
\* host gives it, and a callback behind such a name finds the object it works on,
\* unless the program assigned to it (winx.cpp:7, 63-69, jwinx/Winx.cc:46-51).
GlobalsAreReady ==
  Running =>
    /\ {"Winx", "winxEngine"} \subseteq DOMAIN globals
    /\ start.request # "none" => "request" \in DOMAIN globals
    /\ start.host = "java" => {"jni", "env", "obj"} \subseteq DOMAIN globals

\* What goes out is what was printed, in order, and all of it if the process
\* exits, also by a failed load in the middle of a body, or by a failed check,
\* unless a message that does not convert broke the stream before
\* (winx_console.hpp:49-59, winx_modules.cpp:26 and 36, util.hpp:14-19).
OutputSurvives ==
  /\ screen = SubSeq(printed, 1, Len(screen))
  /\ end \in {"exit 0", "exit 1", "check failed"} /\ good => screen = printed

\* Whoever has to answer sees all that was printed, the question too, unless the
\* stream is broken (winx_os.hpp:89-96).
PromptIsSeen == waiting /\ good => screen = printed

\* The configuration's flags reach V8, each with its value, before V8 starts, up
\* to the first one that does not fit: a key that V8 does not know, a value of
\* another type, or a text with spaces, whose words may even set a flag again
\* (winx_config.cpp:37-56, winx.cpp:160-161).
FlagsReachV8 ==
  "v8" \in live /\ start.config.parses =>
    LET v8 == start.config.v8
    IN  \A i \in DOMAIN v8 : Config!Arrives(v8, i) => flags[v8[i].key] = v8[i].value

\* A shell learns from the exit status how loading went: 1 if a load failed, 0 if the
\* program was loaded and run, or if the command line was refused, and then nothing
\* is loaded (winx.cpp:178-211, winx_modules.cpp:26 and 36).
ExitStatusTellsLoading ==
  /\ end = "exit 1" <=> status = "exit 1"
  /\ end = "exit 0" => status = IF start.args = "bad" THEN "running" ELSE "exit 0"

\* The process ends, or waits for a line of an input that has not ended, whatever
\* is loaded and however it goes (winx.cpp:178-211, winx_os.hpp:95-96).
EndsOrWaits == <>(end # "no") \/ <>[](waiting /\ cin = "open")

\* README.md:76 calls Winx.console.log with one argument.
DocumentedCallsReturn == end # "check failed"

\* README.md:16-17: "You are able to configure any V8 Flag by default."
AnyFlagReachesV8 ==
  "v8" \in live =>
    \A i \in DOMAIN start.config.v8 :
      LET e == start.config.v8[i]
      IN  e.key \in DOMAIN Flags /\ e.type = Flags[e.key] => flags[e.key] = e.value
=============================================================================
