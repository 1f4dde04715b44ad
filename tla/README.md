# A verification development for Winx.js

Winx.js is a small JavaScript runtime on V8: a command-line program (and a Java
class) that runs a script, gives it files, a console and a few operating-system
calls under the global `Winx`, and loads ECMAScript modules.  This directory
holds TLA+ models of it, the TLC runs that check them and TLAPS proofs about
them.  Paths are relative to the repository; `fs:131` is short for
`src/winx_fs.hpp:131`, and likewise `util`, `modules`, `winx`, `config`,
`console`, `os` for `winx_util.cpp`, `winx_modules.cpp`, `winx.cpp`,
`winx_config.cpp`, `winx_console.hpp`, `winx_os.hpp`.

## 1. The system

| Part | Source | State it keeps | Operations | Modelled in |
|---|---|---|---|---|
| File bindings | `src/winx_fs.hpp` | per handle object, the address of a native struct | `blind_read_file`, `blind_write_file`, `delete`, `open`; on a handle `read`, `write`, `close` | `FileHandles` |
| File utilities | `src/winx_util.*` | the heap: `WinxFileHandle` structs, their ifstream and ofstream | read/write a path, open, read, write, close a handle | `FileHandles`, `StdStreams` |
| Module loader | `src/winx_modules.*` | none of its own: V8's modules and promises | compile, resolve a static import, resolve `import()`, link, evaluate | `ModuleLoader` |
| Engine, command line | `src/winx.*`, `winx_platform.hpp` | isolate, context, global template, platform | start V8, bind, run polyfills, run the program, shut down | `Engine` |
| Configuration | `src/winx_config.*`, `Winx.toml` | none: the file is parsed at every query | V8 flags, `polyfills_file`, `modules_folder` | `Config` |
| Console | `src/winx_console.hpp` | the state of `std::cout` | `log`, `debug` | `Console` |
| OS | `src/winx_os.hpp` | the state of `std::cin` | memory, processors, `stdin` | `Console` |
| Binding helpers, globals | `src/winx_binding.hpp`, `winx_globals.*` | debug flag, configuration path | – | `Engine`, in part |
| Java embedding | `jwinx/Winx.cc` | JNI references stored in the JavaScript global | `startupV8`, `helloJava` | `Engine` |
| Polyfills | `polyfills/*` | – | `console.log`, `require`, `Winx.math` | `Engine`, in part |
| Bundler | `winx_bundler.py`, `examples/bundle.js` | – | paste files into `Winx.js.template` | `Bundler` |

**How they interact.**  `main` reads the configuration, starts V8, binds
console, files and OS, runs the polyfill script, then compiles, links and
evaluates the program, shuts V8 down and ends.  V8 calls back into the module
loader for each import, and the loader reads the configuration and a file each
time.  The program calls the bindings; a binding that converts an argument to a
string may call the program (`toString`), which may call bindings.  Files and
the configuration are shared with every other process.

**What is hard.**

* *Lifetime.*  A handle object keeps the address of its struct after `close`
  freed it (`util:75`); `write` copies the struct, runs JavaScript, and only
  then uses the copy (`fs:131-133`).
* *Durability.*  What `write` was given sits in an ofstream's buffer until it
  is full or the handle is closed; the program may end, call `exit(1)` or be
  killed at any moment, and nothing is flushed then.
* *Sharing.*  Several handles, a blind write and other processes may have one
  file open at once, each with a position and a buffer of its own.
* *Checked, then used.*  A blind read measures the file and then reads it.
* *Graphs without a table.*  Nothing remembers which modules were loaded, so a
  cycle of imports makes instances until the stack is used up; `import()` runs
  a whole graph inside the body of a module; a failure to load ends the
  process, a failure to run is ignored.
* *Suspended modules.*  A body that awaits lets `Evaluate` go on to the next
  import, or return; it is continued by a microtask, among other code.
* *Order of life.*  V8's platform, isolate, template and context must be made
  and freed in one order, flags come before V8, globals before JavaScript.
* *Ways out.*  A process may return from `main`, call `exit(1)` in the middle
  of a body, fail a check, abort or crash; what `std::cout` has buffered goes
  out in some of these and not in others, and a message that does not convert
  to a string stops all output.
* *Numbers and texts.*  A file size goes into an `int`; a text goes through a
  `char *`; a configuration becomes one string of flags, and the first that V8
  cannot make sense of is the last it reads.

**What makes each part correct.**  Handles: structs and streams are freed
together, each handle that is open has its own, a closed file holds
what was written in order, an interrupted one a beginning of it, appending
writers never overwrite each other, a read returns what was put there; that a
closed handle is not used is left to the program.  Loader: code runs only in
graphs that are whole; every `import()` is answered before its body goes on;
nothing stays suspended; loading ends; the exit status tells load failures.  Engine: what is used exists, globals are there when JavaScript
runs, the process ends or waits for input.  Console: no output is lost or late,
and whoever must answer sees the question.  Configuration: each flag that V8
can read reaches it.  Bundler: the bundle is the composition of whole files.
`PROJECT.json` lists the hazards line by line with the properties that would
catch them.

## 2. The modules

    StdStreams                   C strings, decoding, int, files as sequences
        FileHandles              the file bindings and utilities
            MCFileHandles        its small instances
            FileHandlesProofs    types, ownership; what files hold and
                                 how they change; the refinement; reads
        DurableFiles             what FileHandles promises (abstract)
    ModuleLoader                 loading, linking, evaluating
        MCModuleLoader           its small instances
        ModuleLoaderProofs       types, whole graphs, exit status
            ModuleBodiesProofs   no body runs twice
                ModuleEndsProofs   nothing is left waiting; cycles; what
                                     import() answers, and that it does
    Console, Config              output and input; flags and keys
        ConfigProofs             flags arrive where they should (of Config)
        Engine                   a whole process, with ModuleLoader
            MCEngine             its small instances
            EngineProofs         its output, its order of life, its loads,
                                 its exit status, its flags, its types
    Bundler                      how the polyfill script is made
        MCBundler                its small instances
        BundlerProofs            imports that are left, whole files, the twin
    TextLemmas                   texts put one behind the other; induction;
                                 functions defined by recursion

### StdStreams and FileHandles

`StdStreams` holds what the C++ library, the system and V8 do, as `fs` and
`util` use them.  A file is a sequence of bytes; a byte stands for a whole
character, except for three that the code treats specially: `Nul`, where a
`char *` ends; `Bad`, which is not UTF-8 and is decoded to `Repl`.  `Junk` is a
byte of uninitialized memory.

| Variable | In the code |
|---|---|
| `dir`, `disk` | the file system: paths, and contents of the files they name or that are still open |
| `hnd`, `outs` | the heap: functions whose domain is what is allocated |
| `obj` | handle objects: internal field 0, the file, and whether `close` was called |
| `frames` | the `winx_file_handle_write` calls whose argument is being converted |
| `call` | a blind read or write between its system calls |
| `proc`, `ret` | the process; what the last call returned |
| `sent`, `raced` | history only: what the program put into each file, in order, and the files that several writers had open at once or that changed under a stream |

Each bound function is one action.  Three are split where others can act:

* a handle's `write` into `WriteBegin` (the struct is copied, `fs:131`) and
  `WriteEnd` (the argument is converted, and goes to the copy's ofstream,
  `fs:132-133`), because the conversion runs JavaScript: `frames` is a stack,
  and anything the program can do may happen in between, more writes included;
* a blind read into the measuring (`util:8-13`) and the reading (`util:14-20`),
  a blind write into the opening, the pieces the library writes, and the close
  (`util:25-29`), because other processes run and the program can be killed.

The other calls convert their arguments before they look at any state of the
model, so JavaScript that runs during the conversion comes before the step.
`Insert` lets the library write any part of what is pending once it exceeds the
buffer; a file takes at most `Quota` bytes, and an ofstream that cannot write
all it wants is bad from then on and drops what it is given; `FlushAndFree` is `close_file` on the ofstream; `Open` makes both
streams, keeps those that failed to open, and checks nothing, as `open_file`.
`UseFreed` is every use of freed memory: a method of a closed handle whose
address nothing was given since, or a write whose ofstream was freed while its
argument was converted.  `PassUnconverted` is a value that does not convert, so
that a null pointer is passed on.  Both are undefined behaviour, which ends what
the model says of the process.  A closed handle whose address *was* handed out
again is no undefined step: it operates on the other handle's struct, as in the
process, and so does the copy that a write in progress holds.  Nothing in the
code keeps a program from any of this, so `MayUse` allows every handle that was
opened.

Constants that choose a variant: `ClosesOnce` (the program closes no handle
twice; it may still use closed ones and close one whose write is in progress),
`External` (other processes write), `StickyEof` (a stream at end of file stays
there, as in a libc++ over stdio, or tries again, as in libstdc++).

### DurableFiles

What `FileHandles` promises, without handles, streams or buffers: each file has
a text that was put into it and what is stored of it; what is stored of an open
file grows towards the text, `Close` stores the rest (all that fits), and
`GiveUp` withdraws the promise while two writers have the file.  `FileHandles`
is shown to implement it under the mapping `text = sent`, `stored = disk`,
`open` = the files with a writer, each restricted to the files not in `raced`:
the property `KeepsPromise`.

### ModuleLoader

A module's source is reduced to what the loader can tell: whether it compiles,
its static imports (and whether each names an export), the names it calls
`import()` on, whether it exports, whether its body throws.  Because
`ResolveModuleCallback` (`modules:80-109`) compiles a new module for every
request, the "graph" is a tree and an instance is named by its path in it.  A
body is a sequence of `import()` calls and top-level awaits; `at` counts the
steps each has done, `jobs` is V8's microtask queue, which runs when the
program's own `Evaluate` unwinds, and not when that of an `import()` does.

| Action | In the code |
|---|---|
| `Start` | `winx:25-28`, `LoadModule` of the program |
| `ResolveModuleCallback` | the same: configuration, then file, then compile |
| `LinkImports`, `FinishLinking` | `InstantiateModule` and `CheckModule`'s `exit(1)` |
| `EvaluateImports`, `FinishBody`, `Throw` | V8's `Evaluate`, depth first |
| `ResolveDynamicModuleCallback` | `modules:62-78` up to `ExecuteModule`: a nested load |
| `AwaitImports`, `Suspend`, `RunMicrotask` | V8: a module waits for imports that await; a body awaits; a microtask continues it or tells its end to what imports it |
| `OutOfMemory` | microtasks that load without end use the heap up |
| `FinishEvaluation` | `ExecuteModule` returns; the promise is resolved, or the process ends |
| `EditFile`, `EditFolder` | another process, or a module using `Winx.fs`, changes a file or `Winx.toml` |

### Engine, Console, Config

`Engine` is a process from `main` (`winx:178-211`) or `startupV8`
(`Winx.cc:27-64`) to its end.  What the host does of its own accord is the list
`Life(start)`, concatenated from the functions of the code in their order
(`InternalInitializeEngine`, `InitializeStandardWinxRuntimeBindings`,
`InternalExecuteJavascript`, `ShutdownEngine`); `todo` is what is left of it.

| Variable | In the code |
|---|---|
| `start` | the host, arguments, debug flag, request, configuration, files |
| `todo`, `live` | the point in the code; which of platform, V8, allocator, isolate, template, scope, context exist |
| `flags` | V8's flags |
| `template`, `globals` | the global object template; the names in the context's global object and who set them |
| `pend`, `good`, `screen`, `printed` | `std::cout`: buffer, state, what went out; history: what was to be printed |
| `cin`, `waiting` | `std::cin`; whether a read waits for a line |
| `calls`, `end` | how many bindings were called (bounded); how the process ended |

`Engine` composes `ModuleLoader` and `Console` by INSTANCE, over shared
variables: `LoadModules` is a step of the loader together with what its result
does to the process (`exit(1)` writes the console's buffer out, an abort does
not, the end of the program goes on with the shut-down); `Log`, `Prompt`,
`Query`, `GetRequest`, `HelloJava` and `AssignGlobal` may happen whenever
JavaScript runs: in a polyfill script, or in a module's body between its steps.

`Console` leaves open how much of a buffer goes out early (`Puts`), which
covers terminals, pipes and files; `Flush` is `std::endl`, and a read of
`std::cin`, which is tied to `std::cout`.  `formatted_print` checks its argument
count with `CHECK_EQ` before anything else (`console:51`), and its null
`char *` of a message that does not convert puts the stream in a failed state
or crashes, as the library has it.  `Config` holds `get_v8_flags` and
`get_winx_flag` as operators (`config:9-56`), and V8's reading of the string of
flags, word by word: `Written(v8)[i]` is the string when `i` entries are done,
`Reading(words)[i]` what V8 knows after `i` words.

### Bundler

The texts are sequences of tokens, and a token stands for an import statement.
`python` is one turn of the loop of `winx_bundler.py:21-23`, `bundle` one of
`bundle.js:19-23`; both work on the same template and disk at the same time,
so that their results can be compared.  `Spread` puts a text for each token of
a text; finding imports, replacing one and taking white space away are each a
`Spread`.  `Strip` is Python's `strip`, `PutAll` its `replace`, `PutFirst`
JavaScript's, with the pattern `$&` expanded.  Winx has JavaScript's
`readFileSync` as `blind_read_file`, for which a file that is not there is empty.

## 3. The runs

| Run | Question | Result |
|---|---|---|
| `handles` | one path, two handles, closed at most once and used also after that, two writes that nest, a blind call, files that run full, death at any step | `TypeOK`, `Owned`, `CloseMakesDurable`, `PrefixSurvives`, `NeverOverwrites`, `ReadsWhatWasWritten`, `KeepsPromise` hold |
| `others_write` | two paths, one not writable; other processes replace files at any time; closed handles are used and closed | the promises about contents hold for files not disturbed while in use |
| `freed_handles` | a program that uses and closes closed handles, addresses being reused; strings that are too long; sizes that wrap | `StructsOwnStreams`, `KeepsPromise` hold |
| `modules` | every way to fill four files with nine kinds of module | `RunsOnlyWholeGraphs`, `ImportsAreAnswered`, `NoBodyRunsTwice`, `CyclesNeverRun`, `StatusTellsLoadFailures`, `NothingIsLeftWaiting`, `ImportedCodeHasRun`, `Terminates` hold |
| `modules_edited` | modules that load, and one change of a file or of the folder at any moment | `RunsOnlyWholeGraphs`, `NothingIsLeftWaiting` hold |
| `engine` | a whole process on the command line or in a JVM, with every kind of start and up to three calls | `TypeOK`, `LifetimesNest`, `GlobalsAreReady`, `OutputSurvives`, `PromptIsSeen`, `FlagsReachV8`, `ExitStatusTellsLoading`, `EndsOrWaits` hold |
| `bundler` | every template of up to three tokens, every disk of two polyfills in three places | `ComposesWholeFiles`, `LeftImportsCameLate`, `TwinsAgree` hold |
| `blind_write` | README.md:41, "the totality of the file content is handled" | violated: a text is cut at its first Nul |
| `blind_read` | the same, of reads | violated: the size is reduced to an int |
| `rejections` | v8-callbacks.h:364-366, the embedder must reject the promise | violated: `import()` of a throwing module is fulfilled |
| `console_one_arg` | README.md:76 calls `Winx.console.log` with one argument | violated: the process aborts |
| `float_flags` | README.md:16-17, "any V8 Flag" | violated: a float is dropped |

`CHECK_DEADLOCK FALSE` everywhere: the process may end, and nothing happens
after that.

**The properties.**  `StructsOwnStreams` and `Owned` are about the heap: the one
whatever a program does, the other if it closes no handle twice.  None says that
freed memory is not reached, because it is (section 6).  All others are about
files, and are stated of every program, also one that uses closed handles.
`CloseMakesDurable` and `PrefixSurvives` compare each file with `sent`, the
text the program meant, for every file that is not in `raced`; a file leaves
`raced` when it is next emptied with no other writer.  `NeverOverwrites` is an
action property and also speaks of raced files whose writers all append.
`ReadsWhatWasWritten` relates the value a read returns to `sent`: a blind read's
to all of it, each read of a handle to what lies behind its position, also if
the file was emptied and written again since.
`KeepsPromise` is the refinement of `DurableFiles`.  `RunsOnlyWholeGraphs`,
`NoBodyRunsTwice`, `NothingIsLeftWaiting` and
`StatusTellsLoadFailures` are about every instance at once; `ImportsAreAnswered`
relates how far each body is to the loads and promises of its calls;
`ImportedCodeHasRun` says what a program may
assume after an `import()` and where it may not; `CyclesNeverRun` needs files
that do not change and says so.  `OutputSurvives` compares what went out with
all that was printed in every way a process ends, `PromptIsSeen` at every read
of a line.  `FlagsReachV8` is as strong as V8's reading allows: a flag counts
only if all entries before it fit.  `ExitStatusTellsLoading` relates how the
process ended to what its loader found, the one thing that a shell, which sees
only a number, has to go by.  Each property is falsified by at least one
of the faults that `PROJECT.json` lists under `mutants`; the faulty operators
stand before the definition they replace and are marked `Bug:`.

**Bounds, and why they are enough.**  Two handles are the least that can share
a file, reuse an address or write within each other's conversion, and nothing
in the code depends on a third.  `BufCap = 1` with texts of two and three
bytes makes the library write early, late and in pieces, with bytes both in the
file and in the buffer; the real buffer differs only in size.  `Quota`, the
most bytes a file takes, is 4 in `handles` and 3 in `others_write` and
`freed_handles`: a file runs full in the middle of a text, of a buffer, and of
a blind write.  `MaxFds = 3` makes opens fail for want of descriptors; a path
that is not `Writable` makes them fail for its directory.  The texts have a Nul
in the middle, and the initial content a malformed byte and a Nul.
`IntRange = 64` is beyond every file of `handles`; 8 makes sizes negative, and
2 makes them wrap to less than the file has.  Addresses, files and objects are
interchangeable, so they are symmetry sets in runs that check no liveness.  In
`modules`, three names in two folders make diamonds, cycles of one and of two
modules, a module that calls `import()` on itself, before and after an await,
missing files (which are empty modules, `util:22`) and files that do not
compile; `MaxStack = 4` lets each of those appear whole before the stack is
used up, and stands for the heap where microtasks load without end.
`modules_edited` starts from trees of modules that load by themselves, with
`MaxStack = 3`: the edit then brings in any of the nine.  In `engine`, starts
differ from the usual one in one respect at a time (program, polyfill and
request, host, arguments, flags; 240 tables of flags in all), with
`MaxCalls = 3`: a call that breaks the stream, one that prints into it, one
that waits or ends the process.  `bundler` needs no more than two polyfills
and three tokens for an import that comes twice, one that comes with another,
and one that comes too late.

**Fairness.**  `FairSpec` of `ModuleLoader` assumes weak fairness of `Step`,
the disjunction of the loader's own steps.  The loader runs on one thread,
waits for nobody and calls into V8, which returns; module bodies that run
forever are not modelled, so what `Terminates` shows is that loading itself
never goes on forever: the stack, or the heap, stops every cycle.  Edits are
not fair and are bounded.  `FairSpec` of `Engine` assumes it of `Process`, what
the process does of its own accord; that JavaScript calls a binding and that
somebody answers a prompt is assumed of nobody, so `EndsOrWaits` allows a
process that waits for a line for ever, as long as its input has not ended.
File handles have no liveness property: each call is bounded by its input.

## 4. The proofs

All proofs are for every value of the constants that satisfies the named
assumptions (`FilesAssumption`, `BoundsAssumption`, `ByteAssumption`,
`IntRangeAssumption`, `LoaderAssumption`, `EngineAssumption`,
`BundlerAssumption`); every run of their modules evaluates these.
`EngineAssumption` says of a configuration what its parser guarantees: the keys
of a table differ, and each has a value.  `BundlerAssumption` says what texts
are made of.

**`FileHandlesProofs`**, types and memory:

* `TypeCorrect`: `Spec => []TypeOK`;
* `StructsKeepTheirStreams`: `Spec => []StructsOwnStreams`;
* `HandlesOwnTheirStructs`: if `ClosesOnce`, `Spec => []Owned`.

`TypeOK` is not inductive: that a flush keeps files well typed needs the
stream's file to exist, and that `Close` frees an allocated ofstream needs the
bond between structs and ofstreams.  The inductive invariant is
`Inv == TypeOK /\ FilesKnown /\ StructsOwnStreams`.  Lemmas say what each helper
returns (`CStrType` to `DeallocType`) and what a write, a flush or an open does
to the files (`FlushedType` to `OpenToWriteType`); `InvHolds` then has one step
per action.  `HandlesOwnTheirStructs` adds `Owned` to `Inv`.  It needs its
assumption: a handle closed a second time frees the struct of whichever handle
has the address by then.

The second part of `FileHandlesProofs` is about contents, for all programs,
those that use closed handles included, and any number of files, writers,
nested writes, buffers and other processes:

* `ClosedFilesAreDurable`: `Spec => []CloseMakesDurable`;
* `CrashesLeaveBeginnings`: `Spec => []PrefixSurvives`.

Neither property is inductive: what a close makes of a file depends on what is
in the buffer of its stream and on where that stream writes.  The strengthening
is `Content`, which says `Settled(i)` of each promised file: it has at most one
writer; a stream that does not append stands where the file ends; the file
followed by the stream's buffer, or by what a blind write has still to write,
is the text put into it, unless the file is full, and then it is a beginning of
that text; a stream is bad only if its file is full.  One lemma
per kind of step shows that it keeps `Content` (`InsertSettles`,
`FreeSettles`, `OpenSettles`, `BlindWriteBegins`, ...), `Unmoved` that files a
step does not touch stay settled, and `ContentStep` puts them together.  A write
that ends uses an address copied before its argument was converted, and
`WriteGoesToItsFile` says that whatever was opened or closed meanwhile, its text
is dropped or goes to the one ofstream that has this address now, and counts as
put into the file of that stream.

It also proves, of the steps that files take:

* `BytesStay`: if no other process writes to the program's files,
  `Spec => NeverOverwrites`;
* `HandlesKeepThePromise`: `Spec => KeepsPromise`, that is,
  `FileHandles!Spec => DurableFiles!Spec` under the mapping of `Promise`;
* `ReadsReturnWhatWasWritten`: if `Quota < IntRange`, `Spec =>
  ReadsWhatWasWritten`.

All three rest on `Content`.  `BytesStay`
(`StepKeeps`): a step empties a file or puts bytes behind its end, for a lone
writer because `Content` says where it stands, for several appending ones
because an appending stream always writes at the end.  The refinement has one
lemma per kind of step, which shows that the step is about one file, with what
it does to it (`Began`, `Reopened`, `Wrote`, `Closed`, `GaveUp`, `Replaced`),
and leaves all others `Untouched`; `OneFile` turns that, once for all, into a
step of `DurableFiles` or a stutter.  What is stored stays a beginning of what
will be kept (`StoredBegins`), and what a close stores is all of it, by
`ClosedFilesAreDurable`.  For reads the invariant is `Sized`: a blind read has
the size of its file as long as no other process changes the file; this is
where the size must fit, and without that the run `blind_read` has a
counterexample.

**`ModuleLoaderProofs`**, loading, for any file system, number of modules,
nesting of `import()` calls and edits:

* `TypesHold`: `Spec => []TypeOK`;
* `OnlyWholeGraphsRun`: `Spec => []RunsOnlyWholeGraphs`;
* `StatusTellsWhatLoaded`: `Spec => []StatusTellsLoadFailures`.

Even the types are not inductive: that a module which is entered exists needs
its importer's graph to have been linked.  The invariant is
`LInv == TypeOK /\ Named /\ Graphs /\ Stack /\ Ended`.  `Named` makes the
code's lack of a table of modules precise: instances are named from the program
on, static imports come into being in their order, and an `import()` call makes
an instance behind all that its caller asked for, so no load ever makes an
instance anew (`NextImportIsNew`, `Grown`).  `Graphs` says how far linking has
come: whatever is not linked is in the tree of the one graph that is being
linked, none of which has begun, and which nothing imports; when no module is
left to enter, all of it is resolved.  `Stack` says that the loads around it
are of graphs that are linked, and so is all they have still to enter.  `Ended`
separates bodies that end from bodies that throw.  There is one lemma per
action; `OnlyWholeGraphsRun` then shows that two trees that share an instance
lie one in the other, and `StatusTellsWhatLoaded` adds `Exits`, where the exit
status was set.

**`ModuleBodiesProofs`**, that no body is entered again:

* `BodiesRunOnce`: `Spec => []NoBodyRunsTwice`.

A body is entered from the list of a load or by a microtask, so at most one of
these must ever name a module that has not ended, and none one that has.  To
`LInv` this adds `BInv == Roots /\ Drains /\ Lists /\ Fresh /\ Tells`.
`Lists`: no module stands in two lists, or twice in
one, and only roots and imports of what has begun stand there; this needs
`Roots`, that no load is of a static import, because otherwise a list of
imports could meet another load's root.  `Drains`: microtasks run when only the
program's load is left, and enter one module each.  `Fresh`: what is to be
entered has not ended, thrown or been suspended, and has no microtask.  `Tells`
is what makes the last of several awaited imports, and no other, continue a
module: whatever has gone on was told the end of all that it imports.

**`ModuleEndsProofs`**, what becomes of all that begins:

* `NobodyIsLeftWaiting`: `Spec => []NothingIsLeftWaiting`;
* `CyclesAreNotRun`: `Spec => []CyclesNeverRun`;
* `ImportedCodeRan`: `Spec => []ImportedCodeHasRun`;
* `ImportsGetAnswers`: `Spec => []ImportsAreAnswered`.

To `LInv` and `BInv` this adds `EInv == Waiters /\ Order /\ Ends`.  `Waiters`
says that each module that has begun is `Provided` for: it is still to be
entered, or something in its tree threw, or all it imports has begun and it has
a microtask or waits for an import the end of which is still to be told.  A
module is entered behind its imports, so this needs `Order`: in a list, the
imports of what has begun have begun or come before it (`Before`), and
importers come behind their imports (`Above`), so that what a body that throws
takes from the list has that body in its tree.  `Ends`: a process that
ends by itself has no load and no microtask left, and (`Depth`) modules nest no
deeper than `MaxStack` allows.  At the end, a module that neither ran nor has
something below it that threw must wait for an import of which the same is true
(`WaitsForAnother`), and so on, deeper than modules nest (`Highest`).
`CyclesAreNotRun` adds `AsFiled`, that without edits whatever was compiled is
what its path holds: if something in a module's tree has the path of the module
itself, what is below the one is below the other, and the tree, which was
resolved to its leaves when the module began, would have no end.
`ImportedCodeRan` adds `PInv == Rooted /\ Apart /\ Awaited /\ Promised`, over
what a step can do to the loads (`Moves`): the graph that an `import()` loads is
`Apart` from what all loads around it are to enter, and microtasks are of
modules that await, so when the list of that graph is empty and none of it
threw or awaits, the argument of `NobodyIsLeftWaiting` holds for that graph
alone.  `ImportsGetAnswers` adds `Callers`: each load but the program's was
asked for by the step that some body is at.  That body waits in the list of the
load below (`CallersWait`), so no step can move it on before the load has
returned, and no two steps ask for one instance (`AskedDiffer`), so the promise
that is then resolved is that of the call.

**`EngineProofs`**, a whole process, for any way to start it, program,
configuration and number of calls:

* `OutputGoesOut`: `Spec => []OutputSurvives`;
* `QuestionsAreSeen`: `Spec => []PromptIsSeen`;
* `PartsOutliveTheirUsers`: `Spec => []LifetimesNest`;
* `NamesAreGivenFirst`: `Spec => []GlobalsAreReady`;
* `LoadsAsTheLoader`: `Spec => Loader!Spec`, and `ProcessesLoadAsProved`: the
  eight invariants proved of the loader hold in every process;
* `ShellsAreTold`: `Spec => []ExitStatusTellsLoading`;
* `FlagsReachIt`: `Spec => []FlagsReachV8`;
* `ProcessesAreTyped`: `Spec => []TypeOK`.

The invariant of the first two is `Shown`: what was printed is what went out,
followed by the buffer, followed by what was lost, and something was lost only
after the stream broke or the process ended in a way that loses its buffer.  It
is needed because a step of the loader may end the process at any point, with
anything in the buffer.

The next two need to know how far the process has come, which no variable says:
`OnItsWay` states that for some `k` the first `k` steps of `Life(start)` are
done, and ties to `k` what is left (`todo`), what exists (`live`, by `Made`),
which names a context is made with (`Named`) and which ones JavaScript finds
(`Given`).  The functions of the code make four different lists, written out
and compared in `MainLifeIs` to `HostedLifeWithRequestIs`; `LivesInOrder` takes
from them the order of steps in which all four agree (`Order`), and the rest is
about that order.  A property such as `LifetimesNest` alone is not inductive:
freeing the platform keeps it only because V8 is gone by then.

`LoadsAsTheLoader` is a refinement without a mapping, as the loader's variables
are the process's own: each step of `Engine` is a step of the loader or leaves
its variables alone.  It carries every theorem of the three loader modules,
which are proved for any number of edits, over to a process, where there are
none.  `Told` ties the loader's status to what is left to do: while the process
goes on, the loader is `"running"` until the step `Module` is done and
`"exit 0"` after it.  `FlagsStand` says that V8's flags are none until
`SetFlags` is done, and then what `Config` makes of the table.  For the types,
`Heard` bounds what the console counts, and `OnItsWay`, `FlagsTyped` and the
loader's `TypesHold` give the rest.

**`ConfigProofs`**, flags, for tables of any length, any words and any flags
that V8 may have:

* `FlagsArrive`: the string that `get_v8_flags` writes sets the flag of each
  entry that `Arrives` to the value of that entry.

This is about what two recursive functions compute, so it takes induction over
data.  The library's induction theorems have an operator as a parameter and
cannot be cited, but a fact about sets of numbers can take their place:
`Climb` in `TextLemmas` (a set with 0 in it that has `n + 1` whenever it has
`n` contains all numbers, from the library's `WFMin`), and `Recursion`, which
says that a function defined step by step over `0..n` exists.  With these,
`ReadingIs` and `WrittenIs` show that `Reading` and `Written` are what their
definitions say, and what follows goes by `Climb`: `Layout` says at which
places the words of each entry end up, `Stays` that what is written first stays
there, `ReadyForIt` that V8 has read all before entry `i` and expects no value,
`FittingWord` that its word sets the flag, and `StandsToTheEnd` that no word
behind it changes it.  `FlagsTyped` bounds the values that flags may have.

**`TextLemmas`** also states what the proofs of contents and output need of
sequences put one behind the other, under a name for `\o` that proofs leave
unexpanded.

**`BundlerProofs`**, for any tokens, files, templates and disks:

* `ImportsAreLeftLate`: `Spec => []LeftImportsCameLate`;
* `WholeFilesAreComposed`: `Spec => []ComposesWholeFiles`;
* `TwinsMakeTheSame`: `Spec => []TwinsAgree`.

The first part is the algebra of `Spread`: it is the function its definition
says (`SpreadIs`), it goes through a text from piece to piece (`SpreadThen`),
and twice is once (`SpreadTwice`), all by `LetterByLetter`, induction over texts.
The other operators are reduced to it (`StripIs`, `PutFirstIs`, `PutAllIs`,
`FoundIs`).  `Typed` is the invariant that all else needs: what was put in was
there, and the bundle is written when no import is left.  `Late` says of each
import in the text that it is still to be replaced or came late.  `Composed` is
what `ComposesWholeFiles` says of the end, at every step: before import `n`, the
text is the template with what imports 1 to `n - 1` stand for put in; it is kept
because no file that was put in has an import for the next `replace` to find
(`OneMore`).  `OneByOne` is the same for the twin, which replaces one statement
at a time: the template is some `a` followed by some `b`, all imports of `a` are
replaced and none of `b`, so the first statement that `replace` finds is the
first of `b` (`OneTaken`).  That the two agree in the end follows from the
algebra, once white space, which one strips and the other does not, is taken
away.

**Model-checked only**: liveness (`Terminates`, `EndsOrWaits`), which is out of
the prover's reach, as `ENABLED` is.  Every other property of a passing run is a
theorem.

## 5. Where code and documents disagree

1. `blind_write_file` passes the text as a `char *` (`fs:61`): what follows a
   Nul is dropped in silence, although README.md:41 promises the totality of
   the content (run `blind_write`).
2. `blind_read_file` keeps the size in an `int` (`util:13`): a file of
   2^32 + n bytes is returned as its first n, one of 2^31 ends the process (run
   `blind_read`).
3. `import()` of a module whose body throws is fulfilled: `ExecuteModule` looks
   at whether `Evaluate` returned a value, which it does, a rejected promise
   (`modules:47-59`), against v8-callbacks.h:364-366 (run `rejections`).
4. `Winx.console.log` checks for exactly two arguments (`console:51`) and
   aborts the process otherwise; README.md:76 calls it with one (run
   `console_one_arg`).
5. `get_v8_flags` writes strings, booleans and integers (`config:43-52`); a
   float is dropped in silence, although README.md:16-17 says that any flag can
   be configured (run `float_flags`).

## 6. Not modelled

What the code leaves undefined is so in the models, and nothing is promised
after it.  Most of all: nothing keeps a program from using a handle it has
closed (`util:75`), or from closing one in the `toString` of what it writes to
it (`fs:131-133`), and either reaches freed memory.  The models take these steps
and end there; they say what a program may rely on as long as it does not, and,
where the address was handed out again, also if it does.

Left to the code's design: handles that are garbage collected without being
closed are never freed (`fs:98`); writes to a file that failed to open are
dropped, and nobody is told (`util:46`).

Simplified: a handle's read takes one step, although the library may read a
large file buffer by buffer while another process writes to it; what is
shown of such a read holds if nobody writes to the file while it goes on.  A
blind read, which measures first, is split.  Where synchronous `import()` calls
use V8's stack up, the model has all of V8's answers at `MaxStack`: the module cannot be linked, its
body throws, or, in microtasks, the heap ends and V8 aborts.  Of V8's flags,
`no-x` as a key and `_` for `-` in a key are names of their own in `Config`; in
V8 they are other spellings of a flag.  Tables that set one flag in two
spellings are not modelled, like all that contradicts itself.

Of the modelled parts: reading a directory as a file; space that is freed on a
full disk while a program runs; awaits of promises that never settle and module
bodies that run forever; several requests for one specifier within a module
(V8 makes one request of them); JavaScript that runs while a console call
converts its arguments; output of the Java program itself; destructors that run
during `exit`; implications and contradictions between V8's flags; a second
start of V8 in one process, which `Winx.java` never makes; the templates of
single functions (`winx_binding.hpp`); what the embedded polyfill script
defines.  `Engine` has the loader's files fixed (`MaxEdits` is 0 in its
INSTANCE; `modules_edited` changes them) and does not hold the state of
`FileHandles`: the end of a process is an action of both, and no property
relates console and files.

Nearly all C and C++ under `src/include` is vendored (V8's headers, libuv,
toml++, CLI11, termcolor).  It is no part of the program's own logic, and what
the program needs of it is modelled where it is used, so the share of all lines
under `src` that the models stand for is small although they cover the
program's own sources.  Examples, build files and the assets under `docs` are
outside the program too.

## 7. Plan

Done: `StdStreams`, `FileHandles` with full disks, its refinement of
`DurableFiles` and its proofs of ownership, of contents, of reads and of
the refinement; `ModuleLoader` with top-level await and its
proofs of types, whole graphs, exit status, single runs, ends, cycles
and `import()`; `Engine` with `Console` and
`Config`, its refinement of `ModuleLoader` and its proofs of output, order of
life, exit status, flags and types; `Bundler` and its proofs.  All invariants
and action properties of the runs, and both refinements, are proved.

What is left: `FileHandles` composed with `Engine`, if a property is found that
relates what handles hold to how the process ends beyond what `Exit` says.
