---------------------------- MODULE ModuleLoader ----------------------------
(***************************************************************************)
(* How Winx loads and runs ECMAScript modules (src/winx_modules.cpp, and   *)
(* the end of InternalExecuteJavascript in src/winx.cpp): the program file *)
(* is compiled, its imports are resolved by a callback, its graph is       *)
(* linked and evaluated, and code that runs may import more with import(). *)
(*                                                                         *)
(* No module is ever looked up in a cache: every import makes an instance  *)
(* of its own, so what V8 sees as a graph is a tree, and an import cycle   *)
(* is a tree without end.  An instance is named by its place in the tree:  *)
(* the program is <<1>>, and the k-th import of m is Append(m, k),         *)
(* import() calls counted after the static imports.                        *)
(*                                                                         *)
(* The walks over the tree are V8's; that they call ResolveModuleCallback  *)
(* for each import of a module before they enter any of them is modelled   *)
(* because files and configuration can change between two calls.  A module *)
(* body is a sequence of import() calls and of top-level awaits of settled *)
(* values; it may end by throwing, and does not run forever.               *)
(*                                                                         *)
(* A body that awaits is continued by a microtask, once the program's own  *)
(* Evaluate has unwound: V8 then runs all microtasks before Evaluate       *)
(* returns to ExecuteModule.  What imports that module runs after it, in a *)
(* microtask too.                                                          *)
(***************************************************************************)
EXTENDS Naturals, Sequences, FiniteSets

CONSTANTS
  Names,     \* module specifiers, without the "./" that the callback strips
  Program,   \* the one on the command line
  Await,     \* the step of a body that is an await
  Cwd,       \* the folder of paths used as they are given
  Folders,   \* what winx.modules_folder can be; Cwd if it is absent or empty
  Contents,  \* what a file can hold
  Trees,     \* the file systems the program may start with
  MaxStack,  \* how deep modules nest before V8 finds the native stack used up,
             \*   or the heap, if each of them runs in a microtask of its own
  MaxEdits   \* bounds how often files or configuration change

\* What matters of a module's source: whether it compiles, what it imports (and
\* whether it names an export of what it imports), which names its body calls
\* import() on and where it awaits, whether it exports the names others import,
\* and whether its body throws in the end.
Source == [valid: BOOLEAN, imports: Seq([name: Names, named: BOOLEAN]),
           body: Seq(Names \cup {Await}), exports: BOOLEAN, throws: BOOLEAN]

Paths == Folders \X Names

\* read_file of a path that cannot be opened returns "", a module of its own.
Empty == [valid |-> TRUE, imports |-> << >>, body |-> << >>,
          exports |-> FALSE, throws |-> FALSE]

ASSUME LoaderAssumption ==
  /\ Program \in Names /\ Await \notin Names /\ Cwd \in Folders
  /\ Contents \subseteq Source
  /\ \A t \in Trees : DOMAIN t \subseteq Paths /\ t \in [DOMAIN t -> Contents]
  /\ MaxStack \in Nat \ {0} /\ MaxEdits \in Nat

VARIABLES
  files,   \* path -> what the file holds
  folder,  \* winx.modules_folder, as the configuration file has it now
  inst,    \* instance -> the path it was asked for and the source compiled
  loads,   \* the module graphs being loaded, innermost last: import() nests them
  at,      \* instance whose evaluation began (kEvaluating) -> steps of its body done
  jobs,    \* V8's microtasks: the modules to continue, or whose end to tell, in order
  ran,     \* instances whose body ran to its end
  threw,   \* instances whose body threw
  promise, \* the instance an import() call asked for -> what its promise became
  status,  \* "running", or the exit status of the process
  edits    \* how often files or configuration changed

vars == <<files, folder, inst, loads, at, jobs, ran, threw, promise, status, edits>>
program == <<inst, loads, at, jobs, ran, threw, promise, status>>
world == <<files, folder, edits>>

Id == Seq(Nat \ {0})
begun == DOMAIN at

TypeOK ==
  /\ DOMAIN files \subseteq Paths /\ files \in [DOMAIN files -> Contents]
  /\ folder \in Folders
  /\ DOMAIN inst \subseteq Id
  /\ inst \in [DOMAIN inst -> [path: Paths, code: Contents \cup {Empty}]]
  /\ loads \in Seq([root: Id, phase: {"link", "evaluate", "drain"}, todo: Seq(Id)])
  /\ begun \subseteq DOMAIN inst /\ at \in [begun -> Nat]
  /\ jobs \in Seq(begun)
  /\ ran \subseteq begun /\ threw \subseteq begun /\ ran \cap threw = {}
  /\ DOMAIN promise \subseteq DOMAIN inst
  /\ promise \in [DOMAIN promise -> {"fulfilled", "rejected"}]
  /\ status \in {"running", "exit 0", "exit 1", "aborted"}
  /\ edits \in 0..MaxEdits

-----------------------------------------------------------------------------
Read(p) == IF p \in DOMAIN files THEN files[p] ELSE Empty

Imports(m) == inst[m].code.imports
Body(m)    == inst[m].code.body
Awaits(m)  == \E k \in DOMAIN Body(m) : Body(m)[k] = Await
Kids(m)    == [k \in DOMAIN Imports(m) |-> Append(m, k)]

\* The load in progress, the rest of which follows todo.
Top == loads[Len(loads)]
SetTop(l) == loads' = [loads EXCEPT ![Len(loads)] = l]
SetTodo(ms) == SetTop([Top EXCEPT !.todo = ms])

\* Bug: a module that did not compile is used.
LoadModuleUnchecked(m, p) ==
  /\ inst' = [x \in DOMAIN inst \cup {m} |->
                IF x = m THEN [path |-> p, code |-> Read(p)] ELSE inst[x]]
  /\ UNCHANGED status

\* LoadModule: the file on path p is compiled as instance m.  A source that
\* does not compile ends the process: CheckModule calls exit(1) for it.
LoadModule(m, p) ==
  /\ inst' = [x \in DOMAIN inst \cup {m} |->
                IF x = m THEN [path |-> p, code |-> Read(p)] ELSE inst[x]]
  /\ status' = IF Read(p).valid THEN status ELSE "exit 1"

\* LoadModule and the start of InstantiateModule on its result.
Load(m, p) ==
  /\ LoadModule(m, p)
  /\ loads' = Append(loads, [root |-> m, phase |-> "link", todo |-> <<m>>])

\* Bugs: the promise of an import() is left alone once something threw; an
\* exception that stops the program sets the exit status.
ReturnIfNothingThrew ==
  /\ loads' = SubSeq(loads, 1, Len(loads) - 1)
  /\ IF Len(loads) = 1
     THEN status' = "exit 0" /\ UNCHANGED promise
     ELSE /\ promise' = [x \in DOMAIN promise \cup (IF threw = {} THEN {Top.root} ELSE {}) |->
                           IF x = Top.root THEN "fulfilled" ELSE promise[x]]
          /\ UNCHANGED status
ReturnTellingExceptions ==
  /\ loads' = SubSeq(loads, 1, Len(loads) - 1)
  /\ IF Len(loads) = 1
     THEN status' = (IF threw = {} THEN "exit 0" ELSE "exit 1") /\ UNCHANGED promise
     ELSE /\ promise' = [x \in DOMAIN promise \cup {Top.root} |->
                           IF x = Top.root THEN "fulfilled" ELSE promise[x]]
          /\ UNCHANGED status

\* A load is over: the program's ends the process, whether or not its promise
\* was rejected; an import() has its promise resolved with the namespace.
Return ==
  /\ loads' = SubSeq(loads, 1, Len(loads) - 1)
  /\ IF Len(loads) = 1
     THEN status' = "exit 0" /\ UNCHANGED promise
     ELSE /\ promise' = [x \in DOMAIN promise \cup {Top.root} |->
                           IF x = Top.root THEN "fulfilled" ELSE promise[x]]
          /\ UNCHANGED status

-----------------------------------------------------------------------------
Init ==
  /\ files \in Trees /\ folder \in Folders
  /\ inst = << >> /\ loads = << >>
  /\ at = << >> /\ jobs = << >> /\ ran = {} /\ threw = {} /\ promise = << >>
  /\ status = "running" /\ edits = 0

\* InternalExecuteJavascript: the program is loaded by the name it was given.
Start ==
  /\ status = "running" /\ loads = << >>
  /\ Load(<<1>>, <<Cwd, Program>>)
  /\ UNCHANGED <<at, jobs, ran, threw, promise, world>>

Working(phase) == status = "running" /\ loads # << >> /\ Top.phase = phase

\* Bug: imports are counted from zero.
ResolveFromZero ==
  /\ Working("link") /\ Top.todo # << >>
  /\ LET m == Head(Top.todo)
         k == Cardinality({j \in DOMAIN Imports(m) : Append(m, j) \in DOMAIN inst})
     IN  /\ Len(m) <= MaxStack /\ k < Len(Imports(m))
         /\ LoadModule(Append(m, k), <<folder, Imports(m)[k + 1].name>>)
  /\ UNCHANGED <<loads, at, jobs, ran, threw, promise, world>>

\* ResolveModuleCallback for the next import of the module being linked: the
\* configuration is read again, and the specifier looked up in its folder.
ResolveModuleCallback ==
  /\ Working("link") /\ Top.todo # << >>
  /\ LET m == Head(Top.todo)
         k == Cardinality({j \in DOMAIN Imports(m) : Append(m, j) \in DOMAIN inst}) + 1
     IN  /\ Len(m) <= MaxStack /\ k <= Len(Imports(m))
         /\ LoadModule(Append(m, k), <<folder, Imports(m)[k].name>>)
  /\ UNCHANGED <<loads, at, jobs, ran, threw, promise, world>>

\* Bug: that a module nests too deep to be linked is not looked at.
LinkUnchecked ==
  /\ Working("link") /\ Top.todo # << >>
  /\ LET m == Head(Top.todo)
     IN  IF Len(m) > MaxStack
         THEN SetTop([Top EXCEPT !.phase = "evaluate", !.todo = <<Top.root>>])
         ELSE /\ \A k \in DOMAIN Imports(m) : Append(m, k) \in DOMAIN inst
              /\ SetTodo(Kids(m) \o Tail(Top.todo))
  /\ UNCHANGED <<inst, at, jobs, ran, threw, promise, status, world>>

\* InstantiateModule goes on to the imports of a module all of which are
\* resolved; it fails, and CheckModule exits, if it nests too deep.
LinkImports ==
  /\ Working("link") /\ Top.todo # << >>
  /\ LET m == Head(Top.todo)
     IN  IF Len(m) > MaxStack
         THEN status' = "exit 1" /\ UNCHANGED loads
         ELSE /\ \A k \in DOMAIN Imports(m) : Append(m, k) \in DOMAIN inst
              /\ SetTodo(Kids(m) \o Tail(Top.todo))
              /\ UNCHANGED status
  /\ UNCHANGED <<inst, at, jobs, ran, threw, promise, world>>

\* The static imports of instance m, directly or not, and m itself.
InTree(m, n) ==
  /\ Len(m) <= Len(n) /\ SubSeq(n, 1, Len(m)) = m
  /\ \A k \in Len(m)..(Len(n) - 1) :
       n[k + 1] \in DOMAIN Imports(SubSeq(n, 1, k))
Tree(m) == {n \in DOMAIN inst : InTree(m, n)}

\* Every name a module imports is one that what it imports exports.
NamesResolve(m) ==
  \A k \in DOMAIN Imports(m) :
    Imports(m)[k].named => inst[Append(m, k)].code.exports

\* Bugs: the result of InstantiateModule is not looked at; the promise of an
\* import() is resolved once the module is linked.
FinishLinkingUnchecked ==
  /\ Working("link") /\ Top.todo = << >>
  /\ SetTop([Top EXCEPT !.phase = "evaluate", !.todo = <<Top.root>>])
  /\ UNCHANGED <<inst, at, jobs, ran, threw, promise, status, world>>
FinishLinkingAndReturn ==
  /\ Working("link") /\ Top.todo = << >>
  /\ IF Len(loads) > 1
     THEN Return
     ELSE /\ SetTop([Top EXCEPT !.phase = "evaluate", !.todo = <<Top.root>>])
          /\ UNCHANGED <<status, promise>>
  /\ UNCHANGED <<inst, at, jobs, ran, threw, world>>

\* InstantiateModule ends: a name that is not exported makes it fail.
FinishLinking ==
  /\ Working("link") /\ Top.todo = << >>
  /\ IF \A m \in Tree(Top.root) : NamesResolve(m)
     THEN SetTop([Top EXCEPT !.phase = "evaluate", !.todo = <<Top.root>>]) /\ UNCHANGED status
     ELSE status' = "exit 1" /\ UNCHANGED loads
  /\ UNCHANGED <<inst, at, jobs, ran, threw, promise, world>>

Evaluating ==
  status = "running" /\ loads # << >> /\ Top.phase \in {"evaluate", "drain"}

\* Bug: a module is evaluated without its imports.
EvaluateAlone ==
  /\ Evaluating /\ Top.todo # << >> /\ Head(Top.todo) \notin begun
  /\ at' = [x \in begun \cup {Head(Top.todo)} |-> IF x \in begun THEN at[x] ELSE 0]
  /\ UNCHANGED <<inst, loads, jobs, ran, threw, promise, status, world>>

\* Evaluate enters a module: first its imports are evaluated.
EvaluateImports ==
  /\ Evaluating /\ Top.todo # << >> /\ Head(Top.todo) \notin begun
  /\ at' = [x \in begun \cup {Head(Top.todo)} |-> IF x \in begun THEN at[x] ELSE 0]
  /\ SetTodo(Kids(Head(Top.todo)) \o Top.todo)
  /\ UNCHANGED <<inst, jobs, ran, threw, promise, status, world>>

\* All that m imports ran.
Ready(m) == \A k \in DOMAIN Imports(m) : Append(m, k) \in ran

\* Evaluate leaves a module some import of which awaits or waits.
AwaitImports ==
  /\ Evaluating /\ Top.todo # << >> /\ Head(Top.todo) \in begun
  /\ ~Ready(Head(Top.todo))
  /\ SetTodo(Tail(Top.todo))
  /\ UNCHANGED <<inst, at, jobs, ran, threw, promise, status, world>>

\* The body of m runs; k is its next step.
InBody(m) ==
  Evaluating /\ Top.todo # << >> /\ m = Head(Top.todo) /\ m \in begun /\ Ready(m)
HasRoom(m) == Len(m) < MaxStack
Next1(m) == at[m] + 1

\* ResolveDynamicModuleCallback, up to its call of ExecuteModule: the name is
\* used as it is, without the folder of static imports.  The stack may be used up
\* before the module it asks for is linked.
ResolveDynamicModuleCallback ==
  \E m \in begun :
    /\ InBody(m) /\ Next1(m) <= Len(Body(m)) /\ Body(m)[Next1(m)] # Await
    /\ at' = [at EXCEPT ![m] = @ + 1]
    /\ Load(Append(m, Len(Imports(m)) + Next1(m)), <<Cwd, Body(m)[Next1(m)]>>)
    /\ UNCHANGED <<jobs, ran, threw, promise, world>>

\* The body awaits: a microtask will go on with it.
Suspend ==
  \E m \in begun :
    /\ InBody(m) /\ HasRoom(m) /\ Next1(m) <= Len(Body(m)) /\ Body(m)[Next1(m)] = Await
    /\ at' = [at EXCEPT ![m] = @ + 1]
    /\ jobs' = Append(jobs, m)
    /\ SetTodo(Tail(Top.todo))
    /\ UNCHANGED <<inst, ran, threw, promise, status, world>>

\* What imports m, and whether it waits for no other module: all of them ran, and
\* of none of them the end is still to be told.
Importer(m) == SubSeq(m, 1, Len(m) - 1)
Told(m) == m \in ran /\ \A j \in DOMAIN jobs : jobs[j] # m
WaitsFor(m, up) ==
  /\ up \in begun /\ m[Len(m)] \in DOMAIN Imports(up)
  /\ \A k \in DOMAIN Imports(up) : Append(up, k) = m \/ Told(Append(up, k))

\* Bug: the module goes on as soon as all that it imports ran.
WaitingForBodies(m) == IF Importer(m) \in begun /\ m[Len(m)] \in DOMAIN Imports(Importer(m))
                          /\ \A k \in DOMAIN Imports(Importer(m)) : Append(Importer(m), k) \in ran \cup {m}
                       THEN <<Importer(m)>> ELSE << >>

\* The module that waits for m alone, if there is one.
Waiting(m) == IF WaitsFor(m, Importer(m)) THEN <<Importer(m)>> ELSE << >>

\* The body of a module ends.  That it did is told in a microtask if the module
\* awaited, and at once, in the same microtask, if it only waited for imports.
FinishBody ==
  \E m \in begun :
    /\ InBody(m) /\ HasRoom(m) /\ at[m] = Len(Body(m)) /\ ~inst[m].code.throws
    /\ ran' = ran \cup {m}
    /\ jobs' = IF Awaits(m) THEN Append(jobs, m) ELSE jobs
    /\ SetTodo(Tail(Top.todo) \o
               (IF Top.phase = "drain" /\ ~Awaits(m) THEN Waiting(m) ELSE << >>))
    /\ UNCHANGED <<inst, at, threw, promise, status, world>>

\* Bug: evaluation waits for somebody to handle the rejected promise.
ThrowAndWait ==
  \E m \in begun :
    /\ InBody(m) /\ inst[m].code.throws /\ at[m] = Len(Body(m))
    /\ threw' = threw \cup {m}
    /\ UNCHANGED <<inst, loads, at, jobs, ran, promise, status, world>>

\* The body throws, or V8 has no stack left to run it.  Evaluate gives up all
\* that waits for it, and its promise, which nobody looks at, is rejected.
Throw ==
  \E m \in begun :
    /\ InBody(m)
    /\ \/ HasRoom(m) /\ inst[m].code.throws /\ at[m] = Len(Body(m))
       \/ ~HasRoom(m)
    /\ threw' = threw \cup {m}
    /\ SetTodo(<< >>)
    /\ UNCHANGED <<inst, at, jobs, ran, promise, status, world>>

\* Modules that import() each other from microtasks use up the heap: V8 aborts.
OutOfMemory ==
  \E m \in begun :
    /\ InBody(m) /\ ~HasRoom(m) /\ loads[1].phase = "drain"
    /\ status' = "aborted"
    /\ UNCHANGED <<inst, loads, at, jobs, ran, threw, promise, world>>

\* The program's Evaluate has unwound: V8 runs the microtask that comes next.
RunMicrotask ==
  /\ Evaluating /\ Top.todo = << >> /\ Len(loads) = 1 /\ jobs # << >>
  /\ LET m == Head(jobs)
     IN  SetTop([Top EXCEPT !.phase = "drain",
                            !.todo = IF m \in ran THEN Waiting(m) ELSE <<m>>])
  /\ jobs' = Tail(jobs)
  /\ UNCHANGED <<inst, at, ran, threw, promise, status, world>>

\* Bug: nobody runs the microtasks.
FinishEvaluationAtOnce ==
  /\ Evaluating /\ Top.todo = << >>
  /\ Return
  /\ UNCHANGED <<inst, at, jobs, ran, threw, world>>

\* ExecuteModule returns to whoever asked for the module.  Nothing waits for
\* modules that an import() left suspended.
FinishEvaluation ==
  /\ Evaluating /\ Top.todo = << >> /\ (Len(loads) = 1 => jobs = << >>)
  /\ Return
  /\ UNCHANGED <<inst, at, jobs, ran, threw, world>>

\* Another program, or one of the modules, changes a file or the configuration.
EditFile(p, c) ==
  /\ status = "running" /\ edits < MaxEdits
  /\ files' = [x \in DOMAIN files \cup {p} |-> IF x = p THEN c ELSE files[x]]
  /\ edits' = edits + 1
  /\ UNCHANGED <<folder, program>>
EditFolder(f) ==
  /\ status = "running" /\ edits < MaxEdits
  /\ folder' = f
  /\ edits' = edits + 1
  /\ UNCHANGED <<files, program>>

Step ==
  \/ Start \/ ResolveModuleCallback \/ LinkImports \/ FinishLinking
  \/ EvaluateImports \/ AwaitImports \/ ResolveDynamicModuleCallback \/ Suspend
  \/ FinishBody \/ Throw \/ OutOfMemory \/ RunMicrotask \/ FinishEvaluation

Next ==
  \/ Step
  \/ \E p \in Paths, c \in Contents : EditFile(p, c)
  \/ \E f \in Folders : EditFolder(f)

Spec == Init /\ [][Next]_vars

\* The engine is one thread that nothing can block.
FairSpec == Spec /\ WF_vars(Step)

-----------------------------------------------------------------------------
\* No code runs of a graph that is not whole: when a module begins, everything it
\* imports, directly or not, was loaded, compiled, and exports what is imported
\* of it.  CheckModule exits rather than go on (winx_modules.cpp:20-37).
RunsOnlyWholeGraphs ==
  \A m \in begun : \A n \in Tree(m) :
    /\ inst[n].code.valid
    /\ \A k \in DOMAIN Imports(n) : Append(n, k) \in DOMAIN inst
    /\ NamesResolve(n)

\* An import() call is answered before the body that made it goes on: while the
\* body is at it, the module it asked for is being loaded, and a body that goes on,
\* awaits, ends or throws leaves none pending, whatever became of those modules,
\* however loads nest and whatever microtasks run (winx_modules.cpp:64-78).
ImportsAreAnswered ==
  \A m \in begun : \A k \in 1..at[m] :
    Body(m)[k] # Await =>
      LET d == Append(m, Len(Imports(m)) + k)
      IN  \/ d \in DOMAIN promise
          \/ /\ k = at[m] /\ m \notin ran \cup threw
             /\ \E j \in DOMAIN loads : loads[j].root = d

\* When the process has ended by itself, every module whose evaluation began ran
\* to its end, or something it imports threw: no module is left suspended, and
\* none waits for an import that is done (winx_modules.cpp:47, winx.cpp:25-28).
NothingIsLeftWaiting ==
  status = "exit 0" => \A m \in begun : m \in ran \/ Tree(m) \cap threw # {}

\* A body that came to its end, or threw, is never entered again, however many of
\* the modules it imports await: it goes on when the last of them is done, and only
\* then (winx_modules.cpp:47).
NoBodyRunsTwice == \A m \in ran \cup threw : ~InBody(m)

\* Once an import() is fulfilled all of its module's graph has run, unless some
\* of it threw or awaits (winx_modules.cpp:72-76).
ImportedCodeHasRun ==
  \A m \in DOMAIN promise :
    promise[m] = "fulfilled" =>
      \/ Tree(m) \subseteq ran
      \/ \E n \in Tree(m) : n \in threw \/ Awaits(n)

\* A module that statically imports itself, directly or not, never runs:
\* resolution makes new instances until the stack is used up, and the process
\* exits (winx_modules.cpp:80-109 keeps no table of modules).
CyclesNeverRun ==
  edits = 0 => \A m \in begun : \A n \in Tree(m) : n # m => inst[n].path # inst[m].path

\* The exit status tells failures to load from all others: it is 1 only if a
\* module did not compile, did not link or nested too deep, and 0 only if none
\* did, even if the program threw (winx.cpp:28, 205).
StatusTellsLoadFailures ==
  /\ status = "exit 1" => loads # << >> /\ Top.phase = "link" /\ Top.root \notin begun
  /\ status = "exit 0" => \A m \in DOMAIN inst : inst[m].code.valid /\ NamesResolve(m)

\* Loading ends whatever the imports are.
Terminates == <>(status # "running")

\* v8-callbacks.h:364-366: "In case of an exception, the embedder must reject
\* this promise with the exception."  ExecuteModule ignores it.
FailedImportsAreRejected ==
  \A m \in DOMAIN promise : Tree(m) \cap threw # {} => promise[m] = "rejected"
=============================================================================
