------------------------------ MODULE MCEngine ------------------------------
(***************************************************************************)
(* Small instances of Engine for TLC: hosts, arguments, requests, polyfill *)
(* scripts, flags and programs, each varied with the others at their usual *)
(* values.                                                                 *)
(***************************************************************************)
EXTENDS Engine, TLC

CONSTANTS p, b, cwd, lib

MCNames == {p, b}
MCFolders == {cwd, lib}

Leaf == [valid |-> TRUE, imports |-> << >>, body |-> << >>,
         exports |-> TRUE, throws |-> FALSE]
Broken   == [Leaf EXCEPT !.valid = FALSE]
Throwing == [Leaf EXCEPT !.throws = TRUE]
Static   == [Leaf EXCEPT !.imports = <<[name |-> b, named |-> TRUE]>>]
Dynamic  == [Leaf EXCEPT !.body = <<b, Await>>]
Endless  == [Leaf EXCEPT !.body = <<Await, p>>]
MCContents == {Leaf, Broken, Throwing, Static, Dynamic, Endless}

\* p alone, also when it imports itself over and over, importing b from the
\* modules folder, or asking for it with import().
Alone(c) == <<cwd, p>> :> c
With(c, where, d) == <<cwd, p>> :> c @@ <<where, b>> :> d
MCTrees == {Alone(c) : c \in {Leaf, Broken, Throwing, Endless}}
           \cup {With(Static, lib, d) : d \in {Leaf, Broken, Static}}
           \cup {With(Dynamic, cwd, d) : d \in {Leaf, Broken, Throwing, Static}}

\* V8's flags, and entries of a [v8] table in the order of their keys.
MCFlags == "expose-wasm" :> "bool" @@ "max-heap-size" :> "int"
           @@ "min-inlining-frequency" :> "float" @@ "trace-file" :> "string"
Entry(key, type, value) == [key |-> key, type |-> type, value |-> value, more |-> << >>]
Spaced == [Entry("trace-file", "string", "a") EXCEPT
             !.more = <<Config!Word(None, FALSE, "b"), Config!Word("expose-wasm", FALSE, None)>>]
MCEntries ==
  [bool |-> {Entry("expose-wasm", "bool", "false"), Entry("expose-wasm", "string", "yes")},
   int |-> {Entry("max-heap-size", "int", "64"), Entry("max-heap-size", "string", "64"),
            Entry("max-heap-size", "bool", "true"), Entry("max-heap-size", "float", "0.5")},
   float |-> {Entry("min-inlining-frequency", "float", "0.5"),
              Entry("min-inlining-frequency", "int", "64"),
              Entry("min-heap", "int", "64")},
   string |-> {Entry("trace-file", "string", "a"), Spaced, Entry("trace-file", "bool", "true")}]

One(S) == {<<e>> : e \in S} \cup {<< >>}
MCTables == {t1 \o t2 \o t3 \o t4 : t1 \in One(MCEntries.bool), t2 \in One(MCEntries.int),
                                    t3 \in One(MCEntries.float), t4 \in One(MCEntries.string)}

Configured(v8, winx) == [parses |-> TRUE, v8 |-> v8, winx |-> winx]
Unparsed == [parses |-> FALSE, v8 |-> << >>, winx |-> << >>]
MCScripts == "ok.js" :> "ok" @@ "throws.js" :> "throws"
Polyfilled(file) == Configured(<< >>, "modules_folder" :> lib @@ "polyfills_file" :> file)

Usual == [host |-> "winx", args |-> "ok", debug |-> FALSE, request |-> "none",
          config |-> Configured(<< >>, "modules_folder" :> lib),
          scripts |-> MCScripts, files |-> Alone(Leaf)]

\* Starts that differ from the usual one in what is loaded, in the host, and in
\* what it is given.
MCStarts ==
  {[Usual EXCEPT !.files = t] : t \in MCTrees}
  \cup {[Usual EXCEPT !.files = With(Static, lib, Leaf), !.debug = TRUE],
        [Usual EXCEPT !.files = With(Dynamic, cwd, Static), !.debug = TRUE]}
  \cup {[Usual EXCEPT !.config = Polyfilled(file), !.request = r] :
          file \in {"ok.js", "throws.js", "missing.js"}, r \in {"good", "bad"}}
  \cup {[Usual EXCEPT !.host = "java", !.config = c] :
          c \in {Unparsed, Polyfilled("ok.js"), Polyfilled("throws.js")}}
  \cup {[Usual EXCEPT !.args = "bad"]}
  \cup {[Usual EXCEPT !.config = Configured(t, << >>), !.files = Alone(Broken)] : t \in MCTables}

\* A program on its own, and tables with one entry.
UsualStarts == {Usual}
OneFlagStarts == {s \in MCStarts : Len(s.config.v8) = 1}
=============================================================================
