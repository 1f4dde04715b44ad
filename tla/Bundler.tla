------------------------------ MODULE Bundler ------------------------------
(***************************************************************************)
(* How the polyfill script that is embedded in Winx is put together:       *)
(* winx_bundler.py, which the build runs, and its twin for Winx itself,    *)
(* examples/bundle.js.  Each finds the import statements of a template and *)
(* replaces them, one after the other, by the files they name.             *)
(*                                                                         *)
(* A text is a sequence of tokens.  The token f, for a file f, stands for  *)
(* the statement that imports f; all other tokens mean nothing, but for    *)
(* white space, which Python strips, and the patterns that JavaScript's    *)
(* replace expands.                                                        *)
(***************************************************************************)
EXTENDS Naturals, Sequences, FiniteSetsExt

CONSTANTS
  Tokens,   \* what texts are made of
  Files,    \* names of polyfills
  Blank,    \* white space
  Pattern,  \* "$&" in a replacement: the text it replaces
  Templates, \* the templates there may be
  Disks     \* the polyfills on disk: <<directory, name>> -> text

ASSUME BundlerAssumption ==
  /\ Files \subseteq Tokens /\ {Blank, Pattern} \subseteq Tokens \ Files
  /\ Templates \subseteq Seq(Tokens)
  /\ \A d \in Disks : d \in [DOMAIN d -> Seq(Tokens)]

Tools == {"winx_bundler.py", "bundle.js"}

VARIABLES
  disk, template,
  text, \* tool -> the bundle so far
  next, \* tool -> the import it replaces next
  done  \* tool -> "no", "written" or "failed"

vars == <<disk, template, text, next, done>>

\* What becomes of s if each token t is replaced by the text put[t].
Spread(s, put) ==
  LET upto[i \in 0..Len(s)] == IF i = 0 THEN << >> ELSE upto[i - 1] \o put[s[i]]
  IN  upto[Len(s)]

Strip(s) ==
  LET solid == {i \in DOMAIN s : s[i] # Blank}
  IN  IF solid = {} THEN << >> ELSE SubSeq(s, Min(solid), Max(solid))

\* The import statements found in the template, as it was before any was replaced.
imports == Spread(template, [t \in Tokens |-> IF t \in Files THEN <<t>> ELSE << >>])

Exists(dir, f) == <<dir, f>> \in DOMAIN disk

\* read_file, of a file that is in one of the two places.
read_file(f) == Strip(disk[IF Exists(".", f) THEN <<".", f>> ELSE <<"polyfills", f>>])

\* Bug: the current directory is never looked at.
safe_read_polyfills(f) ==
  IF Exists("polyfills", f) THEN disk[<<"polyfills", f>>] ELSE << >>

\* safe_read_file: a file that is not there reads as an empty one.
safe_read_file(f) ==
  IF Exists("polyfills", f) /\ disk[<<"polyfills", f>>] # << >> THEN disk[<<"polyfills", f>>]
  ELSE IF Exists(".", f) THEN disk[<<".", f>>] ELSE << >>

PutAll(s, f, by) == Spread(s, [t \in Tokens |-> IF t = f THEN by ELSE <<t>>])
PutFirst(s, f, by) ==
  IF f \in Range(s)
  THEN LET i == Min({j \in DOMAIN s : s[j] = f})
       IN  SubSeq(s, 1, i - 1) \o PutAll(by, Pattern, <<f>>) \o SubSeq(s, i + 1, Len(s))
  ELSE s

-----------------------------------------------------------------------------
Init ==
  /\ disk \in Disks /\ template \in Templates
  /\ text = [t \in Tools |-> IF t = "bundle.js" THEN template ELSE Strip(template)]
  /\ next = [t \in Tools |-> 1] /\ done = [t \in Tools |-> "no"]

Replacing(tool) == done[tool] = "no" /\ next[tool] <= Len(imports)

\* Bugs: each import is replaced in the template as it was; only once.
ReplacedInTemplate(f) == PutAll(template, f, read_file(f))
ReplacedOnce(f) == PutFirst(text["winx_bundler.py"], f, read_file(f))

Replaced(f) == PutAll(text["winx_bundler.py"], f, read_file(f))

\* main of winx_bundler.py: every such statement there is by now is replaced; if
\* the file is in neither place, an exception ends it and nothing is written.
python ==
  /\ Replacing("winx_bundler.py")
  /\ LET f == imports[next["winx_bundler.py"]]
     IN  IF Exists(".", f) \/ Exists("polyfills", f)
         THEN /\ text' = [text EXCEPT !["winx_bundler.py"] = Replaced(f)]
              /\ next' = [next EXCEPT !["winx_bundler.py"] = @ + 1]
              /\ UNCHANGED done
         ELSE done' = [done EXCEPT !["winx_bundler.py"] = "failed"] /\ UNCHANGED <<text, next>>
  /\ UNCHANGED <<disk, template>>

\* bundle: the first such statement there is by now is replaced.
bundle ==
  /\ Replacing("bundle.js")
  /\ LET f == imports[next["bundle.js"]]
     IN  text' = [text EXCEPT !["bundle.js"] = PutFirst(@, f, safe_read_file(f))]
  /\ next' = [next EXCEPT !["bundle.js"] = @ + 1]
  /\ UNCHANGED <<disk, template, done>>

Write(tool) ==
  /\ done[tool] = "no" /\ next[tool] > Len(imports)
  /\ done' = [done EXCEPT ![tool] = "written"]
  /\ UNCHANGED <<disk, template, text, next>>

Next == python \/ bundle \/ \E tool \in Tools : Write(tool)

Spec == Init /\ [][Next]_vars

-----------------------------------------------------------------------------
Alone(f) == Exists(".", f) # Exists("polyfills", f)
Content(f) == disk[IF Exists(".", f) THEN <<".", f>> ELSE <<"polyfills", f>>]
NoBlanks(s) == PutAll(s, Blank, << >>)

\* Replacing the imports one by one in a text that grows is composing whole files,
\* as long as no file that is put in holds an import: each import becomes its file
\* and nothing else changes (winx_bundler.py:20-23, README.md:84).
ComposesWholeFiles ==
  /\ done["winx_bundler.py"] = "written"
  /\ \A f \in Range(imports) : Range(Content(f)) \cap Files = {}
  => text["winx_bundler.py"] =
       Spread(Strip(template),
              [t \in Tokens |-> IF t \in Files THEN Strip(Content(t)) ELSE <<t>>])

\* An import that is left in the bundle came with a file that was put in no sooner
\* than all files of that name: imports of imports are replaced only if the
\* template lists them later (winx_bundler.py:21-23).
LeftImportsCameLate ==
  done["winx_bundler.py"] = "written" =>
    \A f \in Files \cap Range(text["winx_bundler.py"]) :
      \E i \in DOMAIN imports :
        /\ f \in Range(Content(imports[i]))
        /\ \A j \in DOMAIN imports : imports[j] = f => j <= i

\* The bundler and its twin make the same bundle, white space aside, of files that
\* are in one place only and hold neither imports nor patterns: replacing the first
\* statement once for each is then replacing them all (bundle.js:16-23).
TwinsAgree ==
  /\ \A tool \in Tools : done[tool] = "written"
  /\ \A f \in Range(imports) : Alone(f) /\ Range(Content(f)) \cap (Files \cup {Pattern}) = {}
  => NoBlanks(text["bundle.js"]) = NoBlanks(text["winx_bundler.py"])
=============================================================================
