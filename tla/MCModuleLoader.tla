--------------------------- MODULE MCModuleLoader ---------------------------
(***************************************************************************)
(* Small instances of ModuleLoader for TLC: a program p that can import    *)
(* modules a and b, by static imports from the modules folder and by       *)
(* import() from the current one.                                          *)
(***************************************************************************)
EXTENDS ModuleLoader

CONSTANTS p, a, b, cwd, lib

MCNames == {p, a, b}
MCFolders == {cwd, lib}

Use(name) == [name |-> name, named |-> TRUE]
Leaf == [valid |-> TRUE, imports |-> << >>, body |-> << >>,
         exports |-> TRUE, throws |-> FALSE]

Broken   == [Leaf EXCEPT !.valid = FALSE]
Throwing == [Leaf EXCEPT !.throws = TRUE]
OneImport  == [Leaf EXCEPT !.imports = <<Use(b)>>]
TwoImports == [Leaf EXCEPT !.imports = <<Use(a), [Use(b) EXCEPT !.named = FALSE]>>]
TwoDynamic == [Leaf EXCEPT !.body = <<a, b>>]
Mixed      == [Leaf EXCEPT !.imports = <<Use(b)>>, !.body = <<a>>]

\* A module that awaits, and one that awaits and then imports one that may.
Awaiting   == [Leaf EXCEPT !.body = <<Await>>]
AwaitFirst == [Leaf EXCEPT !.imports = <<Use(b)>>, !.body = <<Await, a>>, !.throws = TRUE]

MCContents == {Leaf, Broken, Throwing, OneImport, TwoImports, TwoDynamic, Mixed,
               Awaiting, AwaitFirst}

\* Every way to fill, or leave out, the files that can be asked for: diamonds,
\* cycles, modules that import() themselves, missing and broken files.
MCTrees ==
  UNION {[{<<cwd, p>>} \cup S -> MCContents] :
           S \in SUBSET {<<cwd, a>>, <<cwd, b>>, <<lib, b>>}}

\* Programs that load and import() leaves, for runs in which files change.
EditedTrees ==
  {t \in [{<<cwd, p>>, <<cwd, a>>, <<cwd, b>>, <<lib, b>>} -> {Leaf, TwoImports, Mixed, TwoDynamic}] :
     t[<<cwd, p>>] # Leaf /\ t[<<lib, b>>] = Leaf}
=============================================================================
