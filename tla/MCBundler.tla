----------------------------- MODULE MCBundler -----------------------------
(***************************************************************************)
(* Small instances of Bundler for TLC: templates of up to three tokens     *)
(* over two polyfills, each in one place, in both, or in none.             *)
(***************************************************************************)
EXTENDS Bundler, SequencesExt

CONSTANTS a, b, code

MCFiles == {a, b}
MCTokens == {a, b, code, Blank, Pattern}
MCTemplates == SeqOf({a, b, code}, 3) \cup {<<Blank, a, code, a, Blank>>}

MCTexts == {<< >>, <<code>>, <<b>>, <<a, code>>, <<Blank, code, Pattern, Blank>>}
MCDisks ==
  UNION {[S -> MCTexts] : S \in SUBSET {<<".", a>>, <<"polyfills", a>>, <<"polyfills", b>>}}
=============================================================================
