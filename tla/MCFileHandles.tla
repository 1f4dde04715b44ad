--------------------------- MODULE MCFileHandles ---------------------------
(***************************************************************************)
(* Small instances of FileHandles for TLC.                                 *)
(***************************************************************************)
EXTENDS FileHandles, TLC

CONSTANTS x, y, nul, bad, repl

MCByte == {x, y, nul, bad, repl}

\* A plain text and one with a Nul in it.
MCData == {<<x, y>>, <<y, nul, x>>}

\* A file another program left behind, not all of it text.
MCContents == {<<bad, nul>>}

Symmetry == Permutations(HandlePtrs) \cup Permutations(StreamPtrs)
              \cup Permutations(Inodes) \cup Permutations(Objs)
=============================================================================
