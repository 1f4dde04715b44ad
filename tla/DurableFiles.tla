---------------------------- MODULE DurableFiles ----------------------------
(***************************************************************************)
(* What the file bindings of Winx promise of the content of files, with no *)
(* handle, stream or buffer in it: every file has a text, to which the     *)
(* program that has it open adds, and what is stored of it is a beginning  *)
(* that only grows.  Once nobody has the file open, all of the text is     *)
(* stored, or as much of it as the file system takes.                      *)
(*                                                                         *)
(* The promise is made of a file while its writers take turns; a file is   *)
(* in the domain of text while it lasts.  FileHandles implements this.     *)
(***************************************************************************)
EXTENDS SequencesExt

CONSTANTS
  Quota,  \* the most bytes the file system lets a file have
  NewText \* the texts a file may have when it comes under the promise

VARIABLES
  text,   \* file -> what programs put into it
  stored, \* file -> what the file holds
  open    \* the files that a program has open to write them

files == <<text, stored, open>>

\* What is stored of a text once its file is closed.
Kept(t) == SubSeq(t, 1, IF Len(t) <= Quota THEN Len(t) ELSE Quota)

Durable == \A f \in DOMAIN text \ open : stored[f] = Kept(text[f])
Beginning == \A f \in DOMAIN text : IsPrefix(stored[f], Kept(text[f]))

Init ==
  /\ DOMAIN stored = DOMAIN text /\ open = {}
  /\ \A f \in DOMAIN text : text[f] \in NewText /\ stored[f] = Kept(text[f])

\* A step is about one file: all others stay as they are.
Only(f) ==
  /\ DOMAIN text' = DOMAIN stored'
  /\ DOMAIN text \ {f} = DOMAIN text' \ {f} /\ open \ {f} = open' \ {f}
  /\ \A g \in DOMAIN text \ {f} : text'[g] = text[g] /\ stored'[g] = stored[g]

\* f is created or emptied, to be written: nothing of its text is stored.
Begin(f) ==
  /\ f \notin open /\ f \in DOMAIN text' /\ f \in open'
  /\ text'[f] \in NewText /\ stored'[f] = << >>

\* f is opened and what it holds is left alone.
Reopen(f) ==
  /\ f \in DOMAIN text /\ f \notin open /\ f \in open'
  /\ text' = text /\ stored' = stored

\* More text is put into f, or more of it is stored.
Write(f) ==
  /\ f \in DOMAIN text /\ f \in open /\ f \in open'
  /\ f \in DOMAIN text'
  /\ IsPrefix(text[f], text'[f]) /\ IsPrefix(stored[f], stored'[f])
  /\ IsPrefix(stored'[f], Kept(text'[f]))

\* f is closed.
Close(f) ==
  /\ f \in DOMAIN text /\ f \in open /\ f \notin open'
  /\ text' = text /\ stored'[f] = Kept(text[f])

\* Two writers have f open at once, or others change it under its writer:
\* nothing is promised of it until it is next emptied or replaced.
GiveUp(f) == f \in DOMAIN text /\ f \notin DOMAIN text' /\ f \notin open'

\* Another program replaces what a file holds that nobody here has open.
Replace(f) ==
  /\ f \in DOMAIN text' /\ f \notin open /\ f \notin open'
  /\ text'[f] \in NewText /\ stored'[f] = Kept(text'[f])

Next ==
  \E f \in DOMAIN text \cup DOMAIN text' :
    /\ Only(f)
    /\ Begin(f) \/ Reopen(f) \/ Write(f) \/ Close(f) \/ GiveUp(f) \/ Replace(f)

Spec == Init /\ [][Next]_files
=============================================================================
