------------------------------- MODULE Config -------------------------------
(***************************************************************************)
(* What the configuration file says (src/winx_config.cpp) and what V8      *)
(* makes of it: get_v8_flags writes the [v8] table as a string of flags,   *)
(* V8::SetFlagsFromString reads that string word by word.                  *)
(*                                                                         *)
(* A configuration is a record: whether the file parses, the entries of    *)
(* its [v8] table in the order of their keys, and its [winx] table.  An    *)
(* entry has a key, the type of its value and the value, and, for a string *)
(* with spaces in it, the words after the first.                           *)
(***************************************************************************)
EXTENDS Naturals, Sequences, Functions

CONSTANTS
  Flags,   \* V8's flags -> their type: "bool", "int", "float" or "string"
  Ints,    \* texts of whole numbers
  Floats,  \* texts of other numbers
  None     \* no value, or no flag

\* A value V8 read from a text that is not one.
Garbled == "garbled"

\* One word of a command line: --name, --no-name, --name=value, or just a value.
Word(name, no, value) == [name |-> name, no |-> no, value |-> value]

\* Bug: a flag that is off is written as one that is on.
BoolWordOn(e) == Word(e.key, FALSE, None)

BoolWord(e) == Word(e.key, e.value = "false", None)

\* What an entry is written as.
Words(e) ==
  CASE e.type = "string" -> <<Word(e.key, FALSE, e.value)>> \o e.more
    [] e.type = "int"    -> <<Word(e.key, FALSE, e.value)>>
    [] e.type = "bool"   -> <<BoolWord(e)>>
    [] OTHER             -> << >>

\* What is written once the first entries are, one after the other.
Written(v8) ==
  LET upto[i \in 0..Len(v8)] == IF i = 0 THEN << >> ELSE upto[i - 1] \o Words(v8[i])
  IN  upto

\* get_v8_flags: entries of other types than these three are left out.
get_v8_flags(config) ==
  IF config.parses THEN Written(config.v8)[Len(config.v8)] ELSE << >>

\* get_winx_flag: an absent key, or a value that is no string, is an empty text,
\* whatever the caller's default; that is for files that do not parse.
get_winx_flag(config, flag_name, default_value) ==
  IF ~config.parses THEN default_value
  ELSE IF flag_name \in DOMAIN config.winx THEN config.winx[flag_name] ELSE ""

-----------------------------------------------------------------------------
\* V8 can read the text v as a value of flag f.
Reads(f, v) == \/ Flags[f] = "string"
               \/ Flags[f] = "int" /\ v \in Ints
               \/ Flags[f] = "float" /\ v \in Ints \cup Floats

\* V8 sets a flag first and then looks whether it could read the value; the
\* first word it cannot make sense of is the last one it reads.
SetFlag(s, f, v, ok) ==
  [s EXCEPT !.flags[f] = IF Flags[f] = "bool" \/ Reads(f, v) THEN v ELSE Garbled,
            !.expects = None,
            !.stopped = ~ok]

TakeWord(s, w) ==
  CASE s.stopped -> s
    [] ~s.stopped /\ s.expects # None ->
         LET v == IF w.name = None THEN w.value ELSE Garbled
         IN  SetFlag(s, s.expects, v, Reads(s.expects, v))
    [] ~s.stopped /\ s.expects = None ->
         CASE w.name = None -> s
           [] w.name # None /\ w.name \notin DOMAIN Flags -> [s EXCEPT !.stopped = TRUE]
           [] w.name \in DOMAIN Flags /\ Flags[w.name] = "bool" ->
                SetFlag(s, w.name, IF w.no THEN "false" ELSE "true", w.value = None)
           [] w.name \in DOMAIN Flags /\ Flags[w.name] # "bool" ->
                IF w.value = None THEN [s EXCEPT !.expects = w.name]
                ELSE SetFlag(s, w.name, w.value, Reads(w.name, w.value))

\* What V8 knows after each of the words, from flags that have their defaults on.
Reading(words) ==
  LET after[i \in 0..Len(words)] ==
        IF i = 0
        THEN [flags |-> [f \in DOMAIN Flags |-> None], expects |-> None, stopped |-> FALSE]
        ELSE TakeWord(after[i - 1], words[i])
  IN  after

SetFlagsFromString(words) == Reading(words)[Len(words)].flags

-----------------------------------------------------------------------------
\* What the parser makes of a [v8] table: entries with different keys, each with a
\* value.
Table(v8) ==
  /\ v8 \in Seq(Range(v8))
  /\ \A i, j \in DOMAIN v8 : v8[i].key = v8[j].key => i = j
  /\ \A i \in DOMAIN v8 :
       /\ v8[i].value # None /\ v8[i].more \in Seq(Range(v8[i].more))
       /\ v8[i].type = "bool" => v8[i].value \in {"true", "false"}

\* What flags may be set to: what the table says, and what V8 makes of words.
Values(v8) ==
  {None, Garbled, "true", "false"}
  \cup UNION {{v8[i].value} \cup {w.value : w \in Range(v8[i].more)} : i \in DOMAIN v8}

\* An entry that get_v8_flags writes as V8 wants to have it.
Fits(e) ==
  /\ e.type \in {"string", "bool", "int"} /\ e.key \in DOMAIN Flags
  /\ IF Flags[e.key] = "bool" THEN e.type = "bool"
     ELSE e.type # "bool" /\ Reads(e.key, e.value)
Dropped(e) == e.type \notin {"string", "bool", "int"}

\* What gets entry i to V8: it fits, V8 reads on until it comes to it, and no word
\* behind it sets its flag again.
Arrives(v8, i) ==
  /\ Fits(v8[i])
  /\ \A j \in 1..(i - 1) : Dropped(v8[j]) \/ (Fits(v8[j]) /\ v8[j].more = << >>)
  /\ \A j \in i..Len(v8) : \A k \in DOMAIN v8[j].more : v8[j].more[k].name # v8[i].key
=============================================================================
