----------------------------- MODULE HttpChars -----------------------------
(* The alphabet of the two HTTP automata and the form of their transition   *)
(* tables.  A character stands for all the bytes that both automata treat   *)
(* alike: "9" for 3, 4 and 6-9; "z" for the letters without a part of their *)
(* own; "!" for the sub-delimiters that are token characters, "," for those *)
(* that are not; "c2".."c6" for the control bytes of that value, "vt" for   *)
(* 11-12, "ctl" for the other control bytes, "hi" for 128-255.              *)
LOCAL INSTANCE Naturals
LOCAL INSTANCE Sequences

digit == {"0", "1", "2", "5", "9"}
xletter == {"A", "D", "E", "a", "c", "d", "e", "f"}
xdigit == digit \cup xletter
upper == {"A", "D", "E", "G", "H", "P", "T"}
lower == {"a", "c", "d", "e", "f", "g", "h", "i", "k", "l", "n", "o", "r",
          "s", "t", "u", "v", "z"}
alpha == upper \cup lower
cntrl == {"nul", "c2", "c3", "c4", "c5", "c6", "ctl", "\t", "\n", "vt", "\r"}
other == {"!", "+", ",", ";", "=", "-", ".", "_", "^", "{", "}", "|", "%", "#",
          ":", "/", "?", "[", "]", "@", "<", ">", "\"", " ", "del", "hi"}
any == digit \cup alpha \cup cntrl \cup other

sub_delims == {"!", "+", ",", ";", "="}
unreserved == alpha \cup digit \cup {"-", ".", "_"}

\* The characters of a header name that are not control characters.
token == alpha \cup digit \cup {"!", "+", "-", ".", "_", "^", "|", "%", "#"}

(* A header word is matched without regard to case.                         *)
EitherCase(c) ==
  {c} \cup {"A" : x \in {c} \cap {"a"}} \cup {"D" : x \in {c} \cap {"d"}}
      \cup {"E" : x \in {c} \cap {"e"}} \cup {"G" : x \in {c} \cap {"g"}}
      \cup {"H" : x \in {c} \cap {"h"}} \cup {"T" : x \in {c} \cap {"t"}}

-----------------------------------------------------------------------------
(* A transition: in a state of `from`, on a character of `on`, run the      *)
(* actions `do` and go to the state `to`.  The states have the numbers of   *)
(* the generated code; 0 is its error state.                                *)
T(from, on, do, to) == [from |-> from, on |-> on, do |-> do, to |-> to]

\* The states s, s+1, ... recognise the words w[1], w[2], ... one after the
\* other, the last one leading to `to`.
Chain(s, w, to) ==
  {T({s + i - 1}, {w[i]}, <<>>, IF i = Len(w) THEN to ELSE s + i) : i \in 1..Len(w)}

\* The table as a function: what a state does with a character.
Table(machine, states) ==
  [s \in states |->
     LET here == {t \in machine : s \in t.from}
     IN  [c \in UNION {t.on : t \in here} |->
            LET t == CHOOSE t \in here : c \in t.on IN [do |-> t.do, to |-> t.to]]]

\* A table is deterministic when no character has two transitions in a state.
Deterministic(machine) ==
  \A t, u \in machine :
    t # u => t.from \cap u.from = {} \/ t.on \cap u.on = {}
=============================================================================
