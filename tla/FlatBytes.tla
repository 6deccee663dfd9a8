----------------------------- MODULE FlatBytes -----------------------------
(***************************************************************************)
(* What a byte array promises: a sequence of bytes and a position in it.   *)
(* Putting bytes changes only those from the old position to the new one;  *)
(* getting bytes changes none; seeking past the end makes it longer.       *)
(***************************************************************************)
EXTENDS Integers, Sequences

VARIABLES content, pos

fvars == <<content, pos>>

FlatInit == content = << >> /\ pos = 0

Put ==
  /\ pos' > pos
  /\ Len(content') = IF pos' > Len(content) THEN pos' ELSE Len(content)
  /\ \A i \in 1 .. Len(content) :
       i <= pos \/ i > pos' => content'[i] = content[i]

Get ==
  /\ pos' \in pos .. Len(content)
  /\ content' = content

Seek ==
  /\ pos' \in Nat
  /\ Len(content') = IF pos' > Len(content) THEN pos' ELSE Len(content)
  /\ SubSeq(content', 1, Len(content)) = content

Clear ==
  /\ content' = << >>
  /\ pos' = 0

FlatNext == Put \/ Get \/ Seek \/ Clear

FlatSpec == FlatInit /\ [][FlatNext]_fvars
=============================================================================
