----------------------------- MODULE EventLists ----------------------------
(***************************************************************************)
(* The sequence operators that event lists need, with the meaning they     *)
(* have in SequencesExt.  They are stated here because each proof          *)
(* obligation of a module that extends SequencesExt carries all of its     *)
(* definitions, and there are thousands of obligations about TcSched.      *)
(***************************************************************************)
EXTENDS Integers, Sequences, Functions

Contains(s, e) == \E i \in 1..Len(s) : s[i] = e

\* s without its i-th element.
RemoveAt(s, i) == SubSeq(s, 1, i - 1) \o SubSeq(s, i + 1, Len(s))

\* s with e put before its i-th element, or at the end.
InsertAt(s, i, e) == SubSeq(s, 1, i - 1) \o <<e>> \o SubSeq(s, i, Len(s))

\* s without the first e, if there is one.
RemoveFirst(s, e) ==
    IF Contains(s, e) THEN RemoveAt(s, CHOOSE i \in 1..Len(s) : s[i] = e) ELSE s

Reverse(s) == [i \in 1..Len(s) |-> s[(Len(s) - i) + 1]]
=============================================================================
