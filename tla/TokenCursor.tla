------------------------------ MODULE TokenCursor ------------------------------
(***************************************************************************)
(* What a parse context promises to the rules that run on it, with none of *)
(* its buffers: a tape of the tokens the lexer has produced so far, a      *)
(* cursor that counts the tokens consumed, and the marks of the tryParse   *)
(* calls that are still open.                                              *)
(*                                                                         *)
(* A token is named by the place of its item in the text, so the tape is   *)
(* strictly increasing: no item of the text becomes a token twice.         *)
(***************************************************************************)
EXTENDS Integers, Sequences

VARIABLES
  tape,    \* the tokens produced so far, in the order of the text
  cursor,  \* how many of them have been consumed
  marks,   \* the cursors to return to, one per open tryParse
  last     \* the token consumed last, 0 before the first

vars == <<tape, cursor, marks, last>>

At(n) == IF n = 0 THEN 0 ELSE tape[n]

Init ==
  /\ tape = <<>>
  /\ cursor = 0
  /\ marks = <<>>
  /\ last = 0

\* The lexer makes one more token, from an item behind those it has read.
Grows ==
  /\ Len(tape') = Len(tape) + 1
  /\ \A i \in 1..Len(tape) : tape'[i] = tape[i] /\ tape[i] < tape'[Len(tape')]

\* Lookahead: one more token becomes known, none is consumed.
Reveal ==
  /\ Grows
  /\ UNCHANGED <<cursor, marks, last>>

\* The next token of the tape is consumed; at its end the lexer makes one.
Consume ==
  /\ \/ cursor < Len(tape) /\ UNCHANGED tape
     \/ cursor = Len(tape) /\ Grows
  /\ cursor' = cursor + 1
  /\ last' = tape'[cursor + 1]
  /\ UNCHANGED marks

Mark ==
  /\ marks' = Append(marks, cursor)
  /\ UNCHANGED <<tape, cursor, last>>

\* A branch ends with the cursor where it stands: it succeeded, or a lexer
\* error that must not be rolled back leaves it.
Release ==
  /\ marks # <<>>
  /\ marks' = SubSeq(marks, 1, Len(marks) - 1)
  /\ UNCHANGED <<tape, cursor, last>>

\* A branch failed: the cursor is where the branch began, whatever happened
\* since, and the tape keeps every token for the next branch to read again.
Rollback ==
  /\ marks # <<>>
  /\ cursor' = marks[Len(marks)]
  /\ last' = At(cursor')
  /\ marks' = SubSeq(marks, 1, Len(marks) - 1)
  /\ UNCHANGED tape

Next == Reveal \/ Consume \/ Mark \/ Release \/ Rollback

Spec == Init /\ [][Next]_vars
================================================================================
