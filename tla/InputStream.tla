----------------------------- MODULE InputStream -----------------------------
(***************************************************************************)
(* createInputStream of packages/core/src/input-stream.ts: a cursor over   *)
(* the characters of a text that counts rows and columns, with one slot to *)
(* return to.                                                              *)
(***************************************************************************)
EXTENDS Integers, Sequences

CONSTANTS
  Chars,    \* the characters
  NewLine,
  Nothing   \* the empty string that peek and next return behind the end

ASSUME CharsAssumption == NewLine \in Chars /\ Nothing \notin Chars

VARIABLES
  text,
  at,    \* pos, line and col
  slot   \* the snapshot

Place == [pos : Nat, line : Nat, col : Nat]

Origin == [pos |-> 0, line |-> 1, col |-> 0]

Char(p) == IF p < Len(text) THEN text[p + 1] ELSE Nothing

Eof == Char(at.pos) = Nothing

PassedSlip(place) ==
  IF Char(place.pos) = NewLine
  THEN [pos |-> place.pos + 1, line |-> place.line + 1, col |-> -1]
  ELSE [place EXCEPT !.pos = @ + 1, !.col = @ + 1]

\* next() advances behind the end, too.
Passed(place) ==
  IF Char(place.pos) = NewLine
  THEN [pos |-> place.pos + 1, line |-> place.line + 1, col |-> 0]
  ELSE [place EXCEPT !.pos = @ + 1, !.col = @ + 1]

\* n calls of next.
Moved(place, n) ==
  LET to[k \in 0..n] == IF k = 0 THEN place ELSE Passed(to[k - 1])
  IN  to[n]

Snapshot == slot' = at

ReloadSlip == at' = [at EXCEPT !.pos = slot.pos, !.col = slot.col]

Reload == at' = slot
================================================================================
