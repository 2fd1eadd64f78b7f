------------------------------- MODULE Readers -------------------------------
(***************************************************************************)
(* The readers of packages/core/src/lexer.ts: what each makes of the text  *)
(* at the place where the stream stands. A reader runs without a break, so *)
(* it is a function of the text; positions stand for the places they have. *)
(*                                                                         *)
(* The one snapshot slot matters in number only, where a part of the       *)
(* number is read behind a snapshot and reads on with snapshots of its     *)
(* own; what a reader leaves in the slot is dead when it returns.          *)
(***************************************************************************)
EXTENDS InputStream

\* The characters of an option that is off are the empty set.
NumberReader ==
  [kind : {"number"}, type : STRING, digits : SUBSET Chars, signs : SUBSET Chars,
   points : SUBSET Chars, leading : SUBSET Chars, exponents : SUBSET Chars,
   expSigns : SUBSET Chars, separators : SUBSET Chars, zero : Chars,
   radix : SUBSET [marker : Chars, digits : SUBSET Chars]]

\* A block string has a fence; its value is not dedented (dedent: false).
StringReader ==
  [kind : {"string"}, type : STRING, prefix : Seq(Chars), quote : Chars,
   fence : Seq(Chars), blockType : STRING, doubling : BOOLEAN,
   backslash : SUBSET Chars, decoded : [Chars -> Chars]]

\* A regex is read after these types of token.
Reader ==
  NumberReader \cup StringReader
    \cup [kind : {"dollar"}, type : STRING, dollar : Chars, start : SUBSET Chars, part : SUBSET Chars]
    \cup [kind : {"line"}, type : STRING, prefix : Seq(Chars) \ {<<>>}]
    \cup [kind : {"block"}, type : STRING, open : Seq(Chars) \ {<<>>}, close : Seq(Chars) \ {<<>>},
          nested : BOOLEAN]
    \cup [kind : {"operator"}, type : STRING, chars : SUBSET Chars, stops : SUBSET (Seq(Chars) \ {<<>>}),
          trailing : SUBSET Chars, strong : SUBSET Chars]
    \cup [kind : {"regex"}, type : STRING, slash : Chars, backslash : Chars, open : Chars, close : Chars,
          flags : SUBSET Chars, after : SUBSET STRING]
    \cup [kind : {"chunk"}, type : STRING, stops : SUBSET (Seq(Chars) \ {<<>>}), escape : Chars]

\* Options that must agree: a number that may begin with a point may have one,
\* a fence begins with the quote, and a backslash is none of what it shields.
IsReader(r) ==
  /\ r \in Reader
  /\ r.kind = "number" => r.leading \subseteq r.points
  /\ r.kind = "string" => r.fence = <<>> \/ r.fence[1] = r.quote
  /\ r.kind = "string" => r.quote \notin r.backslash
  /\ r.kind = "regex" => r.backslash \notin {r.slash, r.open, r.close}

-------------------------------------------------------------------------------
(* The text ahead of a position.                                           *)

\* readWhile: the length of the run of these characters.
RunOf(p, class) ==
  CHOOSE n \in 0..Len(text) :
    /\ \A i \in 0..(n - 1) : Char(p + i) \in class
    /\ Char(p + n) \notin class

Ahead(p, n) == SubSeq(text, p + 1, p + n)

Between(p, q) == SubSeq(text, p + 1, q)

\* consumeSeq and peeksSeq find this sequence.
StartsWith(p, seq) == \A i \in 1..Len(seq) : Char(p + i - 1) = seq[i]

\* Where the sequence comes first, or the end of the text.
Find(p, seq) ==
  CHOOSE q \in p..Len(text) :
    /\ q = Len(text) \/ StartsWith(q, seq)
    /\ \A i \in p..(q - 1) : ~StartsWith(i, seq)

Largest(numbers) == CHOOSE n \in numbers : \A m \in numbers : m <= n

-------------------------------------------------------------------------------
(* What read returns: a token with its span and the place behind it, an    *)
(* error, or null, with the stream where it was.                           *)

Token(type, value, start, end, to) ==
  [is |-> "token", type |-> type, value |-> value, start |-> start, end |-> end, to |-> to]

\* The span is what was read.
Spanning(r, value, to) == Token(r.type, value, at.pos, to, to)

Unterminated(start, to) == [is |-> "croak", start |-> start, to |-> to]

Null == [is |-> "null"]

-------------------------------------------------------------------------------
(* number. A run is what has been read of the value, the position and the  *)
(* slot.                                                                   *)

Without(value, class) ==
  LET kept[n \in 0..Len(value)] ==
        IF n = 0 THEN <<>>
        ELSE IF value[n] \in class THEN kept[n - 1] ELSE Append(kept[n - 1], value[n])
  IN  kept[Len(value)]

\* readDigitRun: a separator is taken when a digit follows, behind a snapshot.
readDigitRun(r, run, digits) ==
  LET ends[p \in 0..Len(text)] ==
        IF Char(p) \in digits \/ (Char(p) \in r.separators /\ Char(p + 1) \in digits)
        THEN ends[p + 1] ELSE p
      end == IF Char(run.pos) \in digits THEN ends[run.pos] ELSE run.pos
      looked == {p \in (run.pos + 1)..end : Char(p) \in r.separators}
  IN  [value |-> run.value \o Without(Between(run.pos, end), r.separators),
       pos |-> end,
       slot |-> IF looked = {} THEN run.slot ELSE Largest(looked)]

\* The run goes on with the lead of a part, behind a snapshot.
Provisional(run, lead) ==
  [value |-> run.value \o Ahead(run.pos, lead), pos |-> run.pos + lead, slot |-> run.pos]

ReloadedSlip(run, lead, read) == read

\* Without digits behind the lead, back to the snapshot.
Reloaded(run, lead, read) ==
  IF read.pos > run.pos + lead THEN read
  ELSE [value |-> run.value, pos |-> read.slot, slot |-> read.slot]

\* A point, an exponent or a radix marker goes on with the number only when
\* digits follow.
Continued(r, run, lead, digits) ==
  Reloaded(run, lead, readDigitRun(r, Provisional(run, lead), digits))

startsNumber(r) ==
  \/ Char(at.pos) \in r.digits
  \/ Char(at.pos) \in r.leading \cup r.signs /\ Char(at.pos + 1) \in r.digits

\* The radix form that the marker behind a zero is of, if any.
radixForms(r, p) == {form \in r.radix : Char(p) = r.zero /\ Char(p + 1) = form.marker}

readRadix(r, run) ==
  LET forms == radixForms(r, run.pos)
  IN  IF forms = {} THEN run ELSE Continued(r, run, 2, (CHOOSE form \in forms : TRUE).digits)

readFraction(r, int) ==
  IF Char(int.pos) \in r.points THEN Continued(r, int, 1, r.digits) ELSE int

\* No exponent without digits before it.
readExponent(r, begin, mantissa) ==
  IF mantissa.pos > begin.pos /\ Char(mantissa.pos) \in r.exponents
  THEN Continued(r, mantissa, IF Char(mantissa.pos + 1) \in r.expSigns THEN 2 ELSE 1, r.digits)
  ELSE mantissa

readUnsigned(r, begin, radix) ==
  IF radix.pos > begin.pos THEN radix
  ELSE readExponent(r, radix, readFraction(r, readDigitRun(r, radix, r.digits)))

readSigned(r, begin) == readUnsigned(r, begin, readRadix(r, begin))

number(r) ==
  LET sign == IF Char(at.pos) \in r.signs THEN 1 ELSE 0
      begin == [value |-> Ahead(at.pos, sign), pos |-> at.pos + sign, slot |-> slot.pos]
      Spanned(run) == Spanning(r, run.value, run.pos)
  IN  IF startsNumber(r) THEN Spanned(readSigned(r, begin)) ELSE Null

-------------------------------------------------------------------------------
(* string                                                                  *)

\* readBlock, behind the first quote of the fence.
readBlock(r, start) ==
  LET from == start + Len(r.fence) - 1
      end == Find(from, r.fence)
      to == end + Len(r.fence)
  IN  IF end = Len(text) THEN Unterminated(start, end)
      ELSE Token(r.blockType, Between(from, end), start, to, to)

Prefixed(char, body) == [body EXCEPT !.value = <<char>> \o @]

bodyOfSlip(r, start) ==
  LET body[p \in 0..Len(text)] ==
        IF p = Len(text) \/ (Char(p) = r.quote /\ ~(r.doubling /\ Char(p + 1) = r.quote))
        THEN [value |-> <<>>, end |-> p, open |-> FALSE]
        ELSE IF Char(p) \notin r.backslash THEN Prefixed(Char(p), body[p + 1])
        ELSE IF p + 1 = Len(text) THEN [value |-> <<>>, end |-> p + 1, open |-> TRUE]
        ELSE Prefixed(r.decoded[Char(p + 1)], body[p + 2])
  IN  body[start]

\* readEscaped, or readWhile where nothing is escaped: the decoded body, where it
\* ends, and whether a backslash at the end of the text leaves it open.
bodyOf(r, start) ==
  LET body[p \in 0..Len(text)] ==
        IF p = Len(text) \/ (Char(p) = r.quote /\ ~(r.doubling /\ Char(p + 1) = r.quote))
        THEN [value |-> <<>>, end |-> p, open |-> FALSE]
        ELSE IF Char(p) = r.quote THEN Prefixed(r.quote, body[p + 2])
        ELSE IF Char(p) \notin r.backslash THEN Prefixed(Char(p), body[p + 1])
        ELSE IF p + 1 = Len(text) THEN [value |-> <<>>, end |-> p + 1, open |-> TRUE]
        ELSE Prefixed(r.decoded[Char(p + 1)], body[p + 2])
  IN  body[start]

\* The span is the content. At the end of the text a quote that is missing is
\* consumed like one that is there.
string(r) ==
  LET opening == Append(r.prefix, r.quote)
      start == at.pos + Len(opening)
      body == bodyOf(r, start)
  IN  IF ~StartsWith(at.pos, opening) THEN Null
      ELSE IF r.fence # <<>> /\ StartsWith(start, Tail(r.fence))
      THEN readBlock(r, start)
      ELSE IF body.open THEN Unterminated(start, body.end)
      ELSE Token(r.type, body.value, start, body.end, body.end + 1)

\* dollarString: the tag follows the rules of an identifier.
dollarString(r) ==
  LET tag == IF Char(at.pos + 1) \in r.start THEN 1 + RunOf(at.pos + 2, r.part) ELSE 0
      start == at.pos + tag + 2
      end == Find(start, Ahead(at.pos, tag + 2))
  IN  IF ~(Char(at.pos) = r.dollar /\ Char(at.pos + tag + 1) = r.dollar) THEN Null
      ELSE IF end = Len(text) THEN Unterminated(start, end)
      ELSE Token(r.type, Between(start, end), start, end, end + tag + 2)

-------------------------------------------------------------------------------
(* Comments.                                                               *)

lineComment(r) ==
  LET from == at.pos + Len(r.prefix)
      to == from + RunOf(from, Chars \ {NewLine})
  IN  IF StartsWith(at.pos, r.prefix) THEN Spanning(r, Between(from, to), to) ELSE Null

ClosedAtSlip(r, from) ==
  LET closes[p \in 0..Len(text)] ==
        [depth \in Nat \ {0} |->
           IF p = Len(text) THEN p
           ELSE IF r.nested /\ StartsWith(p, r.open) THEN closes[p + Len(r.open)][depth + 1]
           ELSE IF StartsWith(p, r.close) THEN p
           ELSE closes[p + 1][depth]]
  IN  closes[from][1]

\* A close is looked for before an open; the end of the text closes all.
ClosedAt(r, from) ==
  LET closes[p \in 0..Len(text)] ==
        [depth \in Nat \ {0} |->
           IF p = Len(text) THEN p
           ELSE IF StartsWith(p, r.close)
           THEN IF depth = 1 THEN p ELSE closes[p + Len(r.close)][depth - 1]
           ELSE IF r.nested /\ StartsWith(p, r.open) THEN closes[p + Len(r.open)][depth + 1]
           ELSE closes[p + 1][depth]]
  IN  closes[from][1]

blockComment(r) ==
  LET from == at.pos + Len(r.open)
      end == ClosedAt(r, from)
      to == IF end = Len(text) THEN end ELSE end + Len(r.close)
  IN  IF StartsWith(at.pos, r.open) THEN Spanning(r, Between(from, end), to) ELSE Null

-------------------------------------------------------------------------------
(* operator                                                                *)

lengthOfSlip(r, run) ==
  LET stops == {n \in 0..run : \E stop \in r.stops : n + Len(stop) <= run /\ StartsWith(at.pos + n, stop)}
      cut == Largest({n \in 0..run : \A m \in stops : n <= m})
      strong == \E n \in 0..(run - 1) : Char(at.pos + n) \in r.strong
  IN  IF strong THEN cut
      ELSE Largest({n \in 0..cut : n <= 1 \/ Char(at.pos + n - 1) \notin r.trailing})

\* The run is cut before the earliest comment start; then trailing signs go,
\* all but the first character, unless a strong character is left.
lengthOf(r, run) ==
  LET stops == {n \in 0..run : \E stop \in r.stops : n + Len(stop) <= run /\ StartsWith(at.pos + n, stop)}
      cut == Largest({n \in 0..run : \A m \in stops : n <= m})
      strong == \E n \in 0..(cut - 1) : Char(at.pos + n) \in r.strong
  IN  IF strong THEN cut
      ELSE Largest({n \in 0..cut : n <= 1 \/ Char(at.pos + n - 1) \notin r.trailing})

operator(r) ==
  LET length == lengthOf(r, RunOf(at.pos, r.chars))
  IN  IF length = 0 THEN Null ELSE Spanning(r, Ahead(at.pos, length), at.pos + length)

-------------------------------------------------------------------------------
(* regex and templateChunk.                                                *)

\* The literal ends at a slash outside a class that no backslash shields; the
\* end of the line or of the text leaves it unterminated.
regex(r, lastType) ==
  LET breaks == {NewLine, Nothing}
      ends[p \in 0..Len(text)] ==
        [inClass \in BOOLEAN |->
           IF Char(p) \in breaks THEN Unterminated(at.pos, p)
           ELSE IF Char(p) = r.backslash
           THEN IF Char(p + 1) \in breaks THEN Unterminated(at.pos, p + 1) ELSE ends[p + 2][inClass]
           ELSE IF Char(p) = r.slash /\ ~inClass
           THEN LET to == p + 1 + RunOf(p + 1, r.flags) IN Spanning(r, Between(at.pos, to), to)
           ELSE ends[p + 1][Char(p) = r.open \/ (inClass /\ Char(p) # r.close)]]
  IN  IF Char(at.pos) = r.slash /\ lastType \in r.after THEN ends[at.pos + 1][FALSE] ELSE Null

\* Text up to a stop that no escape shields; text that nothing ends is an error.
templateChunk(r) ==
  LET ends[p \in 0..Len(text)] ==
        IF p = Len(text) \/ \E stop \in r.stops : StartsWith(p, stop) THEN p
        ELSE IF Char(p) = r.escape /\ p + 1 < Len(text) THEN ends[p + 2]
        ELSE ends[p + 1]
      end == ends[at.pos]
  IN  IF end = Len(text) THEN Unterminated(at.pos, end)
      ELSE IF end = at.pos THEN Null
      ELSE Spanning(r, Between(at.pos, end), end)

\* startsWith and read of the reader, after a token of that type.
readBy(r, lastType) ==
  CASE r.kind = "number" -> number(r)
    [] r.kind = "string" -> string(r)
    [] r.kind = "dollar" -> dollarString(r)
    [] r.kind = "line" -> lineComment(r)
    [] r.kind = "block" -> blockComment(r)
    [] r.kind = "operator" -> operator(r)
    [] r.kind = "regex" -> regex(r, lastType)
    [] r.kind = "chunk" -> templateChunk(r)
================================================================================
