------------------------------- MODULE Literals -------------------------------
(***************************************************************************)
(* What the readers of packages/core/src/lexer.ts promise of the tokens    *)
(* they make. The readers scan the text once, character by character, with *)
(* one snapshot; the promises say of any span of the text whether it is a  *)
(* number, an operator, a string or a balanced comment.                    *)
(***************************************************************************)
EXTENDS Lexer

ReadersOf(m, kind) == {r \in {m.readers[i] : i \in 1..Len(m.readers)} : r.kind = kind}

\* The reader of this kind that made the item; its type says which.
MakersOf(item, kind) == {r \in ReadersOf(Mode[item.mode], kind) : r.type = item.type}

-------------------------------------------------------------------------------
(* Numbers.                                                                *)

\* Digits, with a separator only between two of them.
AreDigits(r, digits, p, q) ==
  /\ p < q /\ Char(p) \in digits /\ Char(q - 1) \in digits
  /\ \A i \in p..(q - 1) : Char(i) \in digits \cup r.separators
  /\ \A i \in p..(q - 2) : Char(i) \in digits \/ Char(i + 1) \in digits

IsRadix(r, p, q) ==
  \E form \in r.radix :
    Char(p) = r.zero /\ Char(p + 1) = form.marker /\ AreDigits(r, form.digits, p + 2, q)

IsDecimal(r, p, q) ==
  \E whole, part \in p..q :
    /\ AreDigits(r, r.digits, p, whole) \/ (whole = p /\ Char(p) \in r.leading)
    /\ \/ part = whole /\ whole > p
       \/ Char(whole) \in r.points /\ AreDigits(r, r.digits, whole + 1, part)
    /\ \/ q = part
       \/ /\ Char(part) \in r.exponents
          /\ \/ AreDigits(r, r.digits, part + 1, q)
             \/ Char(part + 1) \in r.expSigns /\ AreDigits(r, r.digits, part + 2, q)

IsNumber(r, p, q) ==
  \/ IsRadix(r, p, q) \/ IsDecimal(r, p, q)
  \/ /\ Char(p) \in r.signs /\ Char(p + 1) \in r.digits
     /\ IsRadix(r, p + 1, q) \/ IsDecimal(r, p + 1, q)

NumberEnds(r, p) == {q \in (p + 1)..Len(text) : IsNumber(r, p, q)}

\* A number token is the longest number that the text has there, whatever the
\* snapshots behind a point, an exponent, a radix marker or a separator gave up
\* on; its value is that text without separators. No number is left to be read
\* as a word or as punctuation.
NumbersAreLongest ==
  \A i \in 1..Len(items) :
    LET item == items[i]
    IN  /\ \A r \in MakersOf(item, "number") :
             /\ item.to \in NumberEnds(r, item.from)
             /\ \A q \in NumberEnds(r, item.from) : q <= item.to
             /\ item.value = Without(Between(item.from, item.to), r.separators)
        /\ item.type \in {"kw", "ident", "punc", "unexpected"} =>
             \A r \in ReadersOf(Mode[item.mode], "number") : NumberEnds(r, item.from) = {}

-------------------------------------------------------------------------------
(* Operators.                                                              *)

\* Operator characters that no comment starts in, and that end in a sign only
\* when they are one character or a strong one is among them.
IsOperator(r, p, q) ==
  /\ p < q /\ \A i \in p..(q - 1) : Char(i) \in r.chars
  /\ \A i \in p..(q - 1), stop \in r.stops : ~StartsWith(i, stop)
  /\ \/ q = p + 1
     \/ Char(q - 1) \notin r.trailing
     \/ \E i \in p..(q - 1) : Char(i) \in r.strong

\* lexer.ts:765: "a scan never swallows a comment start mid-run", and the signs
\* behind an operator are left for the number; but no more than that is left.
OperatorsAreLongest ==
  \A i \in 1..Len(items) : \A r \in MakersOf(items[i], "operator") :
    /\ IsOperator(r, items[i].from, items[i].to)
    /\ \A q \in (items[i].to + 1)..Len(text) : ~IsOperator(r, items[i].from, q)

-------------------------------------------------------------------------------
(* Strings.                                                                *)

\* The length of the run of these characters right before p.
RunBefore(start, p, class) ==
  CHOOSE n \in 0..(p - start) :
    /\ \A i \in 1..n : Char(p - i) \in class
    /\ n < p - start => Char(p - n - 1) \notin class

\* An odd number of backslashes right before a character shields it.
Shielded(backslash, start, p) == RunBefore(start, p, backslash) % 2 = 1

\* The quotes right before p that nothing shields: all, but the first one when
\* a backslash shields that.
QuotesBefore(r, start, p) ==
  LET n == RunBefore(start, p, {r.quote})
  IN  IF n > 0 /\ Shielded(r.backslash, start, p - n) THEN n - 1 ELSE n

\* A quote that stands for itself, and the first one of a pair.
IsBare(r, start, p) == Char(p) = r.quote /\ ~Shielded(r.backslash, start, p)

Halves(r, start, p) == IsBare(r, start, p) /\ QuotesBefore(r, start, p) % 2 = 0

\* What has a character in the value, and which.
Stands(r, start, p) ==
  ~Halves(r, start, p) /\ (Char(p) \in r.backslash => Shielded(r.backslash, start, p))

Meaning(r, start, p) ==
  IF Shielded(r.backslash, start, p) THEN r.decoded[Char(p)] ELSE Char(p)

ReadBack(r, start, end) ==
  LET back[p \in start..end] ==
        IF p = end THEN <<>>
        ELSE IF Stands(r, start, p) THEN <<Meaning(r, start, p)>> \o back[p + 1]
        ELSE back[p + 1]
  IN  back[start]

\* What the text at the span of a string has to be.
ReadsBack(r, item) ==
  LET start == item.start.pos
      end == item.end.pos
  IN  /\ Between(item.from, start) = Append(r.prefix, r.quote)
      /\ item.to = end + 1
      /\ ~Shielded(r.backslash, start, end)
      /\ end = Len(text) \/ (IsBare(r, start, end) /\ ~(r.doubling /\ Char(end + 1) = r.quote))
      /\ \A p \in start..(end - 1) :
           Halves(r, start, p) => r.doubling /\ p + 1 < end /\ IsBare(r, start, p + 1)
      /\ item.value = ReadBack(r, start, end)

\* Scanning the body with its escapes is the same as looking at each place on
\* its own: the quote behind the body is the first that is neither shielded nor
\* one of a pair, and the value is the body without the backslashes and the
\* quotes that stand for what follows them. A body that the end of the text
\* closes is no different, and no backslash hangs there.
StringsReadBack ==
  \A i \in 1..Len(items) : \A r \in MakersOf(items[i], "string") : ReadsBack(r, items[i])

-------------------------------------------------------------------------------
(* What has two ends.                                                      *)

\* Every open in p..q has its close there, and no close is without one.
Balanced(r, p, q) ==
  LET balanced[i \in 0..Len(text)] ==
        [j \in 0..Len(text) |->
           \/ i = j
           \/ /\ i < j /\ ~StartsWith(i, r.close)
              /\ ~(r.nested /\ StartsWith(i, r.open))
              /\ balanced[i + 1][j]
           \/ /\ i < j /\ ~StartsWith(i, r.close)
              /\ r.nested /\ StartsWith(i, r.open)
              /\ \E inner \in (i + Len(r.open))..(j - Len(r.close)) :
                   /\ StartsWith(inner, r.close)
                   /\ balanced[i + Len(r.open)][inner] /\ balanced[inner + Len(r.close)][j]]
  IN  balanced[p][q]

IsClosed(r, p, q) == Balanced(r, p, q) /\ StartsWith(q, r.close)

\* The last bracket of a class before p that no backslash shields opens it.
InClass(r, start, p) ==
  LET IsBracket(i, bracket) == Char(i) = bracket /\ ~Shielded({r.backslash}, start, i)
  IN  \E i \in start..(p - 1) :
        IsBracket(i, r.open) /\ \A j \in (i + 1)..(p - 1) : ~IsBracket(j, r.close)

ClosesComment(r, item) ==
  LET start == item.from + Len(r.open)
      end == start + Len(item.value)
  IN  \/ IsClosed(r, start, end) /\ item.to = end + Len(r.close)
      \/ item.to = Len(text) /\ \A q \in start..Len(text) : ~IsClosed(r, start, q)

ClosesDollar(r, item) ==
  LET tag == Between(item.from, item.start.pos)
  IN  /\ Len(tag) > 1 /\ tag[1] = r.dollar /\ tag[Len(tag)] = r.dollar
      /\ Between(item.end.pos, item.to) = tag
      /\ \A p \in item.start.pos..(item.end.pos - 1) : ~StartsWith(p, tag)

EndsRegex(r, start, p) ==
  Char(p) = r.slash /\ ~Shielded({r.backslash}, start, p) /\ ~InClass(r, start, p)

ClosesRegex(r, item) ==
  LET start == item.from + 1
  IN  \E end \in start..(item.to - 1) :
        /\ EndsRegex(r, start, end)
        /\ \A p \in start..(end - 1) : ~EndsRegex(r, start, p) /\ Char(p) # NewLine
        /\ item.to = end + 1 + RunOf(end + 1, r.flags)

\* A comment closes where its opens and closes balance, or at the end of the
\* text when they never do; a dollar string closes with the tag that opened it,
\* the first time the tag comes; a regex at the first slash outside of a class.
DelimitersPair ==
  \A i \in 1..Len(items) :
    /\ \A r \in MakersOf(items[i], "block") : ClosesComment(r, items[i])
    /\ \A r \in MakersOf(items[i], "dollar") : ClosesDollar(r, items[i])
    /\ \A r \in MakersOf(items[i], "regex") : ClosesRegex(r, items[i])
================================================================================
