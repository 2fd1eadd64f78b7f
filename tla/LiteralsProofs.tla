---------------------------- MODULE LiteralsProofs ----------------------------
(***************************************************************************)
(* What the readers promise of the tokens they make, of any reader on any  *)
(* text.                                                                   *)
(***************************************************************************)
EXTENDS Literals, LexerTextProofs

\* What a token is promised to be is promised by the reader of its type. The
\* client is free to choose types; they are to tell which reader made a token.
TypesTell ==
  \A name \in Modes :
    LET readers == Mode[name].readers
    IN  \A i, j \in 1..Len(readers) :
          readers[j].type \in TypesOf(readers[i]) => readers[i] = readers[j]

ReadersOfMode == {mode.readers[i] : i \in 1..Len(mode.readers)}

\* The reader has answered with this token.
Answers(r, item) ==
  readBy(r, LastType(lexCtx.lastToken)) =
    Token(item.type, item.value, item.start.pos, item.end.pos, item.to)

LEMMA AnswerIsOf ==
  ASSUME lexCtx.mode \in Modes, Answer # Null
  PROVE  \E r \in ReadersOfMode : Answer = readBy(r, LastType(lexCtx.lastToken))
<1> DEFINE readers == mode.readers
           last == LastType(lexCtx.lastToken)
           answers == [i \in 1..Len(readers) |-> readBy(readers[i], last)]
           given == {i \in 1..Len(answers) : answers[i] # Null}
           first == CHOOSE i \in given : \A j \in given : i <= j
<1>1. Answer = FirstOf(answers) /\ Len(readers) \in Nat /\ Len(answers) = Len(readers)
  BY ModeIs DEF Answer, mode
<1>2. FirstOf(answers) = IF given = {} THEN Null ELSE answers[first]
  BY DEF FirstOf
<1>3. given # {} /\ Answer = answers[first]
  BY <1>1, <1>2
<1>4. first \in given
  <2>1. given \subseteq Nat
    OBVIOUS
  <2> HIDE DEF given
  <2>2. \E i \in given : \A j \in given : i <= j
    BY <1>3, <2>1, Least
  <2> QED
    BY <2>2
<1> HIDE DEF first
<1>5. first \in 1..Len(readers) /\ answers[first] = readBy(readers[first], last)
  BY <1>1, <1>4
<1> QED
  BY <1>3, <1>5 DEF ReadersOfMode

\* What AskReaders makes is the answer of a reader of the mode.
LEMMA AnswerMakes ==
  ASSUME StateOK, AskReaders, NEW item, IsNew(item), items' = Append(items, item)
  PROVE  item.type = "unterminated" \/ \E r \in ReadersOfMode : Answers(r, item)
<1>1. /\ InputOK /\ FeedOK /\ lexCtx.mode \in Modes /\ step = "reader" /\ ~Eof /\ at = began
  BY DEF StateOK, ContextOK, StandOK, AskReaders
<1> DEFINE result == Answer
<1>2. result # Null /\ (IsMade(result) \/ IsError(result))
  <2>1. result # Null
    BY DEF AskReaders, Take, Null
  <2> QED
    BY <1>1, <2>1, AnswerIs
<1>3. CASE IsError(result)
  <2>1. result.is = "croak"
    BY <1>3 DEF IsError, Unterminated
  <2>2. PICK other : other.type = "unterminated" /\ items' = Append(items, other)
    BY <2>1 DEF AskReaders, Take, LexCroak, Item
  <2>3. item = other
    BY <1>1, <2>2, MadeIs
  <2> QED
    BY <2>2, <2>3
<1>4. CASE IsMade(result)
  <2>1. PICK type \in MadeTypes, value \in Seq(Chars), start \in Nat, end \in Nat, to \in Nat :
          result = Token(type, value, start, end, to) /\ IsSpan(start, end, to)
    BY <1>4, Zenon DEF IsMade
  <2> HIDE DEF result
  <2>2. /\ result.is = "token" /\ result.type = type /\ result.value = value
        /\ result.start = start /\ result.end = end /\ result.to = to
    BY <2>1 DEF Token
  <2> DEFINE token == Item(type, value, PlaceAt(start), PlaceAt(end), PlaceAt(to))
  <2>3. items' = Append(items, token)
    BY <2>2 DEF AskReaders, Take, Emit, result
  <2>4. item = token
    <3> HIDE DEF token
    <3> QED
      BY <1>1, <2>3, MadeIs
  <2>5. at.pos <= start /\ at.pos <= end /\ at.pos <= to
    <3>1. at.pos \in Nat
      BY <1>1, PlaceIs DEF InputOK
    <3> QED
      BY <2>1, <3>1 DEF IsSpan
  <2>6. PlaceAt(start).pos = start /\ PlaceAt(end).pos = end /\ PlaceAt(to).pos = to
    BY <1>1, <2>5, PlaceAtIs DEF InputOK
  <2>7. /\ item.type = type /\ item.value = value /\ item.start.pos = start
        /\ item.end.pos = end /\ item.to = to
    BY <2>4, <2>6 DEF Item
  <2>8. PICK r \in ReadersOfMode : result = readBy(r, LastType(lexCtx.lastToken))
    BY <1>1, <1>2, AnswerIsOf DEF result
  <2>9. Answers(r, item)
    BY <2>1, <2>7, <2>8 DEF Answers
  <2> QED
    BY <2>9
<1> QED
  BY <1>2, <1>3, <1>4

\* A token that bears the type of a reader is an answer of that reader, given
\* where the token begins.
LEMMA MakerAnswers ==
  ASSUME StateOK, ReadersHaveOwnTypes, TypesTell, Next,
         NEW item, IsNew(item), items' = Append(items, item),
         NEW kind, NEW r \in MakersOf(item, kind)
  PROVE  /\ Answers(r, item) /\ at.pos = item.from /\ item.from < item.to
         /\ IsReader(r) /\ r \in Reader /\ r.kind = kind /\ Reading
<1>1. /\ InputOK /\ FeedOK /\ lexCtx.mode \in Modes
  BY DEF StateOK, ContextOK
<1>2. item.mode = lexCtx.mode /\ item.from = began.pos /\ UNCHANGED text
  BY DEF IsNew
<1>3. PICK j \in 1..Len(mode.readers) :
        r = mode.readers[j] /\ r.kind = kind /\ r.type = item.type
  BY <1>2 DEF MakersOf, ReadersOf, mode
<1>4. /\ IsReader(r) /\ r.type \in MadeTypes /\ r.type \in TypesOf(r)
  BY <1>1, <1>3, ModeIs, ReaderTypes, OwnType DEF mode
<1>5. item.type \notin {"kw", "ident", "punc", "unexpected", "unterminated"}
  <2>1. item.type \notin {"kw", "ident", "punc"}
    BY <1>3, <1>4 DEF ReadersHaveOwnTypes
  <2>2. item.type \notin {"unexpected", "unterminated"}
    BY <1>3, <1>4, MadeTypesAreTypes, LexerAssumption
  <2> QED
    BY <2>1, <2>2
<1>6. Len(items') = Len(items) + 1 /\ Len(items) \in Nat /\ items' # items
  BY <1>1, <1>2, ItemsGrow DEF IsNew
<1>7. AskReaders
  <2>1. ASSUME NEW type \in {"kw", "ident", "punc", "unexpected"}, NEW value, NEW start, NEW end,
               NEW to, items' = Append(items, Item(type, value, start, end, to))
        PROVE  FALSE
    <3>1. item = Item(type, value, start, end, to)
      BY <1>1, <2>1, MadeIs
    <3> QED
      BY <1>5, <3>1 DEF Item
  <2>2. ~KeywordEnds /\ ~PunctuationEnds
    BY <1>6, <2>1 DEF KeywordEnds, PunctuationEnds, EndWalk, Emit, feed
  <2>3. ~ReadIdentifier /\ ~Unexpected
    BY <2>1 DEF ReadIdentifier, Unexpected, Emit, LexCroak
  <2> QED
    BY <1>6, <2>2, <2>3 DEF Next, ReadStep, vars, feed, Call, NextCached, SkipSpace, EndOfText,
       Dispatch, KeywordWord, KeywordAstray, PunctuationChar, Walks, Crashed
<1>8. PICK maker \in ReadersOfMode : Answers(maker, item)
  BY <1>5, <1>7, AnswerMakes
<1>9. at = began /\ ~Eof /\ Reading
  <2>1. at = began /\ ~Eof
    BY <1>7 DEF StateOK, StandOK, AskReaders
  <2> QED
    BY <1>1, <2>1, TextIs, PlaceIs DEF InputOK, Reading
<1>10. PICK i \in 1..Len(mode.readers) : maker = mode.readers[i]
  BY DEF ReadersOfMode
<1>11. item.type \in TypesOf(maker)
  <2>1. IsReader(maker)
    BY <1>1, <1>10, ModeIs DEF mode
  <2> DEFINE result == readBy(maker, LastType(lexCtx.lastToken))
  <2>2. IsAnswer(maker, result)
    BY <1>9, <2>1, ReadersAnswer
  <2>3. result.is = "token" /\ result.type = item.type
    BY <1>8 DEF Answers, Token
  <2> HIDE DEF result
  <2>4. IsToken(maker, result)
    BY <2>2, <2>3 DEF IsAnswer, IsError, Null, Unterminated
  <2>5. PICK type \in TypesOf(maker) : result.type = type
    BY <2>4 DEF IsToken, Token
  <2> QED
    BY <2>3, <2>5
<1>12. r = maker
  <2>1. mode.readers[j].type \in TypesOf(mode.readers[i])
    BY <1>3, <1>10, <1>11
  <2> QED
    BY <1>1, <1>3, <1>10, <2>1 DEF TypesTell, mode
<1>13. item.from < item.to
  BY DEF IsNew, LexedItems
<1> QED
  BY <1>2, <1>3, <1>4, <1>8, <1>9, <1>12, <1>13 DEF IsReader

-------------------------------------------------------------------------------
(* Operators.                                                              *)

\* Where a run of operator characters has what no scan may cross, it has all of
\* it: such a sequence is of operator characters, as a comment start is.
StopsAreOperators ==
  \A r \in AllReaders : r.kind = "operator" => r.stops \subseteq Seq(r.chars)

LEMMA StopInRun ==
  ASSUME TextOK, NEW p \in Nat, NEW class, class \subseteq Chars, NEW n \in 0..(RunOf(p, class) - 1),
         NEW stop \in Seq(class), stop # <<>>, StartsWith(p + n, stop)
  PROVE  n + Len(stop) <= RunOf(p, class)
<1> DEFINE run == RunOf(p, class)
<1>1. run \in Nat /\ Char(p + run) \notin class
  BY RunIs
<1> HIDE DEF run
<1>2. SUFFICES ASSUME n + Len(stop) > run PROVE FALSE
  BY <1>1 DEF run
<1>3. n \in Nat /\ Len(stop) \in Nat /\ run - n + 1 \in 1..Len(stop) /\ n < run
  BY <1>1, <1>2 DEF run
<1>4. Char(p + n + (run - n + 1) - 1) = stop[run - n + 1] /\ stop[run - n + 1] \in class
  BY <1>3 DEF StartsWith
<1>5. p + n + (run - n + 1) - 1 = p + run
  BY <1>1, <1>3
<1> QED
  BY <1>1, <1>4, <1>5

LEMMA OperatorTells ==
  ASSUME Reading, NEW r, r.chars \subseteq Chars, r.stops \subseteq Seq(r.chars) \ {<<>>},
         operator(r) # Null
  PROVE  LET to == at.pos + lengthOf(r, RunOf(at.pos, r.chars))
         IN  /\ operator(r) = Spanning(r, Ahead(at.pos, to - at.pos), to)
             /\ IsOperator(r, at.pos, to)
             /\ \A q \in (to + 1)..Len(text) : ~IsOperator(r, at.pos, q)
<1> DEFINE p == at.pos
           run == RunOf(p, r.chars)
           stops == {n \in 0..run : \E stop \in r.stops : n + Len(stop) <= run /\ StartsWith(p + n, stop)}
           before == {n \in 0..run : \A m \in stops : n <= m}
           cut == Largest(before)
           Strong(n) == Char(p + n) \in r.strong
           strong == \E n \in 0..(cut - 1) : Strong(n)
           kept == {n \in 0..cut : n <= 1 \/ Char(p + n - 1) \notin r.trailing}
           length == lengthOf(r, run)
<1>1. p \in Nat /\ Len(text) \in Nat /\ p < Len(text) /\ TextOK
  BY ReadingAt DEF Reading
<1>2. /\ run \in Nat /\ p + run <= Len(text) /\ Char(p + run) \notin r.chars
      /\ \A i \in 0..(run - 1) : Char(p + i) \in r.chars
  BY <1>1, RunIs
<1>3. length = IF strong THEN cut ELSE Largest(kept)
  BY DEF lengthOf
<1>4. operator(r) = IF length = 0 THEN Null ELSE Spanning(r, Ahead(p, length), p + length)
  BY DEF operator
<1> HIDE DEF run
<1>5. /\ cut \in 0..run /\ \A m \in stops : cut <= m
      /\ \A n \in 0..run : (\A m \in stops : n <= m) => n <= cut
  <2>1. before \subseteq 0..run /\ 0 \in before
    BY <1>2
  <2>2. cut \in before /\ \A m \in before : m <= cut
    <3> HIDE DEF before
    <3> QED
      BY <1>2, <2>1, LargestIs
  <2> HIDE DEF cut
  <2> QED
    BY <2>2
<1>6. cut < run => cut \in stops
  <2> SUFFICES ASSUME cut < run, cut \notin stops PROVE FALSE
    OBVIOUS
  <2>1. \A m \in stops : m \in Nat
    OBVIOUS
  <2> HIDE DEF stops, cut
  <2>2. cut + 1 \in 0..run /\ ~(cut + 1 <= cut)
    BY <1>2, <1>5
  <2>3. \A m \in stops : cut + 1 <= m
    BY <1>5, <2>1
  <2> QED
    BY <1>5, <2>2, <2>3
<1>7. /\ length \in 0..cut
      /\ strong => length = cut
      /\ ~strong => length <= 1 \/ Char(p + length - 1) \notin r.trailing
      /\ ~strong => \A n \in 0..cut : n > length => n > 1 /\ Char(p + n - 1) \in r.trailing
  <2>1. kept \subseteq 0..cut /\ 0 \in kept /\ cut \in Nat
    BY <1>5
  <2>2. Largest(kept) \in kept /\ \A m \in kept : m <= Largest(kept)
    <3> HIDE DEF kept, cut
    <3> QED
      BY <2>1, LargestIs
  <2> HIDE DEF cut
  <2>3. \A n \in 0..cut : n > Largest(kept) => n > 1 /\ Char(p + n - 1) \in r.trailing
    BY <2>1, <2>2
  <2>4. Largest(kept) \in 0..cut
        /\ (Largest(kept) <= 1 \/ Char(p + Largest(kept) - 1) \notin r.trailing)
    BY <2>2
  <2> HIDE DEF kept, length, strong
  <2> QED
    BY <1>3, <2>1, <2>3, <2>4
<1>8. length # 0 /\ operator(r) = Spanning(r, Ahead(p, length), p + length)
  BY <1>4
<1> DEFINE to == p + length
<1> HIDE DEF length
<1>9. ASSUME NEW i \in p..(p + cut - 1), NEW stop \in r.stops PROVE ~StartsWith(i, stop)
  <2> SUFFICES ASSUME StartsWith(i, stop) PROVE FALSE
    OBVIOUS
  <2> DEFINE n == i - p
  <2>1. n \in 0..(run - 1) /\ n < cut /\ p + n = i /\ n \in 0..run /\ n \in Nat
    BY <1>1, <1>2, <1>5
  <2>2. stop \in Seq(r.chars) /\ stop # <<>>
    OBVIOUS
  <2>3. n + Len(stop) <= run
    <3> HIDE DEF n
    <3> QED
      BY <1>1, <2>1, <2>2, StopInRun DEF run
  <2>4. n \in stops
    BY <2>1, <2>3
  <2> HIDE DEF stops, cut, n
  <2> QED
    BY <1>5, <2>1, <2>4
<1>10. IsOperator(r, p, to)
  <2>1. p < to /\ length \in Nat /\ cut \in Nat /\ length <= cut /\ cut <= run
    BY <1>1, <1>2, <1>5, <1>7, <1>8
  <2>2. \A i \in p..(to - 1) : Char(i) \in r.chars
    <3> SUFFICES ASSUME NEW i \in p..(to - 1) PROVE Char(i) \in r.chars
      OBVIOUS
    <3>1. i - p \in 0..(run - 1) /\ p + (i - p) = i
      BY <1>1, <1>2, <2>1
    <3> QED
      BY <1>2, <3>1
  <2>3. \A i \in p..(to - 1), stop \in r.stops : ~StartsWith(i, stop)
    <3>1. p..(to - 1) \subseteq p..(p + cut - 1)
      <4> HIDE DEF cut
      <4> QED
        BY <1>1, <2>1
    <3> QED
      BY <1>9, <3>1
  <2>4. \/ to = p + 1 \/ Char(to - 1) \notin r.trailing
        \/ \E i \in p..(to - 1) : Char(i) \in r.strong
    <3>1. CASE strong
      <4>1. PICK n \in 0..(cut - 1) : Char(p + n) \in r.strong
        BY <3>1
      <4>2. p + n \in p..(to - 1)
        <5> HIDE DEF cut
        <5> QED
          BY <1>1, <1>7, <2>1, <3>1
      <4> QED
        BY <4>1, <4>2
    <3>2. CASE ~strong
      BY <1>1, <1>7, <1>8, <2>1, <3>2
    <3> QED
      BY <3>1, <3>2
  <2> QED
    BY <2>1, <2>2, <2>3, <2>4 DEF IsOperator
<1>11. ASSUME NEW q \in (to + 1)..Len(text) PROVE ~IsOperator(r, p, q)
  <2> SUFFICES ASSUME IsOperator(r, p, q) PROVE FALSE
    OBVIOUS
  <2>1. /\ \A i \in p..(q - 1) : Char(i) \in r.chars
        /\ \A i \in p..(q - 1), stop \in r.stops : ~StartsWith(i, stop)
        /\ \/ q = p + 1 \/ Char(q - 1) \notin r.trailing
           \/ \E i \in p..(q - 1) : Char(i) \in r.strong
    BY DEF IsOperator
  <2>2. /\ cut \in Nat /\ length \in Nat /\ length >= 1 /\ length <= cut /\ cut <= run
        /\ q \in Nat /\ q > p + length
    BY <1>1, <1>2, <1>5, <1>7, <1>8
  <2>3. q <= p + run
    <3> SUFFICES ASSUME q > p + run PROVE FALSE
      BY <1>1, <1>2, <2>2
    <3>1. p + run \in p..(q - 1)
      BY <1>1, <1>2, <2>2
    <3> QED
      BY <1>2, <2>1, <3>1
  <2>4. q <= p + cut
    <3> SUFFICES ASSUME q > p + cut PROVE FALSE
      BY <1>1, <2>2
    <3>1. cut \in stops
      <4> HIDE DEF cut, stops
      <4> QED
        BY <1>1, <1>2, <1>6, <2>2, <2>3
    <3>2. \E stop \in r.stops : StartsWith(p + cut, stop)
      BY <3>1
    <3>3. p + cut \in p..(q - 1)
      BY <1>1, <2>2
    <3> QED
      BY <2>1, <3>2, <3>3
  <2>5. CASE strong
    <3>1. length = cut
      BY <1>7, <2>5
    <3> HIDE DEF cut
    <3> QED
      BY <1>1, <2>2, <2>4, <3>1
  <2>6. CASE ~strong
    <3>1. q - p \in 0..cut /\ q - p > length /\ p + (q - p) - 1 = q - 1
      BY <1>1, <2>2, <2>4
    <3>2. q - p > 1 /\ Char(q - 1) \in r.trailing
      <4> HIDE DEF strong, cut
      <4> QED
        BY <1>7, <2>6, <3>1
    <3>3. PICK i \in p..(q - 1) : Char(i) \in r.strong
      BY <1>1, <2>1, <2>2, <3>2
    <3>4. i - p \in 0..(cut - 1) /\ p + (i - p) = i
      BY <1>1, <2>2, <2>4
    <3> QED
      BY <2>6, <3>3, <3>4
  <2> QED
    BY <2>5, <2>6
<1>12. to - p = length
  BY <1>1, <1>2, <1>5, <1>7
<1> QED
  BY <1>8, <1>10, <1>11, <1>12 DEF length, run

\* A step makes an item, or leaves items and text as they are.
LEMMA StepMakes ==
  ASSUME StateOK, [Next]_vars
  PROVE  \/ UNCHANGED <<text, items>>
         \/ \E item : IsNew(item) /\ items' = Append(items, item) /\ Next /\ UNCHANGED text
<1>1. CASE UNCHANGED vars \/ Call \/ NextCached \/ SkipSpace \/ EndOfText \/ GoesOn
  BY <1>1 DEF vars, input, feed, Call, NextCached, SkipSpace, EndOfText, GoesOn
<1>2. CASE Emits \/ Croaks
  <2>1. PICK item : IsNew(item) /\ items' = Append(items, item)
    BY <1>2 DEF Emits, Croaks, Emit
  <2>2. Len(items') = Len(items) + 1 /\ Len(items) \in Nat /\ UNCHANGED text
    BY <2>1, ItemsGrow DEF StateOK, IsNew
  <2>3. items' # items
    BY <2>2
  <2> QED
    BY <2>1, <2>2, <2>3 DEF vars, feed
<1> QED
  BY <1>1, <1>2, StepIs

\* What OperatorsAreLongest asks of an item.
OperatorOK(item) ==
  \A r \in MakersOf(item, "operator") :
    /\ IsOperator(r, item.from, item.to)
    /\ \A q \in (item.to + 1)..Len(text) : ~IsOperator(r, item.from, q)

OperatorsOK == \A i \in 1..Len(items) : OperatorOK(items[i])

LEMMA OperatorStays ==
  ASSUME UNCHANGED text, NEW item
  PROVE  OperatorOK(item)' <=> OperatorOK(item)
BY DEF OperatorOK, IsOperator, StartsWith, Char

LEMMA OperatorIsMade ==
  ASSUME StateOK, ReadersHaveOwnTypes, TypesTell, StopsAreOperators, Next,
         NEW item, IsNew(item), items' = Append(items, item)
  PROVE  OperatorOK(item)
<1> SUFFICES ASSUME NEW r \in MakersOf(item, "operator")
             PROVE  /\ IsOperator(r, item.from, item.to)
                    /\ \A q \in (item.to + 1)..Len(text) : ~IsOperator(r, item.from, q)
  BY DEF OperatorOK
<1>1. /\ Answers(r, item) /\ at.pos = item.from /\ r \in Reader /\ r.kind = "operator" /\ Reading
  BY MakerAnswers
<1>2. r \in AllReaders
  <2>1. lexCtx.mode \in Modes /\ item.mode = lexCtx.mode
    BY DEF StateOK, ContextOK, IsNew
  <2> QED
    BY <2>1 DEF MakersOf, ReadersOf, AllReaders
<1>3. r.chars \subseteq Chars /\ r.stops \subseteq Seq(r.chars) \ {<<>>}
  <2>1. r.chars \subseteq Chars /\ <<>> \notin r.stops
    <3>1. r \in [kind : {"operator"}, type : STRING, chars : SUBSET Chars,
                stops : SUBSET (Seq(Chars) \ {<<>>}), trailing : SUBSET Chars, strong : SUBSET Chars]
      BY <1>1 DEF Reader, NumberReader, StringReader
    <3> QED
      BY <3>1
  <2>2. r.stops \subseteq Seq(r.chars)
    BY <1>1, <1>2 DEF StopsAreOperators
  <2> QED
    BY <2>1, <2>2
<1> DEFINE to == at.pos + lengthOf(r, RunOf(at.pos, r.chars))
<1>4. operator(r) = Token(item.type, item.value, item.start.pos, item.end.pos, item.to)
  BY <1>1 DEF Answers, readBy
<1>5. operator(r) # Null
  BY <1>4 DEF Token, Null
<1>6. /\ operator(r) = Spanning(r, Ahead(at.pos, to - at.pos), to)
      /\ IsOperator(r, at.pos, to)
      /\ \A q \in (to + 1)..Len(text) : ~IsOperator(r, at.pos, q)
  BY <1>1, <1>3, <1>5, OperatorTells
<1> HIDE DEF to
<1>7. item.to = to
  BY <1>4, <1>6 DEF Spanning, Token
<1> QED
  BY <1>1, <1>6, <1>7

LEMMA OperatorStep ==
  ASSUME StateOK, OperatorsOK, ReadersHaveOwnTypes, TypesTell, StopsAreOperators, [Next]_vars
  PROVE  OperatorsOK'
<1>1. CASE UNCHANGED <<text, items>>
  BY <1>1, OperatorStays DEF OperatorsOK
<1>2. ASSUME NEW item, IsNew(item), items' = Append(items, item), Next, UNCHANGED text
      PROVE  OperatorsOK'
  <2>1. OperatorOK(item)
    BY <1>2, OperatorIsMade
  <2>2. /\ Len(items) \in Nat /\ Len(items') = Len(items) + 1 /\ items'[Len(items) + 1] = item
        /\ \A i \in 1..Len(items) : items'[i] = items[i]
    BY <1>2, ItemsGrow DEF StateOK, IsNew
  <2>3. ASSUME NEW i \in 1..Len(items') PROVE OperatorOK(items'[i])
    BY <2>1, <2>2, <2>3 DEF OperatorsOK
  <2>4. \A item_ : OperatorOK(item_)' <=> OperatorOK(item_)
    BY <1>2, OperatorStays
  <2> QED
    BY <2>3, <2>4 DEF OperatorsOK
<1> QED
  BY <1>1, <1>2, StepMakes

\* lexer.ts:765: "a scan never swallows a comment start mid-run", signs at its
\* end are left for a number, and no more than that is left: of any operator
\* reader, on any text.
THEOREM OperatorsAreRead ==
  ASSUME ReadersHaveOwnTypes, TypesTell, StopsAreOperators
  PROVE  Spec => []OperatorsAreLongest
<1>1. Init => OperatorsOK
  BY DEF Init, OperatorsOK
<1>2. StateOK /\ OperatorsOK /\ [Next]_vars => OperatorsOK'
  BY OperatorStep
<1>3. OperatorsOK => OperatorsAreLongest
  BY DEF OperatorsOK, OperatorOK, OperatorsAreLongest
<1> QED
  BY <1>1, <1>2, <1>3, StateInvariance, PTL DEF Spec

-------------------------------------------------------------------------------
(* What has two ends. *)

\* What Balanced says of a span, said of Balanced.
LEMMA BalancedIs ==
  ASSUME TextOK, NEW r, r.open \in Seq(Chars) \ {<<>>}, r.close \in Seq(Chars) \ {<<>>},
         NEW p \in 0..Len(text), NEW q \in 0..Len(text)
  PROVE  Balanced(r, p, q) <=>
           \/ p = q
           \/ /\ p < q /\ ~StartsWith(p, r.close)
              /\ ~(r.nested /\ StartsWith(p, r.open))
              /\ Balanced(r, p + 1, q)
           \/ /\ p < q /\ ~StartsWith(p, r.close)
              /\ r.nested /\ StartsWith(p, r.open)
              /\ \E inner \in (p + Len(r.open))..(q - Len(r.close)) :
                   /\ StartsWith(inner, r.close)
                   /\ Balanced(r, p + Len(r.open), inner) /\ Balanced(r, inner + Len(r.close), q)
<1> DEFINE L == Len(text)
           D == 0..L
           V == [D -> BOOLEAN]
           o == Len(r.open)
           c == Len(r.close)
           Ends(i) == StartsWith(i, r.close)
           Opens(i) == r.nested /\ StartsWith(i, r.open)
           Right(f) == [i \in D |-> [j \in D |->
             \/ i = j
             \/ /\ i < j /\ ~StartsWith(i, r.close)
                /\ ~(r.nested /\ StartsWith(i, r.open))
                /\ f[i + 1][j]
             \/ /\ i < j /\ ~StartsWith(i, r.close)
                /\ r.nested /\ StartsWith(i, r.open)
                /\ \E inner \in (i + Len(r.open))..(j - Len(r.close)) :
                     /\ StartsWith(inner, r.close)
                     /\ f[i + Len(r.open)][inner] /\ f[inner + Len(r.close)][j]]]
           Holds(f, i, j) ==
             \/ i = j
             \/ i < j /\ ~Ends(i) /\ ~Opens(i) /\ f[i + 1][j]
             \/ /\ i < j /\ ~Ends(i) /\ Opens(i)
                /\ \E inner \in (i + o)..(j - c) :
                     Ends(inner) /\ f[i + o][inner] /\ f[inner + c][j]
           unfold == [f \in [D -> V] |-> Right(f)]
           balanced == CHOOSE f : f = Right(f)
<1>1. /\ L \in Nat /\ IsRange(D, L) /\ D # {} /\ p \in D /\ q \in D
      /\ \A i \in D : i \in Nat /\ i <= L
      /\ o \in Nat /\ o > 0 /\ c \in Nat /\ c > 0
  BY CharFacts DEF IsRange
<1>2. \A i, j : Balanced(r, i, j) = balanced[i][j]
  BY Zenon DEF Balanced
<1>3. ASSUME NEW f, NEW i \in D, NEW j \in D
      PROVE  Right(f)[i][j] = Holds(f, i, j)
  BY Zenon
<1>4. ASSUME NEW f
      PROVE  /\ Right(f) = [i \in D |-> Right(f)[i]]
             /\ \A i \in D : Right(f)[i] = [j \in D |-> Right(f)[i][j]]
  BY Zenon
<1>5. ASSUME NEW f, NEW i \in D, NEW j \in D PROVE Holds(f, i, j) \in BOOLEAN
  BY Zenon
<1>6. ASSUME NEW f, NEW g, NEW i \in D, NEW j \in D, \A k \in D : k > i => f[k] = g[k]
      PROVE  Holds(f, i, j) = Holds(g, i, j)
  <2>1. i < j => i + 1 \in D /\ i + 1 > i
    BY <1>1
  <2>2. ASSUME NEW inner \in (i + o)..(j - c)
        PROVE  /\ i + o \in D /\ i + o > i
               /\ inner + c \in D /\ inner + c > i
    <3> HIDE DEF o, c, L
    <3> QED
      BY <1>1, <1>6, <2>2
  <2>3. i < j => f[i + 1][j] = g[i + 1][j]
    BY <1>6, <2>1
  <2>4. \A inner \in (i + o)..(j - c) :
          f[i + o][inner] = g[i + o][inner] /\ f[inner + c][j] = g[inner + c][j]
    BY <1>6, <2>2
  <2> HIDE DEF o, c, D, L, Ends, Opens
  <2> QED
    BY <2>3, <2>4, Zenon
<1> HIDE DEF Right, Holds
<1>7. \E f \in [D -> V] : f = unfold[f]
  <2>1. IsStep(D, V, unfold)
    <3>1. ASSUME NEW f \in [D -> V] PROVE Right(f) \in [D -> V]
      <4>1. ASSUME NEW i \in D PROVE Right(f)[i] \in V
        <5> HIDE DEF D
        <5>1. ASSUME NEW j \in D PROVE Right(f)[i][j] \in BOOLEAN
          <6>1. Right(f)[i][j] = Holds(f, i, j) /\ Holds(f, i, j) \in BOOLEAN
            BY <1>3, <1>5, <4>1, <5>1, Zenon
          <6> QED
            BY <6>1, Zenon
        <5>2. Right(f)[i] = [j \in D |-> Right(f)[i][j]]
          BY <1>4, <4>1, Zenon
        <5> QED
          BY <5>1, <5>2
      <4> QED
        BY <1>4, <4>1, Zenon
    <3> QED
      BY <3>1 DEF IsStep
  <2>2. LooksAhead(D, V, unfold)
    <3>1. ASSUME NEW f \in [D -> V], NEW g \in [D -> V], NEW i \in D,
                 \A k \in D : k > i => f[k] = g[k]
          PROVE  unfold[f][i] = unfold[g][i]
      <4>1. ASSUME NEW j \in D PROVE Right(f)[i][j] = Right(g)[i][j]
        <5> HIDE DEF D, V
        <5>1. Right(f)[i][j] = Holds(f, i, j) /\ Right(g)[i][j] = Holds(g, i, j)
          BY <1>3, <3>1, <4>1, Zenon
        <5>2. Holds(f, i, j) = Holds(g, i, j)
          BY <1>6, <3>1, <4>1, Zenon
        <5> QED
          BY <5>1, <5>2, Zenon
      <4>2. Right(f)[i] = Right(g)[i]
        <5>1. /\ Right(f)[i] = [j \in D |-> Right(f)[i][j]]
              /\ Right(g)[i] = [j \in D |-> Right(g)[i][j]]
          BY <1>4, <3>1, Zenon
        <5>2. [j \in D |-> Right(f)[i][j]] = [j \in D |-> Right(g)[i][j]]
          BY <4>1, Zenon
        <5> QED
          BY <5>1, <5>2, Zenon
      <4> QED
        BY <3>1, <4>2
    <3> QED
      BY <3>1 DEF LooksAhead
  <2>3. V # {}
    <3>1. [j \in D |-> TRUE] \in V
      OBVIOUS
    <3> QED
      BY <3>1
  <2> HIDE DEF L, D, V, unfold
  <2> QED
    BY <1>1, <2>1, <2>2, <2>3, Downward
<1>8. balanced = Right(balanced)
  BY <1>7
<1>9. Balanced(r, p, q) = Holds(balanced, p, q)
  <2> HIDE DEF balanced, D
  <2>1. Right(balanced)[p][q] = Holds(balanced, p, q)
    BY <1>1, <1>3, Zenon
  <2> QED
    BY <1>2, <1>8, <2>1, Zenon
<1> HIDE DEF balanced
<1> QED
  BY <1>2, <1>9, Zenon DEF Holds

\* The scan passes over what is balanced and the close behind it.
LEMMA ScanPassesBalanced ==
  ASSUME TextOK, NEW r, r.open \in Seq(Chars) \ {<<>>}, r.close \in Seq(Chars) \ {<<>>},
         NEW closes, IsCloseScan(r, closes)
  PROVE  \A p, q \in 0..Len(text), depth \in Nat \ {0} :
           Balanced(r, p, q) /\ StartsWith(q, r.close) =>
             closes[p][depth] = IF depth = 1 THEN q ELSE closes[q + Len(r.close)][depth - 1]
<1> DEFINE L == Len(text)
           D == 0..L
           Depths == Nat \ {0}
           o == Len(r.open)
           c == Len(r.close)
           IsPassed(p, q, depth) ==
             closes[p][depth] = IF depth = 1 THEN q ELSE closes[q + c][depth - 1]
           Passes == {p \in D : \A q \in D, depth \in Depths :
                        Balanced(r, p, q) /\ StartsWith(q, r.close) => IsPassed(p, q, depth)}
<1>1. /\ L \in Nat /\ IsRange(D, L)
      /\ \A i \in D : i \in Nat /\ i <= L
      /\ o \in Nat /\ o > 0 /\ c \in Nat /\ c > 0
  BY CharFacts DEF IsRange
<1>0. ASSUME NEW p \in D, NEW depth \in Depths
      PROVE  closes[p][depth] = IF ClosesHere(r, p, depth) THEN p
                                ELSE closes[AfterClose(r, p)][DepthAfter(r, p, depth)]
  BY DEF IsCloseScan
<1>2. ASSUME NEW q \in D, StartsWith(q, r.close) PROVE q # L /\ q + c \in D
  <2>1. q + c <= L
    BY <1>1, <1>2, StartsWithin
  <2> HIDE DEF c, L
  <2> QED
    BY <1>1, <2>1
<1>3. ASSUME NEW p \in D, NEW q \in D, NEW depth \in Depths,
             \A k \in D : k > p => k \in Passes,
             Balanced(r, p, q), StartsWith(q, r.close)
      PROVE  IsPassed(p, q, depth)
  <2>1. CASE p = q
    <3>1. depth = 1 => closes[p][depth] = p
      BY <1>0, <1>3, <2>1 DEF ClosesHere
    <3>2. depth # 1 => closes[p][depth] = closes[p + Len(r.close)][depth - 1]
      BY <1>0, <1>2, <1>3, <2>1 DEF ClosesHere, AfterClose, DepthAfter
    <3> QED
      BY <2>1, <3>1, <3>2
  <2>2. CASE /\ p < q /\ ~StartsWith(p, r.close)
             /\ ~(r.nested /\ StartsWith(p, r.open))
             /\ Balanced(r, p + 1, q)
    <3>1. closes[p][depth] = closes[p + 1][depth]
      BY <1>0, <1>1, <1>3, <2>2 DEF ClosesHere, AfterClose, DepthAfter
    <3>2. p + 1 \in Passes
      <4>1. p + 1 \in D /\ p + 1 > p
        BY <1>1, <2>2
      <4> HIDE DEF Passes, D
      <4> QED
        BY <1>3, <4>1
    <3>3. IsPassed(p + 1, q, depth)
      BY <1>3, <2>2, <3>2
    <3> QED
      BY <3>1, <3>3
  <2>3. ASSUME p < q, ~StartsWith(p, r.close), r.nested, StartsWith(p, r.open),
               NEW inner \in (p + o)..(q - c), StartsWith(inner, r.close),
               Balanced(r, p + o, inner), Balanced(r, inner + c, q)
        PROVE  IsPassed(p, q, depth)
    <3>1. closes[p][depth] = closes[p + o][depth + 1]
      <4>1. ~ClosesHere(r, p, depth)
        BY <1>0, <1>1, <1>3, <2>3 DEF ClosesHere
      <4>2. AfterClose(r, p) = p + o /\ DepthAfter(r, p, depth) = depth + 1
        BY <2>3 DEF AfterClose, DepthAfter
      <4> HIDE DEF o
      <4> QED
        BY <1>3, <1>0, <4>1, <4>2
    <3>2. /\ p + o \in D /\ p + o > p
          /\ inner \in D /\ inner + c \in D /\ inner + c > p
      <4> HIDE DEF o, c, L
      <4> QED
        BY <1>1, <1>3, <2>3
    <3>3. depth + 1 \in Depths /\ depth + 1 # 1 /\ depth + 1 - 1 = depth
      OBVIOUS
    <3>4. IsPassed(p + o, inner, depth + 1)
      <4>1. p + o \in Passes
        BY <1>3, <3>2
      <4> HIDE DEF o, c, Depths, IsPassed, D
      <4> QED
        BY <2>3, <3>2, <3>3, <4>1
    <3>5. IsPassed(inner + c, q, depth)
      <4>1. inner + c \in Passes
        BY <1>3, <3>2
      <4> HIDE DEF o, c, Depths, IsPassed, D
      <4> QED
        BY <1>3, <2>3, <4>1
    <3> HIDE DEF o, c, Depths, D
    <3>6. closes[p + o][depth + 1] = closes[inner + c][depth]
      <4>1. depth \in Nat
        BY DEF Depths
      <4> QED
        BY <3>3, <3>4, <4>1
    <3> QED
      BY <3>1, <3>5, <3>6
  <2> QED
    BY <1>3, <2>1, <2>2, <2>3, BalancedIs
<1>4. D \subseteq Passes
  <2>1. \A p \in D : (\A k \in D : k > p => k \in Passes) => p \in Passes
    BY <1>3
  <2> HIDE DEF Passes, D
  <2> QED
    BY <1>1, <2>1, DownInduction
<1> HIDE DEF IsPassed
<1>5. \A p \in D, q \in D, depth \in Depths :
        Balanced(r, p, q) /\ StartsWith(q, r.close) => IsPassed(p, q, depth)
  BY <1>4
<1> QED
  BY <1>5 DEF IsPassed

\* Where the scan ends, before the end of the text, is the close of what is
\* balanced. With more closes to come, it goes on behind that close.
LEMMA ScanFindsBalanced ==
  ASSUME TextOK, NEW r, r.open \in Seq(Chars) \ {<<>>}, r.close \in Seq(Chars) \ {<<>>},
         NEW closes, IsCloseScan(r, closes), NEW from \in 0..Len(text),
         closes[from][1] # Len(text)
  PROVE  \E q \in from..Len(text) :
           Balanced(r, from, q) /\ StartsWith(q, r.close) /\ closes[from][1] = q
<1> DEFINE L == Len(text)
           D == 0..L
           Depths == Nat \ {0}
           o == Len(r.open)
           c == Len(r.close)
           Ends(p, q, depth) ==
             /\ Balanced(r, p, q) /\ StartsWith(q, r.close)
             /\ closes[p][depth] = IF depth = 1 THEN q ELSE closes[q + c][depth - 1]
           Finds == {p \in D : \A depth \in Depths :
                       closes[p][depth] # L => \E q \in p..L : Ends(p, q, depth)}
<1>1. /\ L \in Nat /\ IsRange(D, L)
      /\ \A i \in D : i \in Nat /\ i <= L
      /\ o \in Nat /\ o > 0 /\ c \in Nat /\ c > 0
  BY CharFacts DEF IsRange
<1>0. ASSUME NEW p \in D, NEW depth \in Depths
      PROVE  closes[p][depth] = IF ClosesHere(r, p, depth) THEN p
                                ELSE closes[AfterClose(r, p)][DepthAfter(r, p, depth)]
  BY DEF IsCloseScan
<1>2. ASSUME NEW q \in D, StartsWith(q, r.close) PROVE q # L /\ q + c \in D
  <2>1. q + c <= L
    BY <1>1, <1>2, StartsWithin
  <2> HIDE DEF c, L
  <2> QED
    BY <1>1, <2>1
<1>3. ASSUME NEW p \in D, StartsWith(p, r.open) PROVE p + o \in D
  <2>1. p + o <= L
    BY <1>1, <1>3, StartsWithin
  <2> HIDE DEF o, L
  <2> QED
    BY <1>1, <2>1
<1>4. ASSUME NEW p \in D, NEW depth \in Depths, \A k \in D : k > p => k \in Finds,
             closes[p][depth] # L
      PROVE  \E q \in p..L : Ends(p, q, depth)
  <2>1. p # L
    BY <1>0, <1>4 DEF ClosesHere
  <2>2. CASE StartsWith(p, r.close)
    <3>1. Balanced(r, p, p)
      BY BalancedIs
    <3>2. depth = 1 => closes[p][depth] = p
      BY <1>0, <2>2 DEF ClosesHere
    <3>3. depth # 1 => closes[p][depth] = closes[p + Len(r.close)][depth - 1]
      BY <1>0, <2>1, <2>2 DEF ClosesHere, AfterClose, DepthAfter
    <3>4. Ends(p, p, depth) /\ p \in p..L
      BY <1>1, <2>2, <3>1, <3>2, <3>3
    <3> QED
      BY <3>4
  <2>3. CASE ~StartsWith(p, r.close) /\ ~(r.nested /\ StartsWith(p, r.open))
    <3>1. closes[p][depth] = closes[p + 1][depth] /\ p + 1 \in D
      BY <1>0, <1>1, <2>1, <2>3 DEF ClosesHere, AfterClose, DepthAfter
    <3>2. PICK q \in (p + 1)..L : Ends(p + 1, q, depth)
      BY <1>1, <1>4, <3>1
    <3>3. q \in D /\ q \in p..L /\ p < q
      BY <1>1, <3>1, <3>2
    <3>4. Balanced(r, p, q)
      BY <2>3, <3>2, <3>3, BalancedIs
    <3> QED
      BY <3>1, <3>2, <3>3, <3>4
  <2>4. CASE ~StartsWith(p, r.close) /\ r.nested /\ StartsWith(p, r.open)
    <3>1. closes[p][depth] = closes[p + o][depth + 1] /\ p + o \in D /\ p + o > p
      <4>1. ~ClosesHere(r, p, depth)
        BY <1>0, <2>1, <2>4 DEF ClosesHere
      <4>2. AfterClose(r, p) = p + o /\ DepthAfter(r, p, depth) = depth + 1
        BY <2>4 DEF AfterClose, DepthAfter
      <4>3. p + o \in D
        BY <1>3, <2>4
      <4>4. closes[p][depth] = closes[p + o][depth + 1]
        <5>1. closes[p][depth] = closes[AfterClose(r, p)][DepthAfter(r, p, depth)]
          BY <1>0, <1>4, <4>1, Zenon
        <5> QED
          BY <4>2, <5>1
      <4>5. p + o > p
        BY <1>1
      <4> QED
        BY <4>3, <4>4, <4>5
    <3>2. depth + 1 \in Depths /\ depth + 1 # 1 /\ depth + 1 - 1 = depth
      OBVIOUS
    <3>3. PICK inner \in (p + o)..L : Ends(p + o, inner, depth + 1)
      <4>1. p + o \in Finds /\ closes[p + o][depth + 1] # L
        BY <1>4, <3>1
      <4> HIDE DEF o, Depths, Ends, L
      <4> QED
        BY <3>2, <4>1
    <3>4. inner \in D /\ inner + c \in D /\ inner + c > p
      <4>1. inner \in D
        BY <1>1, <3>1, <3>3
      <4> HIDE DEF L
      <4> QED
        BY <1>1, <1>2, <3>1, <3>3, <4>1
    <3>5. closes[p][depth] = closes[inner + c][depth]
      <4> HIDE DEF o, c
      <4> QED
        BY <3>1, <3>2, <3>3
    <3>6. PICK q \in (inner + c)..L : Ends(inner + c, q, depth)
      <4>1. inner + c \in Finds /\ closes[inner + c][depth] # L
        BY <1>4, <3>4, <3>5
      <4> HIDE DEF c, Depths, Ends, L
      <4> QED
        BY <4>1
    <3>7. q \in D /\ q \in p..L /\ p < q /\ inner \in (p + o)..(q - c)
      <4> HIDE DEF L, o, c
      <4> QED
        BY <1>1, <3>1, <3>3, <3>4, <3>6
    <3>8. Balanced(r, p, q)
      <4>1. /\ StartsWith(inner, r.close) /\ Balanced(r, p + o, inner)
            /\ Balanced(r, inner + c, q)
        BY <3>3, <3>6
      <4> QED
        BY <2>4, <3>7, <4>1, BalancedIs
    <3>9. Ends(p, q, depth)
      <4> HIDE DEF c
      <4> QED
        BY <3>5, <3>6, <3>8
    <3> QED
      BY <3>7, <3>9
  <2> QED
    BY <2>2, <2>3, <2>4
<1>5. D \subseteq Finds
  <2>1. \A p \in D : (\A k \in D : k > p => k \in Finds) => p \in Finds
    BY <1>4
  <2> HIDE DEF Finds, D
  <2> QED
    BY <1>1, <2>1, DownInduction
<1> HIDE DEF Ends
<1>6. PICK q \in from..L : Ends(from, q, 1)
  BY <1>5
<1> QED
  BY <1>6 DEF Ends

LEMMA CommentCloses ==
  ASSUME Reading, NEW r, r.open \in Seq(Chars) \ {<<>>}, r.close \in Seq(Chars) \ {<<>>}, NEW item,
         blockComment(r) = Token(item.type, item.value, item.start.pos, item.end.pos, item.to),
         item.from = at.pos
  PROVE  ClosesComment(r, item)
<1> DEFINE L == Len(text)
           from == at.pos + Len(r.open)
           end == ClosedAt(r, from)
           to == IF end = L THEN end ELSE end + Len(r.close)
<1>1. StartsWith(at.pos, r.open)
  BY DEF blockComment, Token, Null
<1>2. item.value = Between(from, end) /\ item.to = to
  BY <1>1 DEF blockComment, Spanning, Token
<1>3. L \in Nat /\ from \in 0..L /\ TextOK
  BY <1>1, StartsWithin, ReadingAt DEF Reading
<1> HIDE DEF from
<1>4. PICK closes :
        /\ \A p \in 0..Len(text) : ClosedAt(r, p) = closes[p][1]
        /\ IsCloseScan(r, closes)
  BY <1>3, CloseScan
<1>5. end = closes[from][1] /\ end \in from..L
  BY <1>3, <1>4 DEF IsCloseScan
<1> HIDE DEF end
<1>6. end # L => IsClosed(r, from, end)
  <2>1. ASSUME end # L
        PROVE  \E q \in from..L :
                 Balanced(r, from, q) /\ StartsWith(q, r.close) /\ closes[from][1] = q
    BY <1>3, <1>4, <1>5, <2>1, ScanFindsBalanced
  <2> QED
    BY <1>5, <2>1 DEF IsClosed
<1>7. ASSUME NEW q \in from..L, IsClosed(r, from, q) PROVE q = end /\ q # L
  <2>1. Balanced(r, from, q) /\ StartsWith(q, r.close)
    BY <1>7 DEF IsClosed
  <2>2. from \in 0..L /\ q \in 0..L
    BY <1>3, <1>7
  <2>5. \A p_, q_ \in 0..Len(text), depth \in Nat \ {0} :
          Balanced(r, p_, q_) /\ StartsWith(q_, r.close) =>
            closes[p_][depth] = IF depth = 1 THEN q_ ELSE closes[q_ + Len(r.close)][depth - 1]
    BY <1>3, <1>4, ScanPassesBalanced
  <2>3. closes[from][1] = q
    BY <2>1, <2>2, <2>5
  <2>4. q + Len(r.close) <= L /\ Len(r.close) \in Nat /\ Len(r.close) > 0
    BY <1>3, <2>1, <2>2, StartsWithin
  <2> QED
    BY <1>3, <1>5, <2>2, <2>3, <2>4
<1>8. from + Len(item.value) = end
  <2>1. text \in Seq(Chars) /\ from \in Nat /\ end \in from..Len(text)
    BY <1>3, <1>5 DEF TextOK
  <2>2. Len(SubSeq(text, from + 1, end)) = end - from
    BY <2>1
  <2> QED
    BY <1>2, <2>1, <2>2 DEF Between
<1>9. item.from + Len(r.open) = from
  BY DEF from
<1> QED
  BY <1>2, <1>6, <1>7, <1>8, <1>9 DEF ClosesComment

\* The run right before p is the one with no character of the class before it.
LEMMA RunBeforeIs ==
  ASSUME NEW start \in Nat, NEW p \in Nat, start <= p, NEW class
  PROVE  /\ RunBefore(start, p, class) \in 0..(p - start)
         /\ \A i \in 1..RunBefore(start, p, class) : Char(p - i) \in class
         /\ RunBefore(start, p, class) < p - start =>
              Char(p - RunBefore(start, p, class) - 1) \notin class
         /\ \A n \in 0..(p - start) :
              /\ \A i \in 1..n : Char(p - i) \in class
              /\ n < p - start => Char(p - n - 1) \notin class
              => n = RunBefore(start, p, class)
<1> DEFINE N == p - start
           run == RunBefore(start, p, class)
           All(n) == \A i \in 1..n : Char(p - i) \in class
           IsRun(n) == /\ \A i \in 1..n : Char(p - i) \in class
                       /\ n < p - start => Char(p - n - 1) \notin class
           Lengths == {n \in 0..N : All(n)}
<1>1. N \in Nat
  OBVIOUS
<1>2. PICK longest \in Lengths : \A n \in Lengths : n <= longest
  <2>1. 0 \in Lengths
    BY <1>1
  <2> HIDE DEF N, All
  <2> QED
    BY <1>1, <2>1, Greatest
<1>3. IsRun(longest) /\ longest \in 0..N
  <2>1. ASSUME longest < N, Char(p - longest - 1) \in class PROVE FALSE
    <3>1. longest + 1 \in 0..N /\ p - (longest + 1) = p - longest - 1
      BY <1>1, <1>2, <2>1
    <3>2. All(longest + 1)
      <4>1. ASSUME NEW i \in 1..(longest + 1) PROVE Char(p - i) \in class
        <5>1. CASE i = longest + 1
          BY <2>1, <3>1, <5>1
        <5>2. CASE i # longest + 1
          BY <1>1, <1>2, <5>2
        <5> QED
          BY <5>1, <5>2
      <4> QED
        BY <4>1
    <3>3. longest + 1 \in Lengths
      BY <3>1, <3>2
    <3> QED
      BY <1>1, <1>2, <3>3
  <2> QED
    BY <1>2, <2>1
<1>4. run = CHOOSE n \in 0..(p - start) : IsRun(n)
  BY DEF RunBefore
<1>5. run \in 0..N /\ IsRun(run)
  <2> HIDE DEF IsRun
  <2> QED
    BY <1>3, <1>4
<1> HIDE DEF run
<1>6. ASSUME NEW n \in 0..N, NEW m \in 0..N, IsRun(n), IsRun(m), n < m PROVE FALSE
  <2>1. n + 1 \in 1..m /\ p - (n + 1) = p - n - 1
    BY <1>1, <1>6
  <2>2. Char(p - (n + 1)) \in class
    BY <1>6, <2>1
  <2> QED
    BY <1>1, <1>6, <2>1, <2>2
<1>7. ASSUME NEW n \in 0..N, IsRun(n) PROVE n = run
  <2>1. ~(n < run) /\ ~(run < n)
    BY <1>5, <1>6, <1>7
  <2> QED
    BY <1>1, <1>5, <2>1
<1> QED
  BY <1>5, <1>7 DEF run

LEMMA RunBeforeNext ==
  ASSUME NEW start \in Nat, NEW p \in Nat, start <= p, NEW class
  PROVE  /\ RunBefore(start, start, class) = 0
         /\ RunBefore(start, p + 1, class) =
              IF Char(p) \in class THEN RunBefore(start, p, class) + 1 ELSE 0
<1>1. RunBefore(start, start, class) = 0
  <2>1. RunBefore(start, start, class) \in 0..(start - start)
    BY RunBeforeIs
  <2> QED
    BY <2>1
<1> DEFINE run == RunBefore(start, p, class)
           N == p + 1 - start
           IsRun(n) == /\ \A i \in 1..n : Char(p + 1 - i) \in class
                       /\ n < N => Char(p + 1 - n - 1) \notin class
<1>2. /\ run \in 0..(p - start)
      /\ \A i \in 1..run : Char(p - i) \in class
      /\ run < p - start => Char(p - run - 1) \notin class
  BY RunBeforeIs
<1> HIDE DEF run
<1>3. CASE Char(p) \in class
  <2>1. run + 1 \in 0..N
    BY <1>2
  <2>2. ASSUME NEW i \in 1..(run + 1) PROVE Char(p + 1 - i) \in class
    <3>1. CASE i = 1
      BY <1>3, <3>1
    <3>2. CASE i # 1
      <4>1. i - 1 \in 1..run /\ p - (i - 1) = p + 1 - i
        BY <1>2, <2>2, <3>2
      <4> QED
        BY <1>2, <4>1
    <3> QED
      BY <3>1, <3>2
  <2>3. run + 1 < N => Char(p + 1 - (run + 1) - 1) \notin class
    <3>1. p + 1 - (run + 1) - 1 = p - run - 1 /\ (run + 1 < N => run < p - start)
      BY <1>2
    <3> QED
      BY <1>2, <3>1
  <2>4. run + 1 = RunBefore(start, p + 1, class)
    <3>1. \A n \in 0..(p + 1 - start) :
            /\ \A i \in 1..n : Char(p + 1 - i) \in class
            /\ n < p + 1 - start => Char(p + 1 - n - 1) \notin class
            => n = RunBefore(start, p + 1, class)
      BY RunBeforeIs
    <3> QED
      BY <2>1, <2>2, <2>3, <3>1
  <2> QED
    BY <1>1, <1>3, <2>4 DEF run
<1>4. CASE Char(p) \notin class
  <2>1. 0 \in 0..N /\ p + 1 - 0 - 1 = p
    OBVIOUS
  <2>2. 0 = RunBefore(start, p + 1, class)
    <3>1. \A n \in 0..(p + 1 - start) :
            /\ \A i \in 1..n : Char(p + 1 - i) \in class
            /\ n < p + 1 - start => Char(p + 1 - n - 1) \notin class
            => n = RunBefore(start, p + 1, class)
      BY RunBeforeIs
    <3> QED
      BY <1>4, <2>1, <3>1
  <2> QED
    BY <1>1, <1>4, <2>2
<1> QED
  BY <1>1, <1>3, <1>4 DEF run

\* A backslash that is not itself shielded shields what follows it.
LEMMA ShieldedNext ==
  ASSUME NEW start \in Nat, NEW p \in Nat, start <= p, NEW backslash
  PROVE  /\ ~Shielded(backslash, start, start)
         /\ Shielded(backslash, start, p + 1) <=>
              Char(p) \in backslash /\ ~Shielded(backslash, start, p)
<1> DEFINE run == RunBefore(start, p, backslash)
<1>1. run \in Nat
  BY RunBeforeIs
<1>2. /\ RunBefore(start, start, backslash) = 0
      /\ RunBefore(start, p + 1, backslash) = IF Char(p) \in backslash THEN run + 1 ELSE 0
  BY RunBeforeNext
<1> HIDE DEF run
<1>3. (run + 1) % 2 = 1 <=> ~(run % 2 = 1)
  BY <1>1
<1>4. 0 % 2 = 0
  OBVIOUS
<1> QED
  BY <1>2, <1>3, <1>4 DEF Shielded, run

LEMMA InClassNext ==
  ASSUME NEW r, NEW start \in Nat, NEW p \in Nat, start <= p
  PROVE  /\ ~InClass(r, start, start)
         /\ Shielded({r.backslash}, start, p) => InClass(r, start, p + 1) = InClass(r, start, p)
         /\ ~Shielded({r.backslash}, start, p) =>
              InClass(r, start, p + 1) = (Char(p) = r.open \/ (InClass(r, start, p) /\ Char(p) # r.close))
<1> DEFINE IsBracket(i, bracket) == Char(i) = bracket /\ ~Shielded({r.backslash}, start, i)
           Open(i, q) == IsBracket(i, r.open) /\ \A j \in (i + 1)..(q - 1) : ~IsBracket(j, r.close)
<1>1. \A q : InClass(r, start, q) <=> \E i \in start..(q - 1) : Open(i, q)
  BY DEF InClass
<1> HIDE DEF IsBracket
<1>2. ~InClass(r, start, start)
  <2>1. \A i : i \notin start..(start - 1)
    OBVIOUS
  <2> QED
    BY <1>1, <2>1
<1>3. InClass(r, start, p + 1) <=> IsBracket(p, r.open) \/ (InClass(r, start, p) /\ ~IsBracket(p, r.close))
  <2>1. ASSUME NEW i \in start..(p + 1 - 1), Open(i, p + 1), i # p
        PROVE  i \in start..(p - 1) /\ Open(i, p) /\ ~IsBracket(p, r.close)
    <3>1. i \in start..(p - 1) /\ p \in (i + 1)..(p + 1 - 1)
      BY <2>1
    <3>2. \A j \in (i + 1)..(p - 1) : j \in (i + 1)..(p + 1 - 1)
      BY <3>1
    <3> QED
      BY <2>1, <3>1, <3>2
  <2>2. ASSUME IsBracket(p, r.open) PROVE p \in start..(p + 1 - 1) /\ Open(p, p + 1)
    <3>1. p \in start..(p + 1 - 1) /\ \A j : j \notin (p + 1)..(p + 1 - 1)
      OBVIOUS
    <3> QED
      BY <2>2, <3>1
  <2>3. ASSUME NEW i \in start..(p - 1), Open(i, p), ~IsBracket(p, r.close)
        PROVE  i \in start..(p + 1 - 1) /\ Open(i, p + 1)
    <3>1. i \in start..(p + 1 - 1)
      BY <2>3
    <3>2. ASSUME NEW j \in (i + 1)..(p + 1 - 1) PROVE ~IsBracket(j, r.close)
      <4>1. j = p \/ j \in (i + 1)..(p - 1)
        BY <2>3, <3>2
      <4> QED
        BY <2>3, <4>1
    <3> QED
      BY <2>3, <3>1, <3>2
  <2>4. \A i, q : Open(i, q) => IsBracket(i, r.open)
    OBVIOUS
  <2> HIDE DEF Open
  <2>5. /\ InClass(r, start, p + 1) <=> \E i \in start..(p + 1 - 1) : Open(i, p + 1)
        /\ InClass(r, start, p) <=> \E i \in start..(p - 1) : Open(i, p)
    <3>1. InClass(r, start, p + 1) <=> \E i \in start..(p + 1 - 1) : Open(i, p + 1)
      BY <1>1
    <3>2. InClass(r, start, p) <=> \E i \in start..(p - 1) : Open(i, p)
      BY <1>1
    <3> QED
      BY <3>1, <3>2, Zenon
  <2>6. ASSUME NEW i \in start..(p + 1 - 1), Open(i, p + 1)
        PROVE  IsBracket(p, r.open) \/ (InClass(r, start, p) /\ ~IsBracket(p, r.close))
    <3>1. CASE i = p
      BY <2>4, <2>6, <3>1, Zenon
    <3>2. CASE i # p
      BY <2>1, <2>5, <2>6, <3>2, Zenon
    <3> QED
      BY <3>1, <3>2
  <2>7. ASSUME IsBracket(p, r.open) PROVE InClass(r, start, p + 1)
    BY <2>2, <2>5, <2>7, Zenon
  <2>8. ASSUME InClass(r, start, p), ~IsBracket(p, r.close) PROVE InClass(r, start, p + 1)
    BY <2>3, <2>5, <2>8, Zenon
  <2> QED
    BY <2>5, <2>6, <2>7, <2>8, Zenon
<1>4. \A q : InClass(r, start, q) \in BOOLEAN
  BY DEF InClass
<1> QED
  BY <1>2, <1>3, <1>4, Zenon DEF IsBracket

\* The places before p that a regex that begins at start goes over.
GoesOver(r, start, p) ==
  \A q \in start..(p - 1) : ~EndsRegex(r, start, q) /\ Char(q) # NewLine

LEMMA RegexCloses ==
  ASSUME Reading, NEW r, r.slash \in Chars, r.flags \subseteq Chars, NEW lastType, NEW item,
         r.backslash \notin {r.slash, r.open, r.close},
         regex(r, lastType) = Token(item.type, item.value, item.start.pos, item.end.pos, item.to),
         item.from = at.pos
  PROVE  ClosesRegex(r, item)
<1> DEFINE L == Len(text)
           D == 0..L
           start == at.pos + 1
           Sh(p) == Shielded({r.backslash}, start, p)
           In(p) == InClass(r, start, p)
           Whole(to) == Spanning(r, Between(at.pos, to), to)
           Answer_(ends, p) == ends[p][In(p)]
           Told(answer, p) ==
             answer.is = "token" =>
               \E end \in p..L : /\ EndsRegex(r, start, end) /\ GoesOver(r, start, end)
                                 /\ answer = Whole(BehindFlags(r, end))
                                 /\ end < BehindFlags(r, end)
<1>1. PICK ends :
        /\ regex(r, lastType) = IF Char(at.pos) = r.slash /\ lastType \in r.after
                                THEN ends[at.pos + 1][FALSE] ELSE Null
        /\ IsRegexScan(r, ends)
  BY RegexScan
<1>2. /\ L \in Nat /\ IsRange(D, L) /\ start \in D /\ start \in Nat /\ at.pos \in Nat
      /\ \A p \in D : p \in Nat /\ p <= L
  BY ReadingAt DEF IsRange
<1> DEFINE Good == {p \in D : p >= start /\ ~Sh(p) /\ GoesOver(r, start, p) => Told(ends[p][In(p)], p)}
<1>3. \A q : In(q) \in BOOLEAN
  BY DEF InClass
<1> HIDE DEF start
<1>4. ASSUME NEW p \in D, p >= start, ~Sh(p), GoesOver(r, start, p), \A q \in D : q > p => q \in Good
      PROVE  Told(ends[p][In(p)], p)
  <2>1. ends[p][In(p)] =
          IF BreaksOff(r, p) THEN Unterminated(at.pos, BrokenAt(p))
          ELSE IF SlashEnds(r, p, In(p)) THEN Whole(BehindFlags(r, p))
          ELSE ends[AfterEscaped(r, p)][ClassAfter(r, p, In(p))]
    BY <1>1, <1>3, <1>4, Zenon DEF IsRegexScan
  <2>2. CASE BreaksOff(r, p)
    <3>1. ends[p][In(p)] = Unterminated(at.pos, BrokenAt(p))
      BY <2>1, <2>2
    <3>2. ends[p][In(p)].is = "croak"
      BY <3>1 DEF Unterminated
    <3> QED
      BY <3>2
  <2>3. CASE ~BreaksOff(r, p) /\ SlashEnds(r, p, In(p))
    <3>1. ends[p][In(p)] = Whole(BehindFlags(r, p))
      BY <2>1, <2>3
    <3>2. EndsRegex(r, start, p)
      BY <1>4, <2>3 DEF SlashEnds, EndsRegex
    <3>3. p < BehindFlags(r, p) /\ p \in p..L
      BY <1>2, <2>3, RegexGoesOn DEF Reading
    <3> QED
      BY <1>4, <3>1, <3>2, <3>3
  <2>4. CASE ~BreaksOff(r, p) /\ ~SlashEnds(r, p, In(p))
    <3> DEFINE next == AfterEscaped(r, p)
    <3>1. ends[p][In(p)] = ends[next][ClassAfter(r, p, In(p))]
      BY <2>1, <2>4
    <3>2. next \in D /\ next > p
      BY <1>2, <2>4, RegexGoesOn DEF Reading
    <3>3. Char(p) # NewLine /\ ~EndsRegex(r, start, p)
      BY <1>4, <2>4 DEF BreaksOff, SlashEnds, EndsRegex
    <3>4. ~Sh(next) /\ GoesOver(r, start, next) /\ In(next) = ClassAfter(r, p, In(p))
      <4>1. CASE Char(p) = r.backslash
        <5>1. next = p + 1 + 1
          BY <1>2, <4>1 DEF AfterEscaped
        <5>2. Sh(p + 1) /\ ~Sh(p + 1 + 1)
          BY <1>2, <1>4, <4>1, ShieldedNext
        <5>3. In(p + 1) = In(p)
          BY <1>2, <1>3, <1>4, <4>1, InClassNext
        <5>4. In(p + 1 + 1) = In(p + 1)
          <6>1. p + 1 \in Nat /\ start <= p + 1 /\ start \in Nat
            BY <1>2, <1>4
          <6>2. \A q \in Nat : start <= q /\ Sh(q) => In(q + 1) = In(q)
            BY <1>2, InClassNext
          <6> QED
            BY <5>2, <6>1, <6>2
        <5>5. Char(p + 1) # NewLine /\ ~EndsRegex(r, start, p + 1)
          BY <2>4, <4>1, <5>2 DEF BreaksOff, EndsRegex
        <5>6. GoesOver(r, start, p + 1 + 1)
          <6>1. \A q \in start..(p + 1 + 1 - 1) : q \in start..(p - 1) \/ q = p \/ q = p + 1
            BY <1>2
          <6> QED
            BY <1>4, <3>3, <5>5, <6>1 DEF GoesOver
        <5> QED
          BY <4>1, <5>1, <5>2, <5>3, <5>4, <5>6 DEF ClassAfter
      <4>2. CASE Char(p) # r.backslash
        <5>1. next = p + 1
          BY <4>2 DEF AfterEscaped
        <5>2. ~Sh(p + 1)
          BY <1>2, <1>4, <4>2, ShieldedNext
        <5>3. In(p + 1) = ClassAfter(r, p, In(p))
          BY <1>2, <1>4, <4>2, InClassNext DEF ClassAfter
        <5>4. GoesOver(r, start, p + 1)
          <6>1. \A q \in start..(p + 1 - 1) : q \in start..(p - 1) \/ q = p
            BY <1>2
          <6> QED
            BY <1>4, <3>3, <6>1 DEF GoesOver
        <5> QED
          BY <5>1, <5>2, <5>3, <5>4
      <4> QED
        BY <4>1, <4>2
    <3> HIDE DEF next
    <3>5. Told(ends[next][In(next)], next)
      <4>1. next \in Good /\ next >= start
        <5>1. next \in Good
          BY <1>4, <3>2
        <5> HIDE DEF Good
        <5> QED
          BY <1>2, <1>4, <3>2, <5>1
      <4> HIDE DEF Told, Sh, In
      <4> QED
        BY <3>4, <4>1
    <3>6. ends[p][In(p)] = ends[next][In(next)]
      BY <3>1, <3>4
    <3>7. \A end \in next..L : end \in p..L
      BY <1>2, <3>2
    <3> QED
      BY <3>5, <3>6, <3>7
  <2> QED
    BY <2>2, <2>3, <2>4
<1>5. D \subseteq Good
  <2>1. \A p \in D : (\A q \in D : q > p => q \in Good) => p \in Good
    BY <1>4
  <2> HIDE DEF Good, D
  <2> QED
    BY <1>2, <2>1, DownInduction
<1>6. /\ regex(r, lastType) = ends[start][In(start)]
      /\ regex(r, lastType).is = "token" /\ regex(r, lastType).to = item.to
  <2>1. ~In(start) /\ In(start) \in BOOLEAN
    BY <1>2, <1>3, InClassNext
  <2>2. regex(r, lastType) # Null
    BY DEF Token, Null
  <2>3. regex(r, lastType) = ends[start][FALSE]
    BY <1>1, <2>2, Zenon DEF start
  <2>4. In(start) = FALSE
    BY <2>1, Zenon
  <2>5. regex(r, lastType).is = "token" /\ regex(r, lastType).to = item.to
    BY DEF Token
  <2> QED
    BY <2>3, <2>4, <2>5, Zenon
<1>7. Told(ends[start][In(start)], start)
  <2>1. start \in Good
    BY <1>2, <1>5
  <2>2. ~Sh(start)
    BY <1>2, ShieldedNext
  <2>3. GoesOver(r, start, start)
    <3>1. \A q : q \notin start..(start - 1)
      BY <1>2
    <3> QED
      BY <3>1 DEF GoesOver
  <2> HIDE DEF Told, Sh, In
  <2> QED
    BY <1>2, <2>1, <2>2, <2>3
<1>8. PICK end \in start..L :
        /\ EndsRegex(r, start, end) /\ GoesOver(r, start, end)
        /\ regex(r, lastType) = Whole(BehindFlags(r, end))
        /\ end < BehindFlags(r, end)
  BY <1>6, <1>7
<1>9. item.to = BehindFlags(r, end)
  BY <1>6, <1>8 DEF Spanning, Token
<1>10. end \in start..(item.to - 1)
  <2>1. end \in Nat /\ RunOf(end + 1, r.flags) \in Int
    BY <1>2, <1>8, RunIs DEF Reading
  <2>2. BehindFlags(r, end) \in Int
    BY <2>1 DEF BehindFlags
  <2> QED
    BY <1>2, <1>8, <1>9, <2>1, <2>2
<1>11. item.from + 1 = start
  BY DEF start
<1> QED
  BY <1>8, <1>9, <1>10, <1>11 DEF ClosesRegex, GoesOver, BehindFlags

LEMMA PartIs ==
  ASSUME TextOK, NEW p \in Nat, NEW q \in Nat, p <= q, q <= Len(text)
  PROVE  /\ Between(p, q) \in Seq(Chars) /\ Len(Between(p, q)) = q - p
         /\ \A i \in 1..(q - p) : Between(p, q)[i] = Char(p + i - 1)
<1>1. text \in Seq(Chars) /\ Len(text) \in Nat
  BY DEF TextOK
<1>2. Between(p, q) \in Seq(Chars) /\ Len(Between(p, q)) = q - p
  BY <1>1 DEF Between
<1>3. ASSUME NEW i \in 1..(q - p) PROVE Between(p, q)[i] = Char(p + i - 1)
  <2>1. Between(p, q)[i] = text[p + i]
    BY <1>1 DEF Between
  <2>2. p + i - 1 < Len(text) /\ p + i - 1 + 1 = p + i
    BY <1>1
  <2> QED
    BY <2>1, <2>2 DEF Char
<1> QED
  BY <1>2, <1>3

LEMMA DollarCloses ==
  ASSUME Reading, NEW r, r.dollar \in Chars, r.part \subseteq Chars, NEW item,
         dollarString(r) = Token(item.type, item.value, item.start.pos, item.end.pos, item.to),
         item.from = at.pos
  PROVE  ClosesDollar(r, item)
<1> DEFINE L == Len(text)
           tag == IF Char(at.pos + 1) \in r.start THEN 1 + RunOf(at.pos + 2, r.part) ELSE 0
           start == at.pos + tag + 2
           opener == Ahead(at.pos, tag + 2)
           end == Find(start, opener)
           Opens == Char(at.pos) = r.dollar /\ Char(at.pos + tag + 1) = r.dollar
<1>1. dollarString(r) = IF ~Opens THEN Null
                        ELSE IF end = L THEN Unterminated(start, end)
                        ELSE Token(r.type, Between(start, end), start, end, end + tag + 2)
  BY DEF dollarString
<1>2. tag \in Nat /\ at.pos \in Nat /\ L \in Nat /\ TextOK
  <2>1. RunOf(at.pos + 2, r.part) \in 0..Len(text)
    BY RunIs, ReadingAt DEF Reading
  <2> QED
    BY <2>1, ReadingAt DEF Reading
<1> HIDE DEF tag
<1>3. Opens /\ end # L
  BY <1>1 DEF Token, Null, Unterminated
<1>4. item.start.pos = start /\ item.end.pos = end /\ item.to = end + tag + 2
  BY <1>1, <1>3 DEF Token
<1>5. start \in Nat /\ start <= L
  <2>1. Char(at.pos + tag + 1) \in Chars /\ at.pos + tag + 1 \in Nat
    BY <1>2, <1>3
  <2> QED
    BY <1>2, <2>1, CharFacts
<1>6. Between(at.pos, start) = opener
  BY <1>2 DEF Between, Ahead
<1>7. /\ opener \in Seq(Chars) /\ Len(opener) = tag + 2
      /\ \A i \in 1..(tag + 2) : opener[i] = Char(at.pos + i - 1)
  <2>1. start - at.pos = tag + 2 /\ at.pos <= start
    BY <1>2
  <2> HIDE DEF start, opener
  <2>2. /\ Between(at.pos, start) \in Seq(Chars) /\ Len(Between(at.pos, start)) = start - at.pos
        /\ \A i \in 1..(start - at.pos) : Between(at.pos, start)[i] = Char(at.pos + i - 1)
    BY <1>2, <1>5, <2>1, PartIs
  <2> QED
    BY <1>6, <2>1, <2>2
<1> HIDE DEF opener
<1>8. /\ end \in start..L /\ StartsWith(end, opener)
      /\ \A i \in start..(end - 1) : ~StartsWith(i, opener)
  BY <1>2, <1>3, <1>5, FindIs
<1> HIDE DEF end, start
<1>9. end \in Nat /\ end + tag + 2 <= L
  <2>1. opener # <<>> /\ end \in Nat
    BY <1>2, <1>5, <1>7, <1>8
  <2>2. end + Len(opener) <= L
    BY <1>2, <1>7, <1>8, <2>1, StartsWithin
  <2> QED
    BY <1>2, <1>7, <2>1, <2>2
<1>10. Between(end, end + tag + 2) = opener
  <2>1. /\ Between(end, end + tag + 2) \in Seq(Chars)
        /\ Len(Between(end, end + tag + 2)) = tag + 2
        /\ \A i \in 1..(tag + 2) : Between(end, end + tag + 2)[i] = Char(end + i - 1)
    <3> DEFINE to == end + tag + 2
    <3>1. to - end = tag + 2 /\ end <= to /\ to \in Nat /\ to <= Len(text)
      BY <1>2, <1>9
    <3> HIDE DEF to
    <3>2. /\ Between(end, to) \in Seq(Chars)
          /\ Len(Between(end, to)) = tag + 2
          /\ \A i \in 1..(tag + 2) : Between(end, to)[i] = Char(end + i - 1)
      <4>1. /\ Between(end, to) \in Seq(Chars) /\ Len(Between(end, to)) = to - end
            /\ \A i \in 1..(to - end) : Between(end, to)[i] = Char(end + i - 1)
        BY <1>2, <1>9, <3>1, PartIs
      <4> QED
        BY <3>1, <4>1
    <3> QED
      BY <3>2 DEF to
  <2>2. \A i \in 1..(tag + 2) : Char(end + i - 1) = opener[i]
    BY <1>7, <1>8 DEF StartsWith
  <2> QED
    BY <1>7, <2>1, <2>2
<1>11. Len(opener) > 1 /\ opener[1] = r.dollar /\ opener[Len(opener)] = r.dollar
  <2>1. opener[1] = Char(at.pos + 1 - 1) /\ opener[tag + 2] = Char(at.pos + (tag + 2) - 1)
    BY <1>2, <1>7
  <2>2. at.pos + 1 - 1 = at.pos /\ at.pos + (tag + 2) - 1 = at.pos + tag + 1
    BY <1>2
  <2> QED
    BY <1>2, <1>3, <1>7, <2>1, <2>2
<1> QED
  BY <1>4, <1>6, <1>8, <1>10, <1>11 DEF ClosesDollar

\* What DelimitersPair asks of an item.
DelimitersOf(item) ==
  /\ \A r \in MakersOf(item, "block") : ClosesComment(r, item)
  /\ \A r \in MakersOf(item, "dollar") : ClosesDollar(r, item)
  /\ \A r \in MakersOf(item, "regex") : ClosesRegex(r, item)

DelimitersOK == \A i \in 1..Len(items) : DelimitersOf(items[i])

LEMMA BalancedStays ==
  ASSUME UNCHANGED text, NEW r, NEW p, NEW q
  PROVE  Balanced(r, p, q)' <=> Balanced(r, p, q)
BY DEF Balanced, StartsWith, Char

LEMMA DelimitersStay ==
  ASSUME UNCHANGED text, NEW item
  PROVE  DelimitersOf(item)' <=> DelimitersOf(item)
<1>1. ASSUME NEW p PROVE Char(p)' = Char(p)
  BY DEF Char
<1>2. ASSUME NEW p, NEW seq PROVE StartsWith(p, seq)' <=> StartsWith(p, seq)
  BY <1>1 DEF StartsWith
<1>3. ASSUME NEW p, NEW q PROVE Between(p, q)' = Between(p, q)
  BY DEF Between
<1>4. ASSUME NEW r PROVE ClosesComment(r, item)' <=> ClosesComment(r, item)
  BY <1>2, BalancedStays DEF ClosesComment, IsClosed
<1>5. ASSUME NEW r PROVE ClosesDollar(r, item)' <=> ClosesDollar(r, item)
  BY <1>2, <1>3 DEF ClosesDollar
<1>6. ASSUME NEW r PROVE ClosesRegex(r, item)' <=> ClosesRegex(r, item)
  BY DEF ClosesRegex, EndsRegex, InClass, Shielded, RunBefore, RunOf, Char
<1> QED
  BY <1>4, <1>5, <1>6 DEF DelimitersOf

LEMMA DelimitersAreMade ==
  ASSUME StateOK, ReadersHaveOwnTypes, TypesTell, Next,
         NEW item, IsNew(item), items' = Append(items, item)
  PROVE  DelimitersOf(item)
<1> DEFINE Made == Token(item.type, item.value, item.start.pos, item.end.pos, item.to)
<1>1. ASSUME NEW r \in MakersOf(item, "block") PROVE ClosesComment(r, item)
  <2>1. /\ Answers(r, item) /\ at.pos = item.from /\ r \in Reader /\ r.kind = "block" /\ Reading
    BY <1>1, MakerAnswers
  <2>2. r.open \in Seq(Chars) \ {<<>>} /\ r.close \in Seq(Chars) \ {<<>>}
    <3>1. r \in [kind : {"block"}, type : STRING, open : Seq(Chars) \ {<<>>},
                close : Seq(Chars) \ {<<>>}, nested : BOOLEAN]
      BY <2>1 DEF Reader, NumberReader, StringReader
    <3> QED
      BY <3>1
  <2>3. blockComment(r) = Made
    BY <2>1 DEF Answers, readBy
  <2> QED
    BY <2>1, <2>2, <2>3, CommentCloses
<1>2. ASSUME NEW r \in MakersOf(item, "dollar") PROVE ClosesDollar(r, item)
  <2>1. /\ Answers(r, item) /\ at.pos = item.from /\ r \in Reader /\ r.kind = "dollar" /\ Reading
    BY <1>2, MakerAnswers
  <2>2. r.dollar \in Chars /\ r.part \subseteq Chars
    <3>1. r \in [kind : {"dollar"}, type : STRING, dollar : Chars, start : SUBSET Chars, part : SUBSET Chars]
      BY <2>1 DEF Reader, NumberReader, StringReader
    <3> QED
      BY <3>1
  <2>3. dollarString(r) = Made
    BY <2>1 DEF Answers, readBy
  <2> QED
    BY <2>1, <2>2, <2>3, DollarCloses
<1>3. ASSUME NEW r \in MakersOf(item, "regex") PROVE ClosesRegex(r, item)
  <2>1. /\ Answers(r, item) /\ at.pos = item.from /\ IsReader(r) /\ r \in Reader /\ r.kind = "regex"
        /\ Reading
    BY <1>3, MakerAnswers
  <2>2. r.slash \in Chars /\ r.flags \subseteq Chars
    <3>1. r \in [kind : {"regex"}, type : STRING, slash : Chars, backslash : Chars, open : Chars,
                close : Chars, flags : SUBSET Chars, after : SUBSET STRING]
      BY <2>1 DEF Reader, NumberReader, StringReader
    <3> QED
      BY <3>1
  <2>3. r.backslash \notin {r.slash, r.open, r.close}
    BY <2>1 DEF IsReader
  <2>4. regex(r, LastType(lexCtx.lastToken)) = Made
    BY <2>1 DEF Answers, readBy
  <2> QED
    BY <2>1, <2>2, <2>3, <2>4, RegexCloses
<1> QED
  BY <1>1, <1>2, <1>3 DEF DelimitersOf

LEMMA DelimitersStep ==
  ASSUME StateOK, DelimitersOK, ReadersHaveOwnTypes, TypesTell, [Next]_vars
  PROVE  DelimitersOK'
<1>1. CASE UNCHANGED <<text, items>>
  BY <1>1, DelimitersStay DEF DelimitersOK
<1>2. ASSUME NEW item, IsNew(item), items' = Append(items, item), Next, UNCHANGED text
      PROVE  DelimitersOK'
  <2>1. DelimitersOf(item)
    BY <1>2, DelimitersAreMade
  <2>2. /\ Len(items) \in Nat /\ Len(items') = Len(items) + 1 /\ items'[Len(items) + 1] = item
        /\ \A i \in 1..Len(items) : items'[i] = items[i]
    BY <1>2, ItemsGrow DEF StateOK, IsNew
  <2>3. ASSUME NEW i \in 1..Len(items') PROVE DelimitersOf(items'[i])
    BY <2>1, <2>2, <2>3 DEF DelimitersOK
  <2>4. \A item_ : DelimitersOf(item_)' <=> DelimitersOf(item_)
    BY <1>2, DelimitersStay
  <2> QED
    BY <2>3, <2>4 DEF DelimitersOK
<1> QED
  BY <1>1, <1>2, StepMakes

\* lexer.ts: a comment closes where its opens and closes balance, a dollar string
\* with the tag that opened it, a regex at the first slash outside of a class: of
\* any such reader, nested or not, on any text.
THEOREM DelimitersArePaired ==
  ASSUME ReadersHaveOwnTypes, TypesTell
  PROVE  Spec => []DelimitersPair
<1>1. Init => DelimitersOK
  BY DEF Init, DelimitersOK
<1>2. StateOK /\ DelimitersOK /\ [Next]_vars => DelimitersOK'
  BY DelimitersStep
<1>3. DelimitersOK => DelimitersPair
  BY DEF DelimitersOK, DelimitersOf, DelimitersPair
<1> QED
  BY <1>1, <1>2, <1>3, StateInvariance, PTL DEF Spec

-------------------------------------------------------------------------------
(* Strings. *)

\* The quotes right before a place are counted up to a shielded one.
LEMMA QuotesNext ==
  ASSUME NEW r, r.quote \notin r.backslash, NEW start \in Nat, NEW p \in Nat, start <= p
  PROVE  /\ QuotesBefore(r, start, start) = 0
         /\ QuotesBefore(r, start, p) \in Nat
         /\ QuotesBefore(r, start, p + 1) =
              IF IsBare(r, start, p) THEN QuotesBefore(r, start, p) + 1 ELSE 0
<1> DEFINE Sh(q) == Shielded(r.backslash, start, q)
           run(q) == RunBefore(start, q, {r.quote})
           quotes(q) == QuotesBefore(r, start, q)
           n == run(p)
<1>1. \A q : quotes(q) = IF run(q) > 0 /\ Sh(q - run(q)) THEN run(q) - 1 ELSE run(q)
  BY DEF QuotesBefore
<1>2. /\ run(start) = 0
      /\ run(p + 1) = IF Char(p) \in {r.quote} THEN run(p) + 1 ELSE 0
  BY RunBeforeNext
<1>3. /\ run(p) \in 0..(p - start)
      /\ \A i \in 1..run(p) : Char(p - i) \in {r.quote}
  BY RunBeforeIs
<1>4. ASSUME run(p) > 0 PROVE ~Sh(p)
  <2>1. 1 \in 1..run(p) /\ p - 1 \in Nat /\ start <= p - 1 /\ p - 1 + 1 = p
    BY <1>3, <1>4
  <2>2. Char(p - 1) = r.quote
    BY <1>3, <2>1
  <2>3. Sh(p - 1 + 1) <=> Char(p - 1) \in r.backslash /\ ~Sh(p - 1)
    BY <2>1, ShieldedNext
  <2> QED
    BY <2>1, <2>2, <2>3
<1> HIDE DEF Sh, run, quotes
<1>5. quotes(start) = 0
  BY <1>1, <1>2
<1>6. quotes(p) \in Nat
  BY <1>1, <1>3
<1>7. quotes(p + 1) = IF Char(p) = r.quote /\ ~Sh(p) THEN quotes(p) + 1 ELSE 0
  <2>1. CASE Char(p) # r.quote
    <3>1. run(p + 1) = 0
      BY <1>2, <2>1
    <3> QED
      BY <1>1, <2>1, <3>1
  <2>2. CASE Char(p) = r.quote
    <3>1. run(p + 1) = run(p) + 1 /\ run(p + 1) > 0 /\ p + 1 - run(p + 1) = p - run(p)
      BY <1>2, <1>3, <2>2
    <3>2. quotes(p + 1) = IF Sh(p - run(p)) THEN run(p) ELSE run(p) + 1
      BY <1>1, <1>3, <3>1
    <3>3. CASE run(p) > 0
      <4>1. quotes(p) = IF Sh(p - run(p)) THEN run(p) - 1 ELSE run(p)
        BY <1>1, <3>3
      <4> QED
        BY <1>3, <1>4, <2>2, <3>2, <3>3, <4>1
    <3>4. CASE run(p) = 0
      <4>1. quotes(p) = 0 /\ p - run(p) = p
        BY <1>1, <3>4
      <4> QED
        BY <2>2, <3>2, <3>4, <4>1
    <3> QED
      BY <1>3, <3>3, <3>4
  <2> QED
    BY <2>1, <2>2
<1> QED
  BY <1>5, <1>6, <1>7 DEF IsBare, Sh, quotes

\* A place before which all that stands for something has been read.
IsRead(r, start, p) == ~Shielded(r.backslash, start, p) /\ QuotesBefore(r, start, p) % 2 = 0

\* From such a place the scan reads one character of the value, and comes to
\* another.
LEMMA StringGoesOn ==
  ASSUME TextOK, NEW r, r.quote \in Chars, r.decoded \in [Chars -> Chars], r.quote \notin r.backslash,
         NEW start \in Nat, NEW p \in start..Len(text), IsRead(r, start, p),
         ~BodyEnds(r, p), ~BodyHangs(r, p)
  PROVE  /\ IsRead(r, start, AfterRead(r, p))
         /\ \/ /\ AfterRead(r, p) = p + 1 /\ ~Halves(r, start, p)
               /\ Stands(r, start, p) /\ Meaning(r, start, p) = CharRead(r, p)
            \/ /\ AfterRead(r, p) = p + 2 /\ ~Stands(r, start, p)
               /\ Halves(r, start, p) => r.doubling /\ IsBare(r, start, p + 1)
               /\ ~Halves(r, start, p + 1)
               /\ Stands(r, start, p + 1) /\ Meaning(r, start, p + 1) = CharRead(r, p)
<1> DEFINE Sh(q) == Shielded(r.backslash, start, q)
           quotes(q) == QuotesBefore(r, start, q)
<1>1. /\ p \in Nat /\ start <= p /\ p + 1 \in Nat /\ start <= p + 1 /\ p + 1 + 1 = p + 2
      /\ ~Sh(p) /\ quotes(p) % 2 = 0
  BY CharFacts DEF IsRead
<1>2. /\ Sh(p + 1) <=> Char(p) \in r.backslash /\ ~Sh(p)
      /\ Sh(p + 2) <=> Char(p + 1) \in r.backslash /\ ~Sh(p + 1)
  <2>1. Sh(p + 1 + 1) <=> Char(p + 1) \in r.backslash /\ ~Sh(p + 1)
    BY <1>1, ShieldedNext
  <2> QED
    BY <1>1, <2>1, ShieldedNext
<1>3. /\ quotes(p) \in Nat
      /\ quotes(p + 1) = IF IsBare(r, start, p) THEN quotes(p) + 1 ELSE 0
      /\ quotes(p + 2) = IF IsBare(r, start, p + 1) THEN quotes(p + 1) + 1 ELSE 0
  <2>1. quotes(p + 1 + 1) = IF IsBare(r, start, p + 1) THEN quotes(p + 1) + 1 ELSE 0
    BY <1>1, QuotesNext
  <2> QED
    BY <1>1, <2>1, QuotesNext
<1> USE DEF Halves, Stands, Meaning, IsBare, CharRead, AfterRead, IsRead
<1>4. 0 % 2 = 0 /\ (quotes(p) + 1) % 2 = 1 /\ (quotes(p) + 1 + 1) % 2 = 0
  BY <1>1, <1>3
<1> HIDE DEF Sh, quotes
<1>5. CASE Char(p) = r.quote
  <2>1. r.doubling /\ Char(p + 1) = r.quote
    BY <1>5 DEF BodyEnds
  <2>2. ~Sh(p + 1) /\ ~Sh(p + 2)
    BY <1>2, <1>5, <2>1
  <2>3. quotes(p + 1) = quotes(p) + 1 /\ quotes(p + 2) = quotes(p) + 1 + 1
    BY <1>1, <1>3, <1>5, <2>1, <2>2 DEF Sh
  <2> QED
    BY <1>1, <1>4, <1>5, <2>1, <2>2, <2>3 DEF Sh, quotes
<1>6. CASE Char(p) # r.quote /\ Char(p) \in r.backslash
  <2>1. Sh(p + 1) /\ ~Sh(p + 2)
    BY <1>1, <1>2, <1>6
  <2>2. quotes(p + 2) = 0
    BY <1>3, <2>1 DEF Sh
  <2> QED
    BY <1>1, <1>4, <1>6, <2>1, <2>2 DEF Sh, quotes
<1>7. CASE Char(p) # r.quote /\ Char(p) \notin r.backslash
  <2>1. ~Sh(p + 1) /\ quotes(p + 1) = 0
    BY <1>2, <1>3, <1>7
  <2> QED
    BY <1>1, <1>4, <1>7, <2>1 DEF Sh, quotes
<1> QED
  BY <1>5, <1>6, <1>7

\* What ReadBack reads back from a place.
IsReadingBack(r, start, end, back) ==
  \A p \in start..end :
    back[p] = IF p = end THEN <<>>
              ELSE IF Stands(r, start, p) THEN <<Meaning(r, start, p)>> \o back[p + 1]
              ELSE back[p + 1]

LEMMA ReadBackIs ==
  ASSUME TextOK, NEW r, r.decoded \in [Chars -> Chars],
         NEW start \in Nat, NEW end \in start..Len(text)
  PROVE  \E back : ReadBack(r, start, end) = back[start] /\ IsReadingBack(r, start, end, back)
<1> DEFINE L == Len(text)
           D == start..end
           V == Seq(Chars)
           Right(f) == [p \in D |-> IF p = end THEN <<>>
                                    ELSE IF Stands(r, start, p) THEN <<Meaning(r, start, p)>> \o f[p + 1]
                                    ELSE f[p + 1]]
           turn == [f \in [D -> V] |-> Right(f)]
           back == CHOOSE f : f = Right(f)
<1>1. /\ L \in Nat /\ IsRange(D, L) /\ \A p \in D : p \in Nat /\ (p # end => p + 1 \in D /\ p < L)
      /\ end \in Nat
  BY CharFacts DEF IsRange
<1>2. V # {} /\ <<>> \in V
  <2>1. <<>> \in Seq(Chars)
    OBVIOUS
  <2> QED
    BY <2>1
<1>3. ASSUME NEW p \in D, p # end PROVE Meaning(r, start, p) \in Chars
  <2>1. Char(p) \in Chars
    BY <1>1, <1>3, CharFacts
  <2> QED
    BY <2>1 DEF Meaning
<1>4. ReadBack(r, start, end) = back[start]
  BY Zenon DEF ReadBack
<1>5. ASSUME NEW f, NEW p \in D
      PROVE  Right(f)[p] = IF p = end THEN <<>>
                           ELSE IF Stands(r, start, p) THEN <<Meaning(r, start, p)>> \o f[p + 1]
                           ELSE f[p + 1]
  BY <1>5, Zenon
<1>6. ASSUME NEW f PROVE Right(f) = [p \in D |-> Right(f)[p]]
  BY Zenon
<1> HIDE DEF Right
<1>7. \E f \in [D -> V] : f = turn[f]
  <2>1. IsStep(D, V, turn)
    <3>1. ASSUME NEW f \in [D -> V], NEW p \in D PROVE Right(f)[p] \in V
      <4>1. p # end => f[p + 1] \in V
        BY <1>1, <3>1
      <4>2. p # end => <<Meaning(r, start, p)>> \o f[p + 1] \in V
        BY <1>3, <3>1, <4>1
      <4> HIDE DEF V
      <4> QED
        BY <1>2, <1>5, <3>1, <4>1, <4>2, Zenon
    <3> QED
      BY <1>6, <3>1 DEF IsStep
  <2>2. LooksAhead(D, V, turn)
    <3>1. ASSUME NEW f \in [D -> V], NEW g \in [D -> V], NEW p \in D,
                 \A q \in D : q > p => f[q] = g[q]
          PROVE  turn[f][p] = turn[g][p]
      <4>1. p # end => f[p + 1] = g[p + 1]
        BY <1>1, <3>1
      <4>2. Right(f)[p] = Right(g)[p]
        BY <1>5, <3>1, <4>1, Zenon
      <4> QED
        BY <3>1, <4>2
    <3> QED
      BY <3>1 DEF LooksAhead
  <2> HIDE DEF L, D, V, turn
  <2> QED
    BY <1>1, <1>2, <2>1, <2>2, Downward
<1>8. back = Right(back)
  <2>1. \E f : f = Right(f)
    BY <1>7
  <2> QED
    BY <2>1, Zenon
<1> HIDE DEF back
<1>9. ASSUME NEW p \in D
      PROVE  back[p] = IF p = end THEN <<>>
                       ELSE IF Stands(r, start, p) THEN <<Meaning(r, start, p)>> \o back[p + 1]
                       ELSE back[p + 1]
  BY <1>5, <1>8, <1>9, Zenon
<1> QED
  BY <1>4, <1>9 DEF IsReadingBack

\* A string of this kind ends here.
EndsBody(r, start, end) ==
  /\ ~Shielded(r.backslash, start, end)
  /\ end = Len(text) \/ (IsBare(r, start, end) /\ ~(r.doubling /\ Char(end + 1) = r.quote))

\* Every quote from a place on is one of a pair.
ArePaired(r, start, p, end) ==
  \A q \in p..(end - 1) :
    Halves(r, start, q) => r.doubling /\ q + 1 < end /\ IsBare(r, start, q + 1)

LEMMA BodyReads ==
  ASSUME TextOK, NEW r, r.quote \in Chars, r.decoded \in [Chars -> Chars], r.quote \notin r.backslash,
         NEW body, IsBodyScan(r, body), NEW start \in 0..Len(text), ~body[start].open
  PROVE  /\ EndsBody(r, start, body[start].end) /\ ArePaired(r, start, start, body[start].end)
         /\ body[start].value = ReadBack(r, start, body[start].end)
<1> DEFINE L == Len(text)
           D == start..L
           end == body[start].end
           Scanned(p) == IsRead(r, start, p) /\ ~body[p].open /\ body[p].end = end
<1>1. /\ L \in Nat /\ start \in Nat /\ start \in D /\ end \in start..L /\ end \in Nat
      /\ \A p \in D : p \in Nat /\ p \in 0..L
  <2>1. L \in Nat
    BY CharFacts
  <2>2. body[start] \in [value : Seq(Chars), end : start..L, open : BOOLEAN]
    BY DEF IsBodyScan
  <2>3. end \in start..L
    BY <2>2
  <2> HIDE DEF end
  <2> QED
    BY <2>1, <2>3
<1>2. IsRange(D, L)
  BY <1>1 DEF IsRange
<1>3. PICK back : ReadBack(r, start, end) = back[start] /\ IsReadingBack(r, start, end, back)
  BY <1>1, ReadBackIs
<1> HIDE DEF end
<1> DEFINE Good == {p \in D : Scanned(p) => /\ p <= end
                                            /\ EndsBody(r, start, end)
                                            /\ ArePaired(r, start, p, end)
                                            /\ back[p] = body[p].value}
<1>4. ASSUME NEW p \in D, \A q \in D : q > p => q \in Good, Scanned(p)
      PROVE  /\ p <= end /\ EndsBody(r, start, end) /\ ArePaired(r, start, p, end)
             /\ back[p] = body[p].value
  <2>1. /\ body[p] \in [value : Seq(Chars), end : p..L, open : BOOLEAN]
        /\ body[p] = IF BodyEnds(r, p) THEN [value |-> <<>>, end |-> p, open |-> FALSE]
                     ELSE IF BodyHangs(r, p) THEN [value |-> <<>>, end |-> p + 1, open |-> TRUE]
                     ELSE Prefixed(CharRead(r, p), body[AfterRead(r, p)])
    BY <1>1, <1>4 DEF IsBodyScan
  <2>2. p <= end /\ p \in start..end /\ p \in Nat
    <3>1. body[p].end \in p..L
      BY <2>1
    <3> QED
      BY <1>1, <1>4, <3>1
  <2>3. back[p] = IF p = end THEN <<>>
                  ELSE IF Stands(r, start, p) THEN <<Meaning(r, start, p)>> \o back[p + 1]
                  ELSE back[p + 1]
    BY <1>3, <2>2 DEF IsReadingBack
  <2>4. CASE BodyEnds(r, p)
    <3>1. body[p] = [value |-> <<>>, end |-> p, open |-> FALSE]
      BY <2>1, <2>4
    <3>2. body[p].end = p /\ body[p].value = <<>>
      BY <3>1
    <3>3. end = p
      BY <1>4, <3>2
    <3>4. EndsBody(r, start, end)
      BY <1>4, <2>4, <3>3 DEF EndsBody, BodyEnds, IsRead, IsBare
    <3>5. ArePaired(r, start, p, end)
      BY <1>1, <3>3 DEF ArePaired
    <3> QED
      BY <2>2, <2>3, <3>2, <3>3, <3>4, <3>5
  <2>5. CASE ~BodyEnds(r, p) /\ BodyHangs(r, p)
    BY <1>4, <2>1, <2>5
  <2>6. CASE ~BodyEnds(r, p) /\ ~BodyHangs(r, p)
    <3> DEFINE next == AfterRead(r, p)
               char == CharRead(r, p)
    <3>1. next \in (p + 1)..L /\ char \in Chars
      BY <1>1, <1>4, <2>6, CharIsRead
    <3>2. /\ IsRead(r, start, next)
          /\ \/ /\ next = p + 1 /\ ~Halves(r, start, p)
                /\ Stands(r, start, p) /\ Meaning(r, start, p) = char
             \/ /\ next = p + 2 /\ ~Stands(r, start, p)
                /\ Halves(r, start, p) => r.doubling /\ IsBare(r, start, p + 1)
                /\ ~Halves(r, start, p + 1)
                /\ Stands(r, start, p + 1) /\ Meaning(r, start, p + 1) = char
      BY <1>1, <1>4, <2>6, StringGoesOn
    <3>3. body[p] = Prefixed(char, body[next])
      BY <2>1, <2>6
    <3> HIDE DEF next, char
    <3>4. next \in D /\ next > p /\ next \in 0..L
      BY <1>1, <1>4, <3>1
    <3>5. body[next] \in [value : Seq(Chars), end : next..L, open : BOOLEAN]
      BY <3>4 DEF IsBodyScan
    <3>6. /\ body[p].value = <<char>> \o body[next].value
          /\ body[p].end = body[next].end /\ body[p].open = body[next].open
      BY <3>3, <3>5 DEF Prefixed
    <3>7. /\ next <= end /\ EndsBody(r, start, end) /\ ArePaired(r, start, next, end)
          /\ back[next] = body[next].value
      <4>1. Scanned(next)
        BY <1>4, <3>2, <3>6
      <4>2. next \in Good
        BY <1>4, <3>4
      <4> QED
        BY <4>1, <4>2
    <3>8. CASE next = p + 1 /\ ~Halves(r, start, p)
               /\ Stands(r, start, p) /\ Meaning(r, start, p) = char
      <4>1. p # end
        BY <1>1, <2>2, <3>7, <3>8
      <4>2. back[p] = body[p].value
        BY <2>3, <3>6, <3>7, <3>8, <4>1
      <4>3. ArePaired(r, start, p, end)
        <5>1. ASSUME NEW q \in p..(end - 1), Halves(r, start, q) PROVE q \in next..(end - 1)
          BY <1>1, <2>2, <3>8, <5>1
        <5> QED
          BY <3>7, <5>1 DEF ArePaired
      <4> QED
        BY <2>2, <3>7, <4>2, <4>3
    <3>9. CASE /\ next = p + 2 /\ ~Stands(r, start, p)
               /\ Halves(r, start, p) => r.doubling /\ IsBare(r, start, p + 1)
               /\ ~Halves(r, start, p + 1)
               /\ Stands(r, start, p + 1) /\ Meaning(r, start, p + 1) = char
      <4>1. p # end /\ p + 1 # end /\ p + 1 \in start..end /\ p + 1 < end /\ p + 1 + 1 = next
        BY <1>1, <2>2, <3>7, <3>9
      <4>2. back[p + 1] = <<char>> \o back[next]
        BY <1>3, <3>9, <4>1 DEF IsReadingBack
      <4>3. back[p] = body[p].value
        BY <2>3, <3>6, <3>7, <3>9, <4>1, <4>2
      <4>4. ArePaired(r, start, p, end)
        <5>1. ASSUME NEW q \in p..(end - 1), Halves(r, start, q), q # p PROVE q \in next..(end - 1)
          <6>1. q # p + 1
            BY <3>9, <5>1
          <6> QED
            BY <1>1, <2>2, <3>9, <5>1, <6>1
        <5>2. Halves(r, start, p) => r.doubling /\ p + 1 < end /\ IsBare(r, start, p + 1)
          BY <3>9, <4>1
        <5> QED
          BY <3>7, <5>1, <5>2, Zenon DEF ArePaired
      <4> QED
        BY <2>2, <3>7, <4>3, <4>4
    <3> QED
      BY <3>2, <3>8, <3>9
  <2> QED
    BY <2>4, <2>5, <2>6
<1>5. D \subseteq Good
  <2>1. \A p \in D : (\A q \in D : q > p => q \in Good) => p \in Good
    BY <1>4
  <2> HIDE DEF Good, D
  <2> QED
    BY <1>2, <2>1, DownInduction
<1>6. Scanned(start)
  <2>1. ~Shielded(r.backslash, start, start) /\ QuotesBefore(r, start, start) = 0
    BY <1>1, ShieldedNext, QuotesNext
  <2>2. 0 % 2 = 0
    OBVIOUS
  <2> QED
    BY <2>1, <2>2 DEF IsRead, end
<1>7. /\ EndsBody(r, start, end) /\ ArePaired(r, start, start, end)
      /\ back[start] = body[start].value
  BY <1>1, <1>5, <1>6
<1> QED
  BY <1>3, <1>7 DEF end

\* A sequence that the text starts with is the text there.
LEMMA SequenceThere ==
  ASSUME TextOK, NEW p \in Nat, NEW seq \in Seq(Chars), seq # <<>>, StartsWith(p, seq)
  PROVE  Between(p, p + Len(seq)) = seq
<1> DEFINE to == p + Len(seq)
<1>1. Len(seq) \in Nat /\ to \in Nat /\ p <= to /\ to - p = Len(seq) /\ to <= Len(text)
  <2>1. Len(seq) \in Nat
    OBVIOUS
  <2> QED
    BY <2>1, StartsWithin
<1> HIDE DEF to
<1>2. /\ Between(p, to) \in Seq(Chars) /\ Len(Between(p, to)) = Len(seq)
      /\ \A i \in 1..Len(seq) : Between(p, to)[i] = Char(p + i - 1)
  BY <1>1, PartIs
<1>3. \A i \in 1..Len(seq) : Char(p + i - 1) = seq[i]
  BY DEF StartsWith
<1>4. Between(p, to) = seq
  BY <1>2, <1>3
<1> QED
  BY <1>4 DEF to

LEMMA StringReads ==
  ASSUME Reading, NEW r, r \in StringReader, r.quote \notin r.backslash, r.fence # <<>> => r.blockType # r.type,
         NEW item, item.type = r.type, item.from = at.pos,
         string(r) = Token(item.type, item.value, item.start.pos, item.end.pos, item.to)
  PROVE  ReadsBack(r, item)
<1> DEFINE opening == Append(r.prefix, r.quote)
           start == at.pos + Len(opening)
           body == bodyOf(r, start)
<1>1. string(r) = IF ~StartsWith(at.pos, opening) THEN Null
                  ELSE IF r.fence # <<>> /\ StartsWith(start, Tail(r.fence))
                  THEN readBlock(r, start)
                  ELSE IF body.open THEN Unterminated(start, body.end)
                  ELSE Token(r.type, body.value, start, body.end, body.end + 1)
  BY DEF string
<1>2. /\ r.prefix \in Seq(Chars) /\ r.quote \in Chars /\ r.decoded \in [Chars -> Chars]
      /\ opening \in Seq(Chars) /\ opening # <<>> /\ TextOK /\ at.pos \in Nat
  <2>1. r.prefix \in Seq(Chars) /\ r.quote \in Chars /\ r.decoded \in [Chars -> Chars]
    BY StringOptions
  <2>2. opening \in Seq(Chars) /\ opening # <<>>
    BY <2>1
  <2> QED
    BY <2>1, <2>2, ReadingAt DEF Reading
<1>3. string(r).is = "token" /\ string(r).type = r.type
  BY DEF Token
<1> HIDE DEF opening
<1>4. StartsWith(at.pos, opening)
  BY <1>1, <1>3 DEF Null
<1>5. ~(r.fence # <<>> /\ StartsWith(start, Tail(r.fence)))
  <2> SUFFICES ASSUME r.fence # <<>>, StartsWith(start, Tail(r.fence)) PROVE FALSE
    OBVIOUS
  <2>1. string(r) = readBlock(r, start)
    BY <1>1, <1>4
  <2>2. \/ readBlock(r, start).is = "croak"
        \/ readBlock(r, start).type = r.blockType
    BY DEF readBlock, Unterminated, Token
  <2>3. readBlock(r, start).is # "croak" /\ readBlock(r, start).type = r.type
    BY <1>3, <2>1
  <2> QED
    BY <2>2, <2>3
<1>6. start \in 0..Len(text) /\ start \in Nat /\ Between(at.pos, start) = opening
  <2>1. start <= Len(text) /\ Len(opening) \in Nat /\ Between(at.pos, start) = opening
    BY <1>2, <1>4, StartsWithin, SequenceThere
  <2> QED
    BY <1>2, <2>1, ReadingAt
<1> HIDE DEF start
<1>7. PICK scan : bodyOf(r, start) = scan[start] /\ IsBodyScan(r, scan)
  BY <1>2, <1>6, BodyScan
<1>8. ~body.open /\ string(r) = Token(r.type, body.value, start, body.end, body.end + 1)
  BY <1>1, <1>3, <1>4, <1>5 DEF Unterminated
<1>9. /\ item.start.pos = start /\ item.end.pos = body.end /\ item.to = body.end + 1
      /\ item.value = body.value
  <2> HIDE DEF body
  <2> QED
    BY <1>8 DEF Token
<1>10. /\ EndsBody(r, start, body.end) /\ ArePaired(r, start, start, body.end)
       /\ body.value = ReadBack(r, start, body.end)
  BY <1>2, <1>6, <1>7, <1>8, BodyReads
<1> HIDE DEF body
<1>11. /\ Between(item.from, start) = Append(r.prefix, r.quote)
       /\ item.to = body.end + 1
       /\ ~Shielded(r.backslash, start, body.end)
       /\ \/ body.end = Len(text)
          \/ IsBare(r, start, body.end) /\ ~(r.doubling /\ Char(body.end + 1) = r.quote)
       /\ \A p \in start..(body.end - 1) :
            Halves(r, start, p) => r.doubling /\ p + 1 < body.end /\ IsBare(r, start, p + 1)
       /\ item.value = ReadBack(r, start, body.end)
  BY <1>6, <1>9, <1>10, Zenon DEF EndsBody, ArePaired, opening
<1> QED
  BY <1>9, <1>11, Zenon DEF ReadsBack

\* The client is free to choose types; that of a block string tells it from a
\* quoted one.
BlocksTell ==
  \A r \in AllReaders : r.kind = "string" /\ r.fence # <<>> => r.blockType # r.type

\* What StringsReadBack asks of an item.
StringOK(item) == \A r \in MakersOf(item, "string") : ReadsBack(r, item)

StringsOK == \A i \in 1..Len(items) : StringOK(items[i])

LEMMA StringStays ==
  ASSUME UNCHANGED text, NEW item
  PROVE  StringOK(item)' <=> StringOK(item)
<1>1. ASSUME NEW p PROVE Char(p)' = Char(p)
  BY DEF Char
<1>2. ASSUME NEW p, NEW q PROVE Between(p, q)' = Between(p, q)
  BY DEF Between
<1>3. ASSUME NEW start, NEW p, NEW class PROVE RunBefore(start, p, class)' = RunBefore(start, p, class)
  BY <1>1 DEF RunBefore
<1>4. ASSUME NEW class, NEW start, NEW p PROVE Shielded(class, start, p)' <=> Shielded(class, start, p)
  BY <1>3 DEF Shielded
<1>5. ASSUME NEW r, NEW start, NEW p PROVE QuotesBefore(r, start, p)' = QuotesBefore(r, start, p)
  BY <1>3, <1>4 DEF QuotesBefore
<1>6. ASSUME NEW r, NEW start, NEW p
      PROVE  /\ IsBare(r, start, p)' <=> IsBare(r, start, p)
             /\ Halves(r, start, p)' <=> Halves(r, start, p)
  BY <1>1, <1>4, <1>5 DEF IsBare, Halves
<1>7. ASSUME NEW r, NEW start, NEW end PROVE ReadBack(r, start, end)' = ReadBack(r, start, end)
  BY DEF ReadBack, Stands, Meaning, Halves, IsBare, QuotesBefore, Shielded, RunBefore, Char
<1>8. ASSUME NEW r PROVE ReadsBack(r, item)' <=> ReadsBack(r, item)
  BY <1>1, <1>2, <1>4, <1>6, <1>7 DEF ReadsBack
<1> QED
  BY <1>8 DEF StringOK

LEMMA StringIsMade ==
  ASSUME StateOK, ReadersHaveOwnTypes, TypesTell, BlocksTell, Next,
         NEW item, IsNew(item), items' = Append(items, item)
  PROVE  StringOK(item)
<1> SUFFICES ASSUME NEW r \in MakersOf(item, "string") PROVE ReadsBack(r, item)
  BY DEF StringOK
<1>1. /\ Answers(r, item) /\ at.pos = item.from /\ IsReader(r) /\ r \in Reader /\ r.kind = "string"
      /\ Reading
  BY MakerAnswers
<1>2. r \in AllReaders /\ item.type = r.type
  <2>1. lexCtx.mode \in Modes /\ item.mode = lexCtx.mode
    BY DEF StateOK, ContextOK, IsNew
  <2> QED
    BY <2>1 DEF MakersOf, ReadersOf, AllReaders
<1>3. r \in StringReader /\ r.quote \notin r.backslash /\ (r.fence # <<>> => r.blockType # r.type)
  BY <1>1, <1>2, ReaderOptions DEF IsReader, BlocksTell
<1>4. string(r) = Token(item.type, item.value, item.start.pos, item.end.pos, item.to)
  BY <1>1 DEF Answers, readBy
<1> QED
  BY <1>1, <1>2, <1>3, <1>4, StringReads

LEMMA StringStep ==
  ASSUME StateOK, StringsOK, ReadersHaveOwnTypes, TypesTell, BlocksTell, [Next]_vars
  PROVE  StringsOK'
<1>1. CASE UNCHANGED <<text, items>>
  BY <1>1, StringStays DEF StringsOK
<1>2. ASSUME NEW item, IsNew(item), items' = Append(items, item), Next, UNCHANGED text
      PROVE  StringsOK'
  <2>1. StringOK(item)
    BY <1>2, StringIsMade
  <2>2. /\ Len(items) \in Nat /\ Len(items') = Len(items) + 1 /\ items'[Len(items) + 1] = item
        /\ \A i \in 1..Len(items) : items'[i] = items[i]
    BY <1>2, ItemsGrow DEF StateOK, IsNew
  <2>3. ASSUME NEW i \in 1..Len(items') PROVE StringOK(items'[i])
    BY <2>1, <2>2, <2>3 DEF StringsOK
  <2>4. \A item_ : StringOK(item_)' <=> StringOK(item_)
    BY <1>2, StringStays
  <2> QED
    BY <2>3, <2>4 DEF StringsOK
<1> QED
  BY <1>1, <1>2, StepMakes

\* lexer.ts: readEscaped takes one character of the value at a time; the token
\* is what each place of the text says on its own, with backslashes and doubled
\* quotes in any number and order: of any string reader, on any text.
THEOREM StringsAreRead ==
  ASSUME ReadersHaveOwnTypes, TypesTell, BlocksTell
  PROVE  Spec => []StringsReadBack
<1>1. Init => StringsOK
  BY DEF Init, StringsOK
<1>2. StateOK /\ StringsOK /\ [Next]_vars => StringsOK'
  BY StringStep
<1>3. StringsOK => StringsReadBack
  BY DEF StringsOK, StringOK, StringsReadBack
<1> QED
  BY <1>1, <1>2, <1>3, StateInvariance, PTL DEF Spec

-------------------------------------------------------------------------------
(* A value read in parts. *)

LEMMA AppendConcat ==
  ASSUME NEW x \in Seq(Chars), NEW y \in Seq(Chars), NEW c \in Chars
  PROVE  Append(x \o y, c) = x \o Append(y, c)
<1> DEFINE l == Len(x)
           m == Len(y)
           left == Append(x \o y, c)
           right == x \o Append(y, c)
<1>1. l \in Nat /\ m \in Nat
  OBVIOUS
<1>2. /\ left \in Seq(Chars) /\ Len(left) = l + m + 1
      /\ \A i \in 1..l : left[i] = x[i]
      /\ \A i \in 1..m : left[l + i] = y[i]
      /\ left[l + m + 1] = c
  OBVIOUS
<1>3. /\ Append(y, c) \in Seq(Chars) /\ Len(Append(y, c)) = m + 1
      /\ \A i \in 1..m : Append(y, c)[i] = y[i]
      /\ Append(y, c)[m + 1] = c
  OBVIOUS
<1>4. /\ right \in Seq(Chars) /\ Len(right) = l + (m + 1)
      /\ \A i \in 1..l : right[i] = x[i]
      /\ \A i \in 1..(m + 1) : right[l + i] = Append(y, c)[i]
  BY <1>3
<1> HIDE DEF left, right, l, m
<1>5. ASSUME NEW i \in 1..(l + m + 1) PROVE left[i] = right[i]
  <2>1. CASE i <= l
    BY <1>1, <1>2, <1>4, <2>1
  <2>2. CASE i > l /\ i <= l + m
    <3>1. i - l \in 1..m /\ l + (i - l) = i /\ i - l \in 1..(m + 1)
      BY <1>1, <2>2
    <3> QED
      BY <1>2, <1>3, <1>4, <3>1
  <2>3. CASE i = l + m + 1
    <3>1. m + 1 \in 1..(m + 1) /\ l + (m + 1) = i
      BY <1>1, <2>3
    <3> QED
      BY <1>2, <1>3, <1>4, <2>3, <3>1
  <2> QED
    BY <1>1, <2>1, <2>2, <2>3
<1>6. Len(left) = Len(right) /\ Len(left) = l + m + 1
  BY <1>1, <1>2, <1>4
<1>7. left = right
  BY <1>2, <1>4, <1>5, <1>6
<1> QED
  BY <1>7 DEF left, right

Kept(value, class, kept) ==
  /\ kept[0] = <<>>
  /\ \A n \in 0..Len(value) : kept[n] \in Seq(Chars)
  /\ \A n \in 1..Len(value) :
       kept[n] = IF value[n] \in class THEN kept[n - 1] ELSE Append(kept[n - 1], value[n])

LEMMA KeptIs ==
  ASSUME NEW value \in Seq(Chars), NEW class, NEW kept, IsKept(value, class, kept)
  PROVE  Kept(value, class, kept)
<1>1. 0 \in 0..Len(value) /\ \A n \in 1..Len(value) : n \in 0..Len(value) /\ n # 0
  OBVIOUS
<1> QED
  BY <1>1, Zenon DEF IsKept, Kept

\* Separators are dropped from each part of a value on its own.
LEMMA WithoutConcat ==
  ASSUME NEW x \in Seq(Chars), NEW y \in Seq(Chars), NEW class
  PROVE  Without(x \o y, class) = Without(x, class) \o Without(y, class)
<1> DEFINE z == x \o y
           l == Len(x)
           m == Len(y)
<1>1. /\ z \in Seq(Chars) /\ l \in Nat /\ m \in Nat /\ Len(z) = l + m
      /\ \A n \in 1..l : z[n] = x[n]
      /\ \A n \in 1..m : z[l + n] = y[n]
  OBVIOUS
<1> HIDE DEF z
<1>2. PICK kx : Without(x, class) = kx[l] /\ Kept(x, class, kx)
  BY WithoutScan, KeptIs
<1>3. PICK ky : Without(y, class) = ky[m] /\ Kept(y, class, ky)
  BY WithoutScan, KeptIs
<1>4. PICK kz : Without(z, class) = kz[Len(z)] /\ Kept(z, class, kz)
  BY <1>1, WithoutScan, KeptIs
<1>5. /\ kx[0] = <<>> /\ ky[0] = <<>> /\ kz[0] = <<>>
      /\ \A n \in 0..l : kx[n] \in Seq(Chars)
      /\ \A n \in 0..m : ky[n] \in Seq(Chars)
  BY <1>1, <1>2, <1>3, <1>4 DEF Kept
<1>6. \A n \in 1..l : kx[n] = IF x[n] \in class THEN kx[n - 1] ELSE Append(kx[n - 1], x[n])
  BY <1>2 DEF Kept
<1>7. \A n \in 1..m : ky[n] = IF y[n] \in class THEN ky[n - 1] ELSE Append(ky[n - 1], y[n])
  BY <1>3 DEF Kept
<1>8. \A n \in 1..(l + m) : kz[n] = IF z[n] \in class THEN kz[n - 1] ELSE Append(kz[n - 1], z[n])
  <2>1. \A n \in 1..Len(z) : kz[n] = IF z[n] \in class THEN kz[n - 1] ELSE Append(kz[n - 1], z[n])
    BY <1>4 DEF Kept
  <2> QED
    BY <1>1, <2>1
<1> HIDE DEF l, m
<1> DEFINE D == 0..l
           Same == {n \in D : kz[n] = kx[n]}
<1>9. ASSUME NEW n \in D, \A k \in D : k < n => k \in Same PROVE n \in Same
  <2>1. n \in 0..(l + m) /\ n \in Nat
    BY <1>1
  <2>2. CASE n = 0
    BY <1>5, <1>9, <2>1, <2>2
  <2>3. CASE n # 0
    <3>1. kz[n - 1] = kx[n - 1] /\ z[n] = x[n]
      BY <1>1, <1>9, <2>3
    <3>2. n \in 1..l /\ n \in 1..(l + m)
      BY <1>1, <2>1, <2>3
    <3> QED
      BY <1>6, <1>8, <1>9, <3>1, <3>2
  <2> QED
    BY <2>2, <2>3
<1>10. D \subseteq Same
  <2>1. IsRange(D, l)
    BY <1>1 DEF IsRange
  <2>2. \A n \in D : (\A k \in D : k < n => k \in Same) => n \in Same
    BY <1>9
  <2> HIDE DEF D, Same
  <2> QED
    BY <2>1, <2>2, UpInduction
<1>11. kz[l] = kx[l] /\ kx[l] \in Seq(Chars)
  BY <1>1, <1>5, <1>10
<1> DEFINE E == 0..m
           Joined == {n \in E : kz[l + n] = kx[l] \o ky[n]}
<1>12. ASSUME NEW n \in E, \A k \in E : k < n => k \in Joined PROVE n \in Joined
  <2>1. n \in 0..m /\ n \in Nat /\ l + n \in 0..(l + m) /\ l + n \in Nat
    BY <1>1
  <2>2. CASE n = 0
    <3>1. ky[n] = <<>> /\ l + n = l
      BY <1>1, <1>5, <2>1, <2>2
    <3>2. kx[l] \o <<>> = kx[l]
      BY <1>11
    <3> QED
      BY <1>11, <1>12, <3>1, <3>2
  <2>3. CASE n # 0
    <3> DEFINE k == l + n
    <3>1. n - 1 \in E /\ n - 1 < n /\ k - 1 = l + (n - 1) /\ k \in 1..(l + m)
      BY <1>1, <2>1, <2>3
    <3>2. z[k] = y[n]
      BY <1>1, <2>1, <2>3
    <3>3. kz[k - 1] = kx[l] \o ky[n - 1]
      <4>1. kz[l + (n - 1)] = kx[l] \o ky[n - 1]
        BY <1>12, <3>1
      <4> HIDE DEF k
      <4> QED
        BY <3>1, <4>1, Zenon
    <3>4. kz[k] = kx[l] \o ky[n] => n \in Joined
      BY <1>12
    <3> HIDE DEF k
    <3>5. kz[k] = IF y[n] \in class THEN kz[k - 1] ELSE Append(kz[k - 1], y[n])
      BY <1>8, <3>1, <3>2
    <3>6. ky[n] = IF y[n] \in class THEN ky[n - 1] ELSE Append(ky[n - 1], y[n])
      <4>1. n \in 1..m
        BY <2>1, <2>3
      <4> QED
        BY <1>7, <4>1
    <3>7. Append(kx[l] \o ky[n - 1], y[n]) = kx[l] \o Append(ky[n - 1], y[n])
      <4>1. ky[n - 1] \in Seq(Chars)
        BY <1>5, <3>1
      <4>2. y[n] \in Chars
        BY <2>1, <2>3 DEF m
      <4> DEFINE one == kx[l]
                 two == ky[n - 1]
                 c == y[n]
      <4>3. one \in Seq(Chars) /\ two \in Seq(Chars) /\ c \in Chars
        BY <1>11, <4>1, <4>2
      <4> HIDE DEF one, two, c
      <4>4. Append(one \o two, c) = one \o Append(two, c)
        BY <4>3, AppendConcat
      <4> QED
        BY <4>4 DEF one, two, c
    <3> HIDE DEF Joined
    <3> QED
      BY <3>3, <3>4, <3>5, <3>6, <3>7, Zenon
  <2> QED
    BY <2>2, <2>3
<1>13. E \subseteq Joined
  <2>1. IsRange(E, m)
    BY <1>1 DEF IsRange
  <2>2. \A n \in E : (\A k \in E : k < n => k \in Joined) => n \in Joined
    BY <1>12
  <2> HIDE DEF E, Joined
  <2> QED
    BY <2>1, <2>2, UpInduction
<1>14. kz[l + m] = kx[l] \o ky[m]
  <2>1. m \in E
    BY <1>1
  <2>2. m \in Joined
    BY <1>13, <2>1, Zenon
  <2> QED
    BY <2>2
<1> QED
  BY <1>1, <1>2, <1>3, <1>4, <1>14 DEF z

\* What has no separators stays as it is.
LEMMA WithoutNone ==
  ASSUME NEW value \in Seq(Chars), NEW class, \A i \in 1..Len(value) : value[i] \notin class
  PROVE  Without(value, class) = value
<1> DEFINE L == Len(value)
           D == 0..L
           IsBeginning(s, n) == s \in Seq(Chars) /\ Len(s) = n /\ \A i \in 1..n : s[i] = value[i]
<1>1. L \in Nat /\ \A i \in 1..L : value[i] \in Chars /\ value[i] \notin class
  OBVIOUS
<1>2. PICK kept : Without(value, class) = kept[L] /\ Kept(value, class, kept)
  BY WithoutScan, KeptIs
<1>3. /\ kept[0] = <<>> /\ \A n \in D : kept[n] \in Seq(Chars)
      /\ \A n \in 1..L : kept[n] = Append(kept[n - 1], value[n])
  BY <1>1, <1>2 DEF Kept
<1> DEFINE Same == {n \in D : IsBeginning(kept[n], n)}
<1> HIDE DEF L
<1>4. ASSUME NEW n \in D, \A k \in D : k < n => k \in Same PROVE n \in Same
  <2>1. CASE n = 0
    BY <1>3, <1>4, <2>1
  <2>2. CASE n # 0
    <3> DEFINE s == kept[n - 1]
               c == value[n]
    <3>1. n \in Nat /\ n - 1 \in D /\ n - 1 < n /\ n \in 1..L
      BY <1>1, <1>4, <2>2
    <3>2. s \in Seq(Chars) /\ Len(s) = n - 1 /\ \A i \in 1..(n - 1) : s[i] = value[i]
      BY <1>4, <3>1
    <3>3. kept[n] = Append(s, c) /\ c \in Chars
      BY <1>1, <1>3, <3>1
    <3> HIDE DEF s
    <3>4. Append(s, c) \in Seq(Chars) /\ Len(Append(s, c)) = n
      BY <3>1, <3>2, <3>3
    <3>5. ASSUME NEW i \in 1..n PROVE Append(s, c)[i] = value[i]
      BY <3>1, <3>2, <3>3
    <3> QED
      BY <1>4, <3>3, <3>4, <3>5
  <2> QED
    BY <2>1, <2>2
<1>5. D \subseteq Same
  <2>1. IsRange(D, L)
    BY <1>1 DEF IsRange
  <2>2. \A n \in D : (\A k \in D : k < n => k \in Same) => n \in Same
    BY <1>4
  <2> HIDE DEF D, Same
  <2> QED
    BY <2>1, <2>2, UpInduction
<1>6. IsBeginning(kept[L], L)
  BY <1>1, <1>5
<1> QED
  BY <1>2, <1>6 DEF L

LEMMA PartsJoin ==
  ASSUME TextOK, NEW p \in Nat, NEW q \in Nat, NEW to \in Nat, p <= q, q <= to, to <= Len(text)
  PROVE  Between(p, to) = Between(p, q) \o Between(q, to)
<1>1. Len(text) \in Nat /\ p <= to /\ q <= Len(text)
  BY CharFacts
<1>2. /\ Between(p, q) \in Seq(Chars) /\ Len(Between(p, q)) = q - p
      /\ \A i \in 1..(q - p) : Between(p, q)[i] = Char(p + i - 1)
  BY <1>1, PartIs
<1>3. /\ Between(q, to) \in Seq(Chars) /\ Len(Between(q, to)) = to - q
      /\ \A i \in 1..(to - q) : Between(q, to)[i] = Char(q + i - 1)
  BY <1>1, PartIs
<1>4. /\ Between(p, to) \in Seq(Chars) /\ Len(Between(p, to)) = to - p
      /\ \A i \in 1..(to - p) : Between(p, to)[i] = Char(p + i - 1)
  BY <1>1, PartIs
<1> DEFINE joined == Between(p, q) \o Between(q, to)
<1>5. /\ joined \in Seq(Chars) /\ Len(joined) = (q - p) + (to - q)
      /\ \A i \in 1..(q - p) : joined[i] = Between(p, q)[i]
      /\ \A i \in ((q - p) + 1)..((q - p) + (to - q)) : joined[i] = Between(q, to)[i - (q - p)]
  <2> DEFINE one == Between(p, q)
             two == Between(q, to)
  <2>1. one \in Seq(Chars) /\ Len(one) = q - p /\ two \in Seq(Chars) /\ Len(two) = to - q
    BY <1>2, <1>3
  <2> HIDE DEF one, two
  <2>2. /\ one \o two \in Seq(Chars) /\ Len(one \o two) = (q - p) + (to - q)
        /\ \A i \in 1..(q - p) : (one \o two)[i] = one[i]
        /\ \A i \in ((q - p) + 1)..((q - p) + (to - q)) : (one \o two)[i] = two[i - (q - p)]
    BY <2>1
  <2> QED
    BY <2>2 DEF one, two
<1> HIDE DEF joined
<1>6. ASSUME NEW i \in 1..(to - p) PROVE joined[i] = Char(p + i - 1)
  <2>1. CASE i <= q - p
    BY <1>2, <1>5, <2>1
  <2>2. CASE i > q - p
    <3>1. i \in ((q - p) + 1)..((q - p) + (to - q)) /\ i - (q - p) \in 1..(to - q)
      BY <2>2
    <3>2. q + (i - (q - p)) - 1 = p + i - 1
      OBVIOUS
    <3>3. Between(q, to)[i - (q - p)] = Char(q + (i - (q - p)) - 1)
      BY <1>3, <3>1, Zenon
    <3> QED
      BY <1>5, <3>1, <3>2, <3>3
  <2> QED
    BY <2>1, <2>2
<1>7. Len(joined) = to - p
  BY <1>5
<1>8. joined = Between(p, to)
  BY <1>4, <1>5, <1>6, <1>7
<1> QED
  BY <1>8 DEF joined

-------------------------------------------------------------------------------
(* Runs of digits. *)

\* The longest run of digits at p ends at to; a shorter one ends inside it.
IsLongestRun(r, digits, p, to) ==
  /\ p <= to
  /\ IF Char(p) \in digits THEN AreDigits(r, digits, p, to) ELSE to = p
  /\ \A q \in Nat : AreDigits(r, digits, p, q) =>
       /\ q <= to
       /\ q < to => Char(q) \in digits \cup r.separators

\* A run of separators and digits, each separator before a digit, ends with one.
LEMMA DigitsAreDigits ==
  ASSUME TextOK, NEW r, NEW digits, NEW p \in Nat, NEW q \in Nat, p < q, Char(p) \in digits,
         IsDigits(r, digits, p, q)
  PROVE  AreDigits(r, digits, p, q)
<1>1. ASSUME NEW i \in p..(q - 1) PROVE HasDigit(r, digits, i)
  BY <1>1 DEF IsDigits
<1>2. Char(q - 1) \in digits
  <2>1. q - 1 \in p..(q - 1) /\ (q - 1) + 1 = q
    OBVIOUS
  <2>2. HasDigit(r, digits, q - 1) /\ ~HasDigit(r, digits, q)
    BY <1>1, <2>1 DEF IsDigits
  <2> QED
    BY <2>1, <2>2 DEF HasDigit
<1>3. \A i \in p..(q - 1) : Char(i) \in digits \cup r.separators
  BY <1>1 DEF HasDigit
<1>4. \A i \in p..(q - 2) : Char(i) \in digits \/ Char(i + 1) \in digits
  BY <1>1 DEF HasDigit
<1> QED
  BY <1>2, <1>3, <1>4 DEF AreDigits

LEMMA DigitsAreLongest ==
  ASSUME TextOK, NEW r, NEW run \in Runs, NEW digits, digits \subseteq Chars,
         NEW to, to = readDigitRun(r, run, digits).pos
  PROVE  IsLongestRun(r, digits, run.pos, to)
<1> DEFINE p == run.pos
<1>1. PICK end, last : IsDigitRun(r, run, digits, end, last)
  BY DigitScan
<1>2. /\ to = end /\ p \in Nat /\ to \in p..Len(text) /\ to \in Nat /\ Len(text) \in Nat
      /\ Char(p) \in digits => to > p /\ IsDigits(r, digits, p, to)
      /\ Char(p) \notin digits => to = p
  BY <1>1, CharFacts DEF IsDigitRun, Runs
<1> HIDE DEF p
<1>3. CASE Char(p) \notin digits
  BY <1>2, <1>3 DEF IsLongestRun, AreDigits, p
<1>4. CASE Char(p) \in digits
  <2>1. AreDigits(r, digits, p, to)
    BY <1>2, <1>4, DigitsAreDigits
  <2>2. ASSUME NEW q \in Nat, AreDigits(r, digits, p, q)
        PROVE  q <= to /\ (q < to => Char(q) \in digits \cup r.separators)
    <3>1. ASSUME q > to PROVE FALSE
      <4>1. to \in p..(q - 1) /\ (to < q - 1 => to \in p..(q - 2)) /\ (to >= q - 1 => to = q - 1)
        BY <1>2, <2>2, <3>1
      <4>2. HasDigit(r, digits, to)
        <5>1. CASE to = q - 1
          BY <2>2, <5>1 DEF AreDigits, HasDigit
        <5>2. CASE to < q - 1
          BY <2>2, <4>1, <5>2 DEF AreDigits, HasDigit
        <5> QED
          BY <1>2, <2>2, <4>1, <5>1, <5>2
      <4> QED
        BY <1>2, <1>4, <4>2 DEF IsDigits
    <3>2. ASSUME q < to PROVE Char(q) \in digits \cup r.separators
      <4>1. q \in p..(to - 1)
        BY <1>2, <2>2, <3>2 DEF AreDigits
      <4> QED
        BY <2>1, <4>1 DEF AreDigits
    <3> QED
      BY <1>2, <3>1, <3>2
  <2> QED
    BY <1>2, <1>4, <2>1, <2>2 DEF IsLongestRun, p
<1> QED
  BY <1>3, <1>4

\* What has been read of the value is the text from p on without separators.
Spells(r, p, run) ==
  p \in Nat /\ p <= run.pos /\ run.value = Without(Between(p, run.pos), r.separators)

LEMMA DigitsSpell ==
  ASSUME TextOK, NEW r, NEW run \in Runs, NEW digits, digits \subseteq Chars, NEW p, Spells(r, p, run)
  PROVE  Spells(r, p, readDigitRun(r, run, digits))
<1> DEFINE before == Between(p, run.pos)
           class == r.separators
<1>1. PICK end, last : IsDigitRun(r, run, digits, end, last)
  BY DigitScan
<1> DEFINE digitsRead == Between(run.pos, end)
<1>2. /\ p \in Nat /\ run.pos \in Nat /\ end \in Nat /\ p <= run.pos /\ run.pos <= end /\ end <= Len(text)
      /\ run.value = Without(before, class)
  BY <1>1, CharFacts DEF IsDigitRun, Runs, Spells
<1>3. before \in Seq(Chars) /\ digitsRead \in Seq(Chars) /\ Between(p, end) = before \o digitsRead
  <2> DEFINE q == run.pos
  <2>1. q \in Nat /\ p <= q /\ q <= end /\ q <= Len(text) /\ Len(text) \in Nat
    BY <1>2, CharFacts
  <2> HIDE DEF q
  <2>2. Between(p, q) \in Seq(Chars) /\ Between(q, end) \in Seq(Chars)
    BY <1>2, <2>1, PartOfText
  <2>3. Between(p, end) = Between(p, q) \o Between(q, end)
    BY <1>2, <2>1, PartsJoin
  <2> QED
    BY <2>2, <2>3 DEF q
<1> HIDE DEF before, digitsRead
<1>4. Without(Between(p, end), class) = Without(before, class) \o Without(digitsRead, class)
  BY <1>3, WithoutConcat
<1>5. /\ readDigitRun(r, run, digits).value = Without(before, class) \o Without(digitsRead, class)
      /\ readDigitRun(r, run, digits).pos = end
  BY <1>1, <1>2 DEF IsDigitRun, digitsRead
<1> QED
  BY <1>2, <1>4, <1>5 DEF Spells

\* Where a part with digits ends, and where there are none.
IsPart(r, digits, p, from, to) ==
  IF Char(from) \in digits THEN IsLongestRun(r, digits, from, to) ELSE to = p

\* A snapshot was taken behind the lead alone when nothing follows it: going
\* back to it gives up the whole lead and nothing else.
LEMMA PartReads ==
  ASSUME TextOK, NEW r, NEW run \in Runs, NEW lead \in {1, 2}, run.pos + lead <= Len(text),
         NEW digits, digits \subseteq Chars, r.separators \subseteq Chars,
         \A i \in run.pos..(run.pos + lead - 1) : Char(i) \notin r.separators,
         NEW p, Spells(r, p, run)
  PROVE  /\ Spells(r, p, Continued(r, run, lead, digits))
         /\ IsPart(r, digits, run.pos, run.pos + lead, Continued(r, run, lead, digits).pos)
<1> DEFINE tried == Provisional(run, lead)
           read == readDigitRun(r, tried, digits)
           from == run.pos + lead
           class == r.separators
           before == Between(p, run.pos)
           ahead == Between(run.pos, from)
<1>1. /\ Len(text) \in Nat /\ run.pos \in Nat /\ run.value \in Seq(Chars) /\ p \in Nat
      /\ from \in Nat /\ run.pos <= from /\ p <= run.pos /\ from <= Len(text) /\ run.pos <= Len(text)
  BY CharFacts DEF Runs, Spells
<1>2. /\ before \in Seq(Chars) /\ ahead \in Seq(Chars) /\ Between(p, from) = before \o ahead
      /\ Len(ahead) = lead /\ \A i \in 1..lead : ahead[i] = Char(run.pos + i - 1)
      /\ Ahead(run.pos, lead) = ahead
  <2> DEFINE q == run.pos
             to == from
  <2>1. q \in Nat /\ to \in Nat /\ p <= q /\ q <= to /\ to <= Len(text) /\ q <= Len(text)
    BY <1>1
  <2> HIDE DEF q, to
  <2>2. Between(p, q) \in Seq(Chars) /\ Between(p, to) = Between(p, q) \o Between(q, to)
    <3>1. Between(p, q) \in Seq(Chars)
      BY <1>1, <2>1, PartOfText
    <3> QED
      BY <1>1, <2>1, <3>1, PartsJoin
  <2>3. /\ Between(q, to) \in Seq(Chars) /\ Len(Between(q, to)) = to - q
        /\ \A i \in 1..(to - q) : Between(q, to)[i] = Char(q + i - 1)
    BY <1>1, <2>1, PartIs
  <2>4. to - q = lead
    BY <1>1 DEF q, to
  <2>5. Ahead(q, lead) = Between(q, to)
    BY DEF Ahead, Between, q, to
  <2> QED
    BY <2>2, <2>3, <2>4, <2>5 DEF q, to
<1> HIDE DEF before, ahead, from
<1>3. Without(ahead, class) = ahead
  <2>1. ASSUME NEW i \in 1..Len(ahead) PROVE ahead[i] \notin class
    <3>1. i \in 1..lead
      BY <1>2, <2>1
    <3>2. run.pos + i - 1 \in run.pos..(run.pos + lead - 1)
      BY <1>1, <3>1
    <3> QED
      BY <1>2, <3>1, <3>2
  <2> QED
    BY <1>2, <2>1, WithoutNone
<1>4. Without(Between(p, from), class) = run.value \o ahead
  <2>1. Without(before \o ahead, class) = Without(before, class) \o Without(ahead, class)
    BY <1>2, WithoutConcat
  <2>2. run.value = Without(before, class)
    BY DEF Spells, before
  <2> QED
    BY <1>2, <1>3, <2>1, <2>2
<1>5. tried = [value |-> run.value \o ahead, pos |-> from, slot |-> run.pos]
  BY <1>2, Zenon DEF Provisional, from
<1> HIDE DEF tried
<1>6. tried \in Runs /\ tried.pos = from /\ tried.slot = run.pos /\ Spells(r, p, tried)
  <2>1. run.value \o ahead \in Seq(Chars)
    BY <1>1, <1>2
  <2>2. tried \in Runs
    BY <1>1, <1>5, <2>1 DEF Runs
  <2>3. Spells(r, p, tried)
    <3>1. p \in Nat /\ p <= from
      BY <1>1
    <3> QED
      BY <1>4, <1>5, <3>1 DEF Spells
  <2> QED
    BY <1>5, <2>2, <2>3
<1>7. Spells(r, p, read)
  BY <1>6, DigitsSpell
<1>8. IsLongestRun(r, digits, from, read.pos)
  BY <1>6, DigitsAreLongest
<1>9. /\ read \in Runs /\ from <= read.pos
      /\ Char(from) \in digits => read.pos > from
      /\ read.pos = from => read.slot = run.pos
  BY <1>6, DigitRun
<1>10. Continued(r, run, lead, digits) = Reloaded(run, lead, read)
  BY DEF Continued, tried
<1> HIDE DEF read
<1>11. CASE Char(from) \in digits
  <2>1. Reloaded(run, lead, read) = read
    BY <1>9, <1>11 DEF Reloaded, from
  <2> QED
    BY <1>7, <1>8, <1>10, <1>11, <2>1 DEF IsPart, from
<1>12. CASE Char(from) \notin digits
  <2>1. read.pos = from
    BY <1>8, <1>12 DEF IsLongestRun
  <2>2. Reloaded(run, lead, read) = [value |-> run.value, pos |-> run.pos, slot |-> run.pos]
    BY <1>1, <1>9, <2>1 DEF Reloaded, from
  <2> QED
    BY <1>10, <1>12, <2>2 DEF IsPart, Spells, from
<1> QED
  BY <1>11, <1>12

-------------------------------------------------------------------------------
(* The parts of a number. *)

\* What the characters of a number tell apart: a digit or a separator begins no
\* other part, and a marker says of which radix the digits behind it are. All
\* but the signs are fixed in lexer.ts.
PartsTell(r) ==
  /\ r.zero \in r.digits /\ r.zero \notin r.separators
  /\ r.signs \cap (r.digits \cup r.leading \cup r.separators) = {}
  /\ (r.points \cup r.exponents \cup r.expSigns) \cap (r.digits \cup r.separators) = {}
  /\ r.points \cap r.exponents = {}
  /\ \A form \in r.radix :
       form.marker \notin r.digits \cup r.separators \cup r.points \cup r.exponents
  /\ \A form, other \in r.radix : form.marker = other.marker => form = other

\* Where readFraction, readExponent and readRadix come to.
IsFraction(r, whole, part) ==
  IF Char(whole) \in r.points THEN IsPart(r, r.digits, whole, whole + 1, part) ELSE part = whole

IsExponent(r, p, part, to) ==
  IF part > p /\ Char(part) \in r.exponents
  THEN IsPart(r, r.digits, part,
              part + (IF Char(part + 1) \in r.expSigns THEN 2 ELSE 1), to)
  ELSE to = part

IsRadixRead(r, p, to) ==
  \/ to = p /\ radixForms(r, p) = {}
  \/ \E form \in radixForms(r, p) : IsPart(r, form.digits, p, p + 2, to)

\* Reading part by part, each as long as it goes, is reading the longest decimal.
LEMMA DecimalIsLongest ==
  ASSUME NEW r, PartsTell(r), NEW p \in Nat, NEW whole \in Nat, NEW part \in Nat, NEW to \in Nat,
         IsLongestRun(r, r.digits, p, whole), IsFraction(r, whole, part), IsExponent(r, p, part, to),
         r.leading \subseteq r.points
  PROVE  /\ p <= to
         /\ p < to /\ Char(p) \in r.digits \cup r.leading => IsDecimal(r, p, to)
         /\ \A q \in Nat : IsDecimal(r, p, q) => p < q /\ q <= to
<1> DEFINE lead == IF Char(part + 1) \in r.expSigns THEN 2 ELSE 1
<1>1. p <= whole /\ whole <= part /\ part <= to
  <2>1. p <= whole
    BY DEF IsLongestRun
  <2>2. whole <= part
    BY DEF IsFraction, IsPart, IsLongestRun
  <2>3. lead \in {1, 2}
    OBVIOUS
  <2>4. part <= to
    <3>1. IF part > p /\ Char(part) \in r.exponents
          THEN IsPart(r, r.digits, part, part + lead, to) ELSE to = part
      BY DEF IsExponent
    <3> HIDE DEF lead
    <3> QED
      BY <2>3, <3>1 DEF IsPart, IsLongestRun
  <2> QED
    BY <2>1, <2>2, <2>4
<1>2. /\ AreDigits(r, r.digits, p, whole) \/ whole = p
      /\ Char(p) \in r.digits => AreDigits(r, r.digits, p, whole)
  BY DEF IsLongestRun
<1>3. part = whole \/ (Char(whole) \in r.points /\ AreDigits(r, r.digits, whole + 1, part))
  BY DEF IsFraction, IsPart, IsLongestRun
<1>4. \/ to = part
      \/ /\ part > p /\ Char(part) \in r.exponents
         /\ \/ AreDigits(r, r.digits, part + 1, to)
            \/ Char(part + 1) \in r.expSigns /\ AreDigits(r, r.digits, part + 2, to)
  BY DEF IsExponent, IsPart, IsLongestRun
<1>5. ASSUME p < to, Char(p) \in r.digits \cup r.leading PROVE IsDecimal(r, p, to)
  <2>1. whole \in p..to /\ part \in p..to
    BY <1>1
  <2>2. AreDigits(r, r.digits, p, whole) \/ (whole = p /\ Char(p) \in r.leading)
    BY <1>2, <1>5
  <2>3. part > p
    BY <1>1, <1>4, <1>5
  <2>4. \/ part = whole /\ whole > p
        \/ Char(whole) \in r.points /\ AreDigits(r, r.digits, whole + 1, part)
    BY <1>3, <2>3
  <2> QED
    BY <1>4, <2>1, <2>2, <2>4 DEF IsDecimal
<1>6. ASSUME NEW q \in Nat, IsDecimal(r, p, q) PROVE p < q /\ q <= to
  <2>1. PICK w \in p..q, t \in p..q :
          /\ AreDigits(r, r.digits, p, w) \/ (w = p /\ Char(p) \in r.leading)
          /\ \/ t = w /\ w > p
             \/ Char(w) \in r.points /\ AreDigits(r, r.digits, w + 1, t)
          /\ \/ q = t
             \/ /\ Char(t) \in r.exponents
                /\ \/ AreDigits(r, r.digits, t + 1, q)
                   \/ Char(t + 1) \in r.expSigns /\ AreDigits(r, r.digits, t + 2, q)
    BY <1>6 DEF IsDecimal
  <2>2. w \in Nat /\ t \in Nat /\ p <= w /\ p < t /\ w <= t /\ t <= q
    BY <2>1 DEF AreDigits
  <2>3. Char(w) \in r.digits \cup r.separators => q = w
    BY <2>1, <2>2 DEF PartsTell
  <2>4. Char(t) \in r.digits \cup r.separators => q = t
    BY <2>1 DEF PartsTell
  <2>5. w = whole \/ q <= whole
    <3>1. CASE AreDigits(r, r.digits, p, w)
      BY <1>1, <2>2, <2>3, <3>1 DEF IsLongestRun
    <3>2. CASE w = p /\ Char(p) \in r.leading
      BY <3>2 DEF IsLongestRun, PartsTell
    <3> QED
      BY <2>1, <3>1, <3>2
  <2>6. ASSUME w = whole PROVE t = part \/ q <= part
    <3>1. CASE AreDigits(r, r.digits, w + 1, t) /\ Char(w) \in r.points
      <4>1. Char(w + 1) \in r.digits
        BY <3>1 DEF AreDigits
      <4>2. IsLongestRun(r, r.digits, w + 1, part)
        BY <2>6, <3>1, <4>1 DEF IsFraction, IsPart
      <4> QED
        BY <2>2, <2>4, <3>1, <4>2 DEF IsLongestRun
    <3>2. CASE t = w
      <4>1. part # w => Char(w) \in r.points
        BY <2>6 DEF IsFraction
      <4>2. Char(w) \in r.points => q = t
        BY <2>1, <3>2 DEF PartsTell
      <4> QED
        BY <1>1, <2>6, <3>2, <4>1, <4>2
    <3> QED
      BY <2>1, <3>1, <3>2
  <2>7. ASSUME t = part PROVE q <= to
    <3>1. CASE q = t
      BY <1>1, <2>7, <3>1
    <3>2. CASE /\ Char(t) \in r.exponents
               /\ \/ AreDigits(r, r.digits, t + 1, q)
                  \/ Char(t + 1) \in r.expSigns /\ AreDigits(r, r.digits, t + 2, q)
      <4>1. IsPart(r, r.digits, part, part + lead, to)
        BY <2>2, <2>7, <3>2 DEF IsExponent
      <4>2. AreDigits(r, r.digits, part + lead, q)
        <5>1. AreDigits(r, r.digits, t + 1, q) => Char(t + 1) \in r.digits
          BY DEF AreDigits
        <5>2. Char(t + 1) \in r.digits => Char(t + 1) \notin r.expSigns
          BY DEF PartsTell
        <5> QED
          BY <2>7, <3>2, <5>1, <5>2
      <4>3. Char(part + lead) \in r.digits
        BY <4>2 DEF AreDigits
      <4> HIDE DEF lead
      <4> QED
        BY <4>1, <4>2, <4>3 DEF IsPart, IsLongestRun
    <3> QED
      BY <2>1, <3>1, <3>2
  <2> QED
    BY <1>1, <2>2, <2>5, <2>6, <2>7
<1> QED
  BY <1>1, <1>5, <1>6

\* A radix form goes on behind its marker or is not there at all, and what it
\* is there no decimal is, but for the zero before the marker.
LEMMA RadixIsLongest ==
  ASSUME NEW r, PartsTell(r), NEW p \in Nat, NEW to \in Nat, IsRadixRead(r, p, to),
         r.leading \subseteq r.points
  PROVE  /\ p <= to
         /\ p < to => IsRadix(r, p, to)
         /\ \A q \in Nat : IsRadix(r, p, q) => p < q /\ p < to /\ q <= to
         /\ p < to => \A q \in Nat : IsDecimal(r, p, q) => q <= to
<1>1. CASE to = p /\ radixForms(r, p) = {}
  BY <1>1 DEF IsRadix, radixForms
<1>2. ASSUME NEW form \in radixForms(r, p), IsPart(r, form.digits, p, p + 2, to)
      PROVE  /\ p <= to
             /\ p < to => IsRadix(r, p, to)
             /\ \A q \in Nat : IsRadix(r, p, q) => p < q /\ p < to /\ q <= to
             /\ p < to => \A q \in Nat : IsDecimal(r, p, q) => q <= to
  <2>1. form \in r.radix /\ Char(p) = r.zero /\ Char(p + 1) = form.marker
    BY DEF radixForms
  <2>2. IF Char(p + 2) \in form.digits THEN IsLongestRun(r, form.digits, p + 2, to) ELSE to = p
    BY <1>2 DEF IsPart
  <2>3. p <= to /\ (p < to => p + 2 <= to /\ Char(p + 2) \in form.digits /\ AreDigits(r, form.digits, p + 2, to))
    BY <2>2 DEF IsLongestRun
  <2>4. p < to => IsRadix(r, p, to)
    BY <2>1, <2>3 DEF IsRadix
  <2>5. ASSUME NEW q \in Nat, IsRadix(r, p, q) PROVE p < q /\ p < to /\ q <= to
    <3>1. AreDigits(r, form.digits, p + 2, q)
      BY <2>1, <2>5 DEF IsRadix, PartsTell
    <3>2. Char(p + 2) \in form.digits /\ p + 2 < q
      BY <3>1 DEF AreDigits
    <3> QED
      BY <2>2, <3>1, <3>2 DEF IsLongestRun
  <2>6. ASSUME NEW q \in Nat, IsDecimal(r, p, q) PROVE q <= p + 1
    <3>1. PICK w \in p..q, t \in p..q :
            /\ AreDigits(r, r.digits, p, w) \/ (w = p /\ Char(p) \in r.leading)
            /\ \/ t = w /\ w > p
               \/ Char(w) \in r.points /\ AreDigits(r, r.digits, w + 1, t)
            /\ q = t \/ Char(t) \in r.exponents
      BY <2>6 DEF IsDecimal
    <3>2. Char(p) \in r.digits /\ Char(p) \notin r.leading
      BY <2>1 DEF PartsTell
    <3>3. Char(p + 1) \notin r.digits \cup r.separators \cup r.points \cup r.exponents
      BY <2>1 DEF PartsTell
    <3>4. w = p + 1
      <4>1. AreDigits(r, r.digits, p, w)
        BY <3>1, <3>2
      <4>2. p < w /\ \A i \in p..(w - 1) : Char(i) \in r.digits \cup r.separators
        BY <4>1 DEF AreDigits
      <4>3. p + 1 \notin p..(w - 1)
        BY <3>3, <4>2
      <4> QED
        BY <4>2, <4>3
    <3> QED
      BY <3>1, <3>3, <3>4
  <2> QED
    BY <2>3, <2>4, <2>5, <2>6
<1> QED
  BY <1>1, <1>2 DEF IsRadixRead

-------------------------------------------------------------------------------
(* The runs that read the parts. *)

LEMMA RadixReads ==
  ASSUME TextOK, NEW r, r \in NumberReader, PartsTell(r), NEW run \in Runs, NEW p, Spells(r, p, run)
  PROVE  /\ readRadix(r, run) \in Runs /\ Spells(r, p, readRadix(r, run))
         /\ IsRadixRead(r, run.pos, readRadix(r, run).pos)
         /\ readRadix(r, run).pos = run.pos => readRadix(r, run).value = run.value
<1> DEFINE forms == radixForms(r, run.pos)
<1>1. CASE forms = {}
  BY <1>1 DEF readRadix, IsRadixRead
<1>2. CASE forms # {}
  <2>1. PICK form \in forms : form = CHOOSE f \in forms : TRUE
    BY <1>2
  <2>2. /\ form \in r.radix /\ Char(run.pos) = r.zero /\ Char(run.pos + 1) = form.marker
        /\ form.digits \subseteq Chars /\ r.separators \subseteq Chars
        /\ form.marker \in Chars /\ r.zero \in Chars
    BY <2>1, NumberOptions DEF radixForms
  <2>3. run.pos + 2 <= Len(text) /\ run.pos \in Nat
    BY <2>2, CharFacts DEF Runs
  <2>4. \A i \in run.pos..(run.pos + 2 - 1) : Char(i) \notin r.separators
    BY <2>2, <2>3 DEF PartsTell
  <2>5. readRadix(r, run) = Continued(r, run, 2, form.digits)
    BY <1>2, <2>1 DEF readRadix
  <2>6. /\ Spells(r, p, Continued(r, run, 2, form.digits))
        /\ IsPart(r, form.digits, run.pos, run.pos + 2, Continued(r, run, 2, form.digits).pos)
    BY <2>2, <2>3, <2>4, PartReads
  <2>7. Continued(r, run, 2, form.digits) \in Runs
    BY <2>2, <2>3, PartContinues
  <2>8. IsRadixRead(r, run.pos, readRadix(r, run).pos)
    BY <2>1, <2>5, <2>6 DEF IsRadixRead
  <2>9. readRadix(r, run).pos = run.pos => readRadix(r, run).value = run.value
    BY <2>5, <2>6 DEF Spells
  <2> QED
    BY <2>5, <2>6, <2>7, <2>8, <2>9
<1> QED
  BY <1>1, <1>2

LEMMA FractionReads ==
  ASSUME TextOK, NEW r, r \in NumberReader, PartsTell(r), NEW run \in Runs, NEW p, Spells(r, p, run)
  PROVE  /\ readFraction(r, run) \in Runs /\ Spells(r, p, readFraction(r, run))
         /\ IsFraction(r, run.pos, readFraction(r, run).pos)
<1>1. CASE Char(run.pos) \notin r.points
  BY <1>1 DEF readFraction, IsFraction
<1>2. CASE Char(run.pos) \in r.points
  <2> DEFINE read == Continued(r, run, 1, r.digits)
  <2>1. /\ r.digits \subseteq Chars /\ r.separators \subseteq Chars /\ r.points \subseteq Chars
    BY NumberOptions
  <2>2. run.pos + 1 <= Len(text) /\ run.pos \in Nat
    BY <1>2, <2>1, CharFacts DEF Runs
  <2>3. \A i \in run.pos..(run.pos + 1 - 1) : Char(i) \notin r.separators
    BY <1>2, <2>2 DEF PartsTell
  <2>4. /\ Spells(r, p, read) /\ IsPart(r, r.digits, run.pos, run.pos + 1, read.pos)
    BY <2>1, <2>2, <2>3, PartReads
  <2>5. read \in Runs
    BY <2>1, <2>2, PartContinues
  <2>6. readFraction(r, run) = read
    BY <1>2 DEF readFraction
  <2> HIDE DEF read
  <2> QED
    BY <1>2, <2>4, <2>5, <2>6 DEF IsFraction
<1> QED
  BY <1>1, <1>2

LEMMA ExponentReads ==
  ASSUME TextOK, NEW r, r \in NumberReader, PartsTell(r), NEW run \in Runs, NEW p, Spells(r, p, run),
         NEW begin
  PROVE  /\ readExponent(r, begin, run) \in Runs /\ Spells(r, p, readExponent(r, begin, run))
         /\ IsExponent(r, begin.pos, run.pos, readExponent(r, begin, run).pos)
<1>1. CASE ~(run.pos > begin.pos /\ Char(run.pos) \in r.exponents)
  BY <1>1 DEF readExponent, IsExponent
<1>2. CASE run.pos > begin.pos /\ Char(run.pos) \in r.exponents
  <2> DEFINE lead == IF Char(run.pos + 1) \in r.expSigns THEN 2 ELSE 1
             read == Continued(r, run, lead, r.digits)
  <2>1. /\ r.digits \subseteq Chars /\ r.separators \subseteq Chars
        /\ r.exponents \subseteq Chars /\ r.expSigns \subseteq Chars
    BY NumberOptions
  <2>2. lead \in {1, 2} /\ (lead = 2 => Char(run.pos + 1) \in r.expSigns)
    OBVIOUS
  <2>3. readExponent(r, begin, run) = read
    BY <1>2 DEF readExponent
  <2>4. IsPart(r, r.digits, run.pos, run.pos + lead, read.pos)
        => IsExponent(r, begin.pos, run.pos, read.pos)
    BY <1>2, Zenon DEF IsExponent
  <2> HIDE DEF lead
  <2>5. run.pos + lead <= Len(text) /\ run.pos \in Nat
    BY <1>2, <2>1, <2>2, CharFacts DEF Runs
  <2>6. \A i \in run.pos..(run.pos + lead - 1) : Char(i) \notin r.separators
    BY <1>2, <2>2, <2>5 DEF PartsTell
  <2>7. Spells(r, p, read) /\ IsPart(r, r.digits, run.pos, run.pos + lead, read.pos)
    BY <2>1, <2>2, <2>5, <2>6, PartReads
  <2>8. read \in Runs
    BY <2>1, <2>2, <2>5, PartContinues
  <2> HIDE DEF read
  <2> QED
    BY <2>3, <2>4, <2>7, <2>8
<1> QED
  BY <1>1, <1>2

IsUnsigned(r, p, q) == IsRadix(r, p, q) \/ IsDecimal(r, p, q)

\* The longest of any form, and what it spells.
LEMMA UnsignedReads ==
  ASSUME TextOK, NEW r, r \in NumberReader, r.leading \subseteq r.points, PartsTell(r),
         NEW begin \in Runs, NEW p, Spells(r, p, begin)
  PROVE  /\ Spells(r, p, readSigned(r, begin))
         /\ begin.pos < readSigned(r, begin).pos /\ Char(begin.pos) \in r.digits \cup r.leading
            => IsUnsigned(r, begin.pos, readSigned(r, begin).pos)
         /\ \A q \in Nat : IsUnsigned(r, begin.pos, q) => begin.pos < q /\ q <= readSigned(r, begin).pos
<1> DEFINE radix == readRadix(r, begin)
           int == readDigitRun(r, radix, r.digits)
           mantissa == readFraction(r, int)
           exponent == readExponent(r, radix, mantissa)
<1>1. r.digits \subseteq Chars /\ r.separators \subseteq Chars
  BY NumberOptions
<1>2. readSigned(r, begin) = IF radix.pos > begin.pos THEN radix ELSE exponent
  BY DEF readSigned, readUnsigned, radix, int, mantissa
<1>3. radix \in Runs /\ Spells(r, p, radix) /\ IsRadixRead(r, begin.pos, radix.pos)
  BY RadixReads
<1> HIDE DEF radix
<1>4. /\ int \in Runs /\ Spells(r, p, int) /\ IsLongestRun(r, r.digits, radix.pos, int.pos)
  BY <1>1, <1>3, DigitRun, DigitsSpell, DigitsAreLongest
<1> HIDE DEF int
<1>5. mantissa \in Runs /\ Spells(r, p, mantissa) /\ IsFraction(r, int.pos, mantissa.pos)
  BY <1>4, FractionReads
<1> HIDE DEF mantissa
<1>6. /\ exponent \in Runs /\ Spells(r, p, exponent)
      /\ IsExponent(r, radix.pos, mantissa.pos, exponent.pos)
  BY <1>5, ExponentReads
<1> HIDE DEF exponent
<1>7. /\ begin.pos \in Nat /\ radix.pos \in Nat /\ int.pos \in Nat /\ mantissa.pos \in Nat
      /\ exponent.pos \in Nat
  BY <1>3, <1>4, <1>5, <1>6, CharFacts DEF Runs
<1>8. /\ begin.pos <= radix.pos
      /\ begin.pos < radix.pos => IsRadix(r, begin.pos, radix.pos)
      /\ \A q \in Nat : IsRadix(r, begin.pos, q) =>
           begin.pos < q /\ begin.pos < radix.pos /\ q <= radix.pos
      /\ begin.pos < radix.pos => \A q \in Nat : IsDecimal(r, begin.pos, q) => q <= radix.pos
  BY <1>3, <1>7, RadixIsLongest
<1>9. /\ radix.pos <= exponent.pos
      /\ radix.pos < exponent.pos /\ Char(radix.pos) \in r.digits \cup r.leading
         => IsDecimal(r, radix.pos, exponent.pos)
      /\ \A q \in Nat : IsDecimal(r, radix.pos, q) => radix.pos < q /\ q <= exponent.pos
  BY <1>4, <1>5, <1>6, <1>7, DecimalIsLongest
<1>10. ASSUME NEW q \in Nat, IsDecimal(r, begin.pos, q) PROVE begin.pos < q
  BY <1>7, <1>10 DEF IsDecimal, AreDigits
<1>11. CASE radix.pos > begin.pos
  BY <1>2, <1>3, <1>7, <1>8, <1>10, <1>11 DEF IsUnsigned
<1>12. CASE ~(radix.pos > begin.pos)
  <2>1. radix.pos = begin.pos /\ readSigned(r, begin) = exponent
    BY <1>2, <1>7, <1>8, <1>12
  <2> QED
    BY <1>6, <1>7, <1>8, <1>9, <2>1 DEF IsUnsigned
<1> QED
  BY <1>11, <1>12

\* What NumbersAreLongest asks of a number.
NumberReads(r, from, to, value) ==
  /\ to \in NumberEnds(r, from)
  /\ \A q \in NumberEnds(r, from) : q <= to
  /\ value = Without(Between(from, to), r.separators)

\* A number is read where there is one, and it is the longest.
LEMMA NumberTells ==
  ASSUME Reading, NEW r, r \in NumberReader, r.leading \subseteq r.points, PartsTell(r)
  PROVE  \/ number(r) = Null /\ NumberEnds(r, at.pos) = {}
         \/ \E value, to : number(r) = Spanning(r, value, to) /\ NumberReads(r, at.pos, to, value)
<1> DEFINE p == at.pos
           sign == IF Char(p) \in r.signs THEN 1 ELSE 0
           begin == [value |-> Ahead(p, sign), pos |-> p + sign, slot |-> slot.pos]
           read == readSigned(r, begin)
<1>1. /\ p \in Nat /\ p < Len(text) /\ Len(text) \in Nat /\ TextOK /\ slot.pos \in Nat
      /\ r.digits \subseteq Chars /\ r.signs \subseteq Chars
  BY ReadingAt, NumberOptions DEF Reading
<1>2. /\ sign \in {0, 1} /\ (sign = 1 <=> Char(p) \in r.signs)
      /\ number(r) = IF startsNumber(r) THEN Spanning(r, read.value, read.pos) ELSE Null
  BY DEF number
<1> HIDE DEF sign
<1>3. /\ Between(p, p + sign) \in Seq(Chars) /\ Len(Between(p, p + sign)) = sign
      /\ \A i \in 1..sign : Between(p, p + sign)[i] = Char(p + i - 1)
      /\ Ahead(p, sign) = Between(p, p + sign)
  <2> DEFINE q == p + sign
  <2>1. q \in Nat /\ p <= q /\ q <= Len(text) /\ q - p = sign
    BY <1>1, <1>2
  <2>2. Ahead(p, sign) = Between(p, q)
    BY DEF Ahead, Between
  <2> HIDE DEF q
  <2>3. /\ Between(p, q) \in Seq(Chars) /\ Len(Between(p, q)) = q - p
        /\ \A i \in 1..(q - p) : Between(p, q)[i] = Char(p + i - 1)
    BY <1>1, <2>1, PartIs
  <2> QED
    BY <2>1, <2>2, <2>3 DEF q
<1> HIDE DEF p
<1>4. begin \in Runs /\ begin.pos = p + sign /\ Spells(r, p, begin)
  <2>1. begin \in Runs
    BY <1>1, <1>2, <1>3 DEF Runs
  <2>2. ASSUME NEW i \in 1..sign PROVE Between(p, p + sign)[i] \notin r.separators
    <3>1. i = 1 /\ p + i - 1 = p /\ Char(p) \in r.signs
      BY <1>1, <1>2, <2>2
    <3> QED
      BY <1>3, <3>1 DEF PartsTell
  <2>3. Without(Between(p, p + sign), r.separators) = Between(p, p + sign)
    BY <1>3, <2>2, WithoutNone
  <2> QED
    BY <1>1, <1>2, <1>3, <2>1, <2>3 DEF Spells
<1> HIDE DEF begin
<1>5. /\ Spells(r, p, read)
      /\ begin.pos < read.pos /\ Char(begin.pos) \in r.digits \cup r.leading
         => IsUnsigned(r, begin.pos, read.pos)
      /\ \A q \in Nat : IsUnsigned(r, begin.pos, q) => begin.pos < q /\ q <= read.pos
  BY <1>1, <1>4, UnsignedReads
<1>6. /\ read \in Runs
      /\ \/ Char(begin.pos) \in r.digits
         \/ Char(begin.pos) \in r.leading /\ Char(begin.pos + 1) \in r.digits
         => read.pos > begin.pos
  BY <1>1, <1>4, UnsignedIs
<1> HIDE DEF read
\* Where a number begins, startsNumber says so.
<1>7. ASSUME NEW b \in Nat, NEW q \in Nat, IsUnsigned(r, b, q)
      PROVE  Char(b) \in r.digits \/ (Char(b) \in r.leading /\ Char(b + 1) \in r.digits)
  <2>1. IsRadix(r, b, q) => Char(b) \in r.digits
    BY DEF IsRadix, PartsTell
  <2>2. IsDecimal(r, b, q) => Char(b) \in r.digits \/ (Char(b) \in r.leading /\ Char(b + 1) \in r.digits)
    BY DEF IsDecimal, AreDigits
  <2> QED
    BY <1>7, <2>1, <2>2 DEF IsUnsigned
<1>8. startsNumber(r) <=> \/ Char(p) \in r.digits
                          \/ Char(p) \in r.leading \cup r.signs /\ Char(p + 1) \in r.digits
  BY DEF startsNumber, p
<1>9. ASSUME NEW q \in Nat
      PROVE  IsNumber(r, p, q) <=> IsUnsigned(r, p + sign, q) /\ startsNumber(r)
  <2>1. CASE sign = 0
    <3>1. Char(p) \notin r.signs /\ p + sign = p
      BY <1>1, <1>2, <2>1
    <3>2. IsNumber(r, p, q) <=> IsUnsigned(r, p, q)
      BY <3>1 DEF IsNumber, IsUnsigned
    <3>3. IsUnsigned(r, p, q) => startsNumber(r)
      BY <1>1, <1>7, <1>8
    <3> QED
      BY <3>1, <3>2, <3>3
  <2>2. CASE sign = 1
    <3>1. Char(p) \in r.signs /\ p + sign = p + 1 /\ Char(p) \notin r.digits \cup r.leading
      BY <1>2, <2>2 DEF PartsTell
    <3>2. ~IsUnsigned(r, p, q)
      BY <1>1, <1>7, <3>1
    <3>3. startsNumber(r) <=> Char(p + 1) \in r.digits
      BY <1>8, <3>1
    <3> QED
      BY <3>1, <3>2, <3>3 DEF IsNumber, IsUnsigned
  <2> QED
    BY <1>2, <2>1, <2>2
<1>10. CASE ~startsNumber(r)
  <2>1. NumberEnds(r, p) = {}
    BY <1>1, <1>9, <1>10 DEF NumberEnds
  <2> QED
    BY <1>2, <1>10, <2>1 DEF p
<1>11. CASE startsNumber(r)
  <2>1. number(r) = Spanning(r, read.value, read.pos)
    BY <1>2, <1>11
  <2>2. /\ read.pos \in Nat /\ read.pos <= Len(text) /\ begin.pos \in Nat /\ p <= begin.pos
    BY <1>1, <1>2, <1>4, <1>6 DEF Runs
  <2>3. \/ Char(begin.pos) \in r.digits
        \/ Char(begin.pos) \in r.leading /\ Char(begin.pos + 1) \in r.digits
    <3>1. CASE sign = 0
      BY <1>1, <1>2, <1>4, <1>8, <1>11, <3>1
    <3>2. CASE sign = 1
      BY <1>1, <1>2, <1>4, <1>8, <1>11, <3>2 DEF PartsTell
    <3> QED
      BY <1>2, <3>1, <3>2
  <2>4. begin.pos < read.pos /\ IsUnsigned(r, begin.pos, read.pos)
    BY <1>5, <1>6, <2>2, <2>3
  <2>5. read.pos \in NumberEnds(r, p)
    <3>1. IsNumber(r, p, read.pos)
      BY <1>4, <1>9, <1>11, <2>2, <2>4
    <3> QED
      BY <1>1, <2>2, <2>4, <3>1 DEF NumberEnds
  <2>6. ASSUME NEW q \in NumberEnds(r, p) PROVE q <= read.pos
    <3>1. q \in Nat /\ IsNumber(r, p, q)
      BY <1>1 DEF NumberEnds
    <3> QED
      BY <1>4, <1>5, <1>9, <3>1
  <2>7. NumberReads(r, p, read.pos, read.value)
    BY <1>5, <2>5, <2>6 DEF NumberReads, Spells
  <2> QED
    BY <2>1, <2>7 DEF p
<1> QED
  BY <1>10, <1>11

-------------------------------------------------------------------------------
(* Number tokens, and what no number is read of. *)

NumbersTell == \A r \in AllReaders : r.kind = "number" => PartsTell(r)

WalkSteps == {"keyword", "identifier", "punctuation", "unexpected", "crashed"}

NoNumber(m, p) == \A r \in ReadersOf(m, "number") : NumberEnds(r, p) = {}

\* Behind the readers, the text has no number where the call began.
NoNumberOK == step \in WalkSteps => NoNumber(mode, began.pos)

\* What NumbersAreLongest asks of an item.
NumberOK(item) ==
  /\ \A r \in MakersOf(item, "number") : NumberReads(r, item.from, item.to, item.value)
  /\ item.type \in {"kw", "ident", "punc", "unexpected"} => NoNumber(Mode[item.mode], item.from)

NumbersOK == \A i \in 1..Len(items) : NumberOK(items[i])

LEMMA NumberStays ==
  ASSUME UNCHANGED text
  PROVE  /\ \A m, p : NoNumber(m, p)' <=> NoNumber(m, p)
         /\ \A item : NumberOK(item)' <=> NumberOK(item)
<1>1. ASSUME NEW r, NEW p PROVE NumberEnds(r, p)' = NumberEnds(r, p)
  BY DEF NumberEnds, IsNumber, IsRadix, IsDecimal, AreDigits, Char
<1>2. ASSUME NEW p, NEW q PROVE Between(p, q)' = Between(p, q)
  BY DEF Between
<1>3. ASSUME NEW r, NEW p, NEW q, NEW value PROVE NumberReads(r, p, q, value)' <=> NumberReads(r, p, q, value)
  BY <1>1, <1>2 DEF NumberReads
<1>4. ASSUME NEW m, NEW p PROVE NoNumber(m, p)' <=> NoNumber(m, p)
  BY <1>1 DEF NoNumber
<1>5. ASSUME NEW item PROVE NumberOK(item)' <=> NumberOK(item)
  BY <1>3, <1>4 DEF NumberOK
<1> QED
  BY <1>4, <1>5

LEMMA NoneAnswers ==
  ASSUME lexCtx.mode \in Modes, Answer = Null, NEW i \in 1..Len(mode.readers)
  PROVE  readBy(mode.readers[i], LastType(lexCtx.lastToken)) = Null
<1> DEFINE readers == mode.readers
           last == LastType(lexCtx.lastToken)
           answers == [j \in 1..Len(readers) |-> readBy(readers[j], last)]
           given == {j \in 1..Len(answers) : answers[j] # Null}
           first == CHOOSE j \in given : \A k \in given : j <= k
<1>1. Answer = FirstOf(answers) /\ Len(readers) \in Nat /\ Len(answers) = Len(readers)
  BY ModeIs DEF Answer, mode
<1>2. FirstOf(answers) = IF given = {} THEN Null ELSE answers[first]
  BY DEF FirstOf
<1>3. given = {}
  <2>1. given # {} => first \in given
    <3>1. given \subseteq Nat
      OBVIOUS
    <3> HIDE DEF given
    <3>2. given # {} => \E j \in given : \A k \in given : j <= k
      BY <3>1, Least
    <3> QED
      BY <3>2
  <2>2. \A j \in given : answers[j] # Null
    OBVIOUS
  <2> HIDE DEF given, answers, first
  <2> QED
    BY <1>1, <1>2, <2>1, <2>2
<1>4. answers[i] = Null
  BY <1>1, <1>3
<1> QED
  BY <1>4

LEMMA NumberReaders ==
  ASSUME lexCtx.mode \in Modes, NumbersTell, NEW r \in ReadersOf(mode, "number")
  PROVE  /\ r.kind = "number" /\ r \in NumberReader /\ r.leading \subseteq r.points /\ PartsTell(r)
         /\ \E i \in 1..Len(mode.readers) : r = mode.readers[i]
<1>1. PICK i \in 1..Len(mode.readers) : r = mode.readers[i] /\ r.kind = "number"
  BY DEF ReadersOf
<1>2. r \in AllReaders /\ IsReader(r)
  BY <1>1, ModeIs DEF AllReaders, mode
<1>3. r \in NumberReader
  BY <1>1, <1>2, ReaderOptions DEF IsReader
<1> QED
  BY <1>1, <1>2, <1>3 DEF IsReader, NumbersTell

LEMMA DispatchTells ==
  ASSUME StateOK, NumbersTell, Dispatch
  PROVE  NoNumber(mode, began.pos)
<1>1. /\ lexCtx.mode \in Modes /\ InputOK /\ at = began /\ ~Eof /\ Answer = Null
  BY DEF StateOK, ContextOK, StandOK, Dispatch
<1>2. Reading
  BY <1>1, TextIs, PlaceIs DEF InputOK, Reading
<1>3. ASSUME NEW r \in ReadersOf(mode, "number") PROVE NumberEnds(r, began.pos) = {}
  <2>1. /\ r.kind = "number" /\ r \in NumberReader /\ r.leading \subseteq r.points /\ PartsTell(r)
        /\ \E i \in 1..Len(mode.readers) : r = mode.readers[i]
    BY <1>1, NumberReaders
  <2>2. readBy(r, LastType(lexCtx.lastToken)) = Null
    BY <1>1, <2>1, NoneAnswers
  <2>3. number(r) = Null
    BY <2>1, <2>2 DEF readBy
  <2>4. \A value, to : number(r) # Spanning(r, value, to)
    BY <2>3 DEF Spanning, Token, Null
  <2> QED
    BY <1>1, <1>2, <2>1, <2>4, NumberTells
<1> QED
  BY <1>3 DEF NoNumber

LEMMA NoNumberStep ==
  ASSUME StateOK, NoNumberOK, NumbersTell, [Next]_vars
  PROVE  NoNumberOK'
<1> SUFFICES ASSUME step' \in WalkSteps PROVE NoNumber(mode, began.pos)'
  BY DEF NoNumberOK
<1>1. UNCHANGED vars \/ GoesOn
  BY StepIs DEF Call, NextCached, SkipSpace, EndOfText, Emits, Croaks, Emit, Returns, Goes, WalkSteps
<1>2. UNCHANGED <<text, lexCtx, began>>
  BY <1>1 DEF vars, input, context, GoesOn
<1>3. NoNumber(mode, began.pos)
  <2>1. CASE step \in WalkSteps
    BY <2>1 DEF NoNumberOK
  <2>2. CASE step \notin WalkSteps
    <3>1. step = "reader" /\ step' # step
      BY <1>1, <2>2 DEF vars, GoesOn, ReadingSteps, WalkSteps
    <3>2. Dispatch
      BY <3>1 DEF vars, Next, ReadStep, Call, NextCached, SkipSpace, EndOfText, AskReaders, Take, Emit,
                  LexCroak, Returns, KeywordWord, KeywordAstray, KeywordEnds, ReadIdentifier,
                  PunctuationChar, PunctuationEnds, Unexpected, Crashed, WalkSteps
    <3> QED
      BY <3>2, DispatchTells
  <2> QED
    BY <2>1, <2>2
<1>4. mode' = mode /\ began' = began
  BY <1>2 DEF mode
<1>5. NoNumber(mode, began.pos)' <=> NoNumber(mode', began'.pos)
  BY <1>2, <1>4 DEF NoNumber, NumberEnds, IsNumber, IsRadix, IsDecimal, AreDigits, Char, mode
<1> QED
  BY <1>3, <1>4, <1>5

LEMMA NumberIsMade ==
  ASSUME StateOK, NoNumberOK, ReadersHaveOwnTypes, TypesTell, NumbersTell, Next,
         NEW item, IsNew(item), items' = Append(items, item)
  PROVE  NumberOK(item)
<1>1. FeedOK /\ lexCtx.mode \in Modes /\ item.mode = lexCtx.mode /\ item.from = began.pos
  BY DEF StateOK, ContextOK, IsNew
<1>2. ASSUME NEW r \in MakersOf(item, "number")
      PROVE  NumberReads(r, item.from, item.to, item.value)
  <2>1. Answers(r, item) /\ at.pos = item.from /\ Reading
    BY MakerAnswers
  <2>2. /\ r.kind = "number" /\ r \in NumberReader /\ r.leading \subseteq r.points /\ PartsTell(r)
    BY <1>1, NumberReaders DEF MakersOf, mode
  <2>3. number(r) = Token(item.type, item.value, item.start.pos, item.end.pos, item.to)
    BY <2>1, <2>2 DEF Answers, readBy
  <2>4. number(r) # Null
    BY <2>3 DEF Token, Null
  <2>5. PICK value, to : number(r) = Spanning(r, value, to) /\ NumberReads(r, at.pos, to, value)
    BY <2>1, <2>2, <2>4, NumberTells
  <2>6. item.value = value /\ item.to = to
    BY <2>3, <2>5 DEF Spanning, Token
  <2> QED
    BY <2>1, <2>5, <2>6
<1>3. ASSUME item.type \in {"kw", "ident", "punc", "unexpected"}
      PROVE  NoNumber(Mode[item.mode], item.from)
  <2>1. ~AskReaders
    <3>1. ASSUME AskReaders, NEW other, items' = Append(items, other),
                 other.type \in MadeTypes \cup {"unterminated"}
          PROVE  FALSE
      <4>1. item = other
        BY <1>1, <3>1, MadeIs
      <4> QED
        BY <1>3, <3>1, <4>1, MadeTypesAreTypes, LexerAssumption DEF ReadersHaveOwnTypes
    <3>2. ASSUME AskReaders PROVE ReaderEmits \/ ReaderCroaks
      BY <3>2, MadeBy DEF StateOK, ContextOK, StandOK, AskReaders
    <3> QED
      BY <3>1, <3>2 DEF ReaderEmits, ReaderCroaks, Emit
  <2>2. /\ Len(items') = Len(items) + 1 /\ Len(items) \in Nat /\ items' # items
    BY <1>1, ItemsGrow DEF IsNew
  <2>3. KeywordEnds \/ PunctuationEnds \/ ReadIdentifier \/ Unexpected
    BY <2>1, <2>2 DEF Next, ReadStep, vars, feed, Call, NextCached, SkipSpace, EndOfText, Dispatch,
                KeywordWord, KeywordAstray, PunctuationChar, Walks, Crashed
  <2>4. step \in WalkSteps
    BY <2>3 DEF KeywordEnds, PunctuationEnds, ReadIdentifier, Unexpected, WalkSteps
  <2> QED
    BY <1>1, <2>4 DEF NoNumberOK, mode
<1> QED
  BY <1>2, <1>3 DEF NumberOK

LEMMA NumberStep ==
  ASSUME StateOK, NoNumberOK, NumbersOK, ReadersHaveOwnTypes, TypesTell, NumbersTell, [Next]_vars
  PROVE  NumbersOK'
<1>1. CASE UNCHANGED <<text, items>>
  BY <1>1, NumberStays DEF NumbersOK
<1>2. ASSUME NEW item, IsNew(item), items' = Append(items, item), Next, UNCHANGED text
      PROVE  NumbersOK'
  <2>1. NumberOK(item)
    BY <1>2, NumberIsMade
  <2>2. /\ Len(items) \in Nat /\ Len(items') = Len(items) + 1 /\ items'[Len(items) + 1] = item
        /\ \A i \in 1..Len(items) : items'[i] = items[i]
    BY <1>2, ItemsGrow DEF StateOK, IsNew
  <2>3. ASSUME NEW i \in 1..Len(items') PROVE NumberOK(items'[i])
    BY <2>1, <2>2, <2>3 DEF NumbersOK
  <2>4. \A item_ : NumberOK(item_)' <=> NumberOK(item_)
    BY <1>2, NumberStays
  <2> QED
    BY <2>3, <2>4 DEF NumbersOK
<1> QED
  BY <1>1, <1>2, StepMakes

\* lexer.ts: the number reader goes back over the lead of every part that no
\* digits follow, and what it has then is the longest number of the text there,
\* in any form; where the text has one, no word or punctuation is read instead:
\* of any number readers whose parts differ in their characters, on any text.
THEOREM NumbersAreRead ==
  ASSUME ReadersHaveOwnTypes, TypesTell, NumbersTell
  PROVE  Spec => []NumbersAreLongest
<1>1. Init => NoNumberOK /\ NumbersOK
  BY DEF Init, NoNumberOK, NumbersOK, WalkSteps
<1>2. StateOK /\ NoNumberOK /\ NumbersOK /\ [Next]_vars => NoNumberOK' /\ NumbersOK'
  BY NoNumberStep, NumberStep
<1>3. NumbersOK => NumbersAreLongest
  BY DEF NumbersOK, NumberOK, NumberReads, NoNumber, NumbersAreLongest
<1> QED
  BY <1>1, <1>2, <1>3, StateInvariance, PTL DEF Spec
================================================================================
