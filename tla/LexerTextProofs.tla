---------------------------- MODULE LexerTextProofs ----------------------------
(***************************************************************************)
(* What the token stream feeds its reader and what it makes of a text. The *)
(* stream implements the abstract cursor: peek reveals the tokens of a text*)
(* and next consumes them, each once and in order, whatever the definition *)
(* of the lexer and the text are. The state keeps its types, every place it*)
(* counts is true, the items tile the text, its context is that of the     *)
(* tokens it has made, and the walk of a trie finds the longest entry that *)
(* the text has where it began.                                            *)
(***************************************************************************)
EXTENDS Lexer, ReaderProofs, FiniteSetTheorems

-------------------------------------------------------------------------------
(* The feed.                                                               *)

\* Nothing is asked of what an item is made of, only that there are items.
IsItems == \E S : items \in Seq(S)

\* The stream keeps at most one token that next has not returned, and lexes
\* only when it keeps none.
FeedInv ==
  /\ IsItems
  /\ produced \in Seq(Nat \ {0}) /\ delivered \in Seq(Nat \ {0}) /\ current \in Nat
  /\ \A i \in 1..Len(produced) : produced[i] <= Len(items)
  /\ \A i \in 1..Len(delivered) : delivered[i] = produced[i]
  /\ current = 0 => Len(produced) = Len(delivered)
  /\ current # 0 => /\ Len(produced) = Len(delivered) + 1
                    /\ current = produced[Len(produced)]
  /\ step # "idle" => current = 0

-------------------------------------------------------------------------------
(* The steps, as far as the tokens are concerned.                          *)

\* The lexer reads on, or returns null.
Reads == UNCHANGED feed /\ (step' = "idle" \/ step # "idle" \/ current = 0)

\* It has read an error.
Errs ==
  /\ step # "idle" /\ step' = "idle"
  /\ \E item : items' = Append(items, item)
  /\ UNCHANGED <<produced, current, delivered>>

\* It has read a token.
Makes ==
  /\ step # "idle" /\ step' = "idle"
  /\ \E item : items' = Append(items, item)
  /\ produced' = Append(produced, Len(items) + 1)
  /\ Hand

\* next returns what peek has cached.
Returned ==
  /\ step = "idle" /\ step' = "idle"
  /\ current # 0
  /\ delivered' = Append(delivered, current)
  /\ current' = 0
  /\ UNCHANGED <<items, produced>>

LEMMA EmitMakes ==
  ASSUME NEW token, step # "idle", Emit(token)
  PROVE  Makes
BY DEF Emit, Makes, Returns

LEMMA CroakErrs ==
  ASSUME NEW type, NEW start, NEW end, step # "idle", LexCroak(type, start, end)
  PROVE  Errs
BY DEF LexCroak, Errs, Returns

LEMMA StepKinds ==
  ASSUME [Next]_vars
  PROVE  Reads \/ Errs \/ Makes \/ Returned
<1>1. CASE UNCHANGED vars \/ Crashed
  BY <1>1 DEF vars, feed, Crashed, Reads
<1>2. CASE Call
  BY <1>2 DEF Call, Reads
<1>3. CASE NextCached
  BY <1>3 DEF NextCached, Returned
<1>4. CASE SkipSpace \/ EndOfText \/ Dispatch \/ KeywordWord \/ KeywordAstray \/ PunctuationChar
  BY <1>4 DEF SkipSpace, EndOfText, Dispatch, KeywordWord, KeywordAstray, PunctuationChar,
              Walks, Reads
<1>5. CASE AskReaders
  BY <1>5, EmitMakes, CroakErrs DEF AskReaders, Take
<1>6. CASE KeywordEnds
  BY <1>6, EmitMakes DEF KeywordEnds, EndWalk, Goes, Reads
<1>7. CASE PunctuationEnds
  BY <1>7, EmitMakes DEF PunctuationEnds, EndWalk, Goes, Reads
<1>8. CASE ReadIdentifier
  BY <1>8, EmitMakes DEF ReadIdentifier
<1>9. CASE Unexpected
  BY <1>9, CroakErrs DEF Unexpected
<1> QED
  BY <1>1, <1>2, <1>3, <1>4, <1>5, <1>6, <1>7, <1>8, <1>9 DEF Next, ReadStep

-------------------------------------------------------------------------------
LEMMA OneMoreItem ==
  ASSUME IsItems, NEW item, items' = Append(items, item)
  PROVE  IsItems' /\ Len(items) \in Nat /\ Len(items') = Len(items) + 1
<1>1. PICK S : items \in Seq(S)
  BY DEF IsItems
<1>2. items \in Seq(S \cup {item}) /\ item \in S \cup {item}
  BY <1>1
<1>3. items' \in Seq(S \cup {item})
  BY <1>2
<1>4. Len(items') = Len(items) + 1 /\ Len(items) \in Nat
  BY <1>2
<1> QED
  BY <1>3, <1>4 DEF IsItems

\* A step that makes a token keeps the invariant.
LEMMA MakesKeeps ==
  ASSUME FeedInv, Makes
  PROVE  FeedInv'
<1>1. current = 0 /\ Len(produced) = Len(delivered)
  BY DEF FeedInv, Makes
<1>2. IsItems' /\ Len(items) \in Nat /\ Len(items') = Len(items) + 1
  BY OneMoreItem DEF FeedInv, Makes
<1>3. /\ produced' \in Seq(Nat \ {0}) /\ Len(produced') = Len(produced) + 1
      /\ produced'[Len(produced')] = Len(items) + 1
      /\ \A i \in 1..Len(produced) : produced'[i] = produced[i]
  BY <1>2 DEF FeedInv, Makes
<1>4. \A i \in 1..Len(produced') : produced'[i] <= Len(items')
  <2> SUFFICES ASSUME NEW i \in 1..Len(produced') PROVE produced'[i] <= Len(items')
    OBVIOUS
  <2>1. Len(produced) \in Nat /\ \A j \in 1..Len(produced) : produced[j] \in Nat
    BY DEF FeedInv
  <2>2. CASE i \in 1..Len(produced)
    <3>1. produced[i] <= Len(items) /\ produced[i] \in Nat
      BY <2>1, <2>2 DEF FeedInv
    <3>2. produced'[i] = produced[i]
      BY <1>3, <2>2
    <3> QED
      BY <1>2, <3>1, <3>2
  <2>3. CASE i = Len(produced')
    BY <1>2, <1>3, <2>3
  <2> QED
    BY <1>3, <2>1, <2>2, <2>3
<1>5. CASE call = "peek"
  <2>1. current' = Len(items) + 1 /\ delivered' = delivered /\ step' = "idle"
    BY <1>5 DEF Makes, Hand
  <2> QED
    BY <1>1, <1>2, <1>3, <1>4, <2>1 DEF FeedInv
<1>6. CASE call # "peek"
  <2>1. current' = 0 /\ delivered' = Append(delivered, Len(items) + 1) /\ step' = "idle"
    BY <1>1, <1>6 DEF Makes, Hand
  <2>2. /\ delivered' \in Seq(Nat \ {0}) /\ Len(delivered') = Len(delivered) + 1
        /\ delivered'[Len(delivered')] = Len(items) + 1
        /\ \A i \in 1..Len(delivered) : delivered'[i] = delivered[i]
    BY <1>2, <2>1 DEF FeedInv
  <2>3. \A i \in 1..Len(delivered') : delivered'[i] = produced'[i]
    <3> SUFFICES ASSUME NEW i \in 1..Len(delivered') PROVE delivered'[i] = produced'[i]
      OBVIOUS
    <3>1. Len(delivered) \in Nat
      BY DEF FeedInv
    <3>2. CASE i \in 1..Len(delivered)
      BY <1>1, <1>3, <2>2, <3>2 DEF FeedInv
    <3>3. CASE i = Len(delivered')
      BY <1>1, <1>3, <2>2, <3>3
    <3> QED
      BY <2>2, <3>1, <3>2, <3>3
  <2> QED
    BY <1>1, <1>2, <1>3, <1>4, <2>1, <2>2, <2>3 DEF FeedInv
<1> QED
  BY <1>5, <1>6

LEMMA FeedStep ==
  ASSUME FeedInv, [Next]_vars
  PROVE  FeedInv'
<1>1. CASE Reads
  <2>1. items' = items /\ produced' = produced /\ delivered' = delivered /\ current' = current
    BY <1>1 DEF Reads, feed
  <2>2. IsItems' /\ (step' # "idle" => current' = 0)
    BY <1>1, <2>1 DEF Reads, FeedInv, IsItems
  <2> QED
    BY <2>1, <2>2 DEF FeedInv
<1>2. CASE Errs
  <2>1. IsItems' /\ Len(items) \in Nat /\ Len(items') = Len(items) + 1
    BY <1>2, OneMoreItem DEF FeedInv, Errs
  <2>2. produced' = produced /\ delivered' = delivered /\ current' = current /\ step' = "idle"
    BY <1>2 DEF Errs
  <2>3. \A i \in 1..Len(produced') : produced'[i] <= Len(items')
    BY <2>1, <2>2 DEF FeedInv
  <2> QED
    BY <2>1, <2>2, <2>3 DEF FeedInv
<1>3. CASE Makes
  BY <1>3, MakesKeeps
<1>4. CASE Returned
  <2>1. /\ items' = items /\ produced' = produced /\ current' = 0 /\ step' = "idle"
        /\ current # 0 /\ delivered' = Append(delivered, current)
    BY <1>4 DEF Returned
  <2>2. /\ delivered' \in Seq(Nat \ {0}) /\ Len(delivered') = Len(delivered) + 1
        /\ delivered'[Len(delivered')] = current
        /\ \A i \in 1..Len(delivered) : delivered'[i] = delivered[i]
    BY <2>1 DEF FeedInv
  <2>3. \A i \in 1..Len(delivered') : delivered'[i] = produced'[i]
    BY <2>1, <2>2 DEF FeedInv
  <2>4. IsItems'
    BY <2>1 DEF FeedInv, IsItems
  <2> QED
    BY <2>1, <2>2, <2>3, <2>4 DEF FeedInv
<1> QED
  BY <1>1, <1>2, <1>3, <1>4, StepKinds

\* At most one token is lexed ahead of the client, whatever it calls, and what
\* next has returned so far is a prefix of what was lexed.
THEOREM FeedInvariance == Spec => []FeedInv
<1>1. Init => FeedInv
  <2> SUFFICES ASSUME Init PROVE FeedInv
    OBVIOUS
  <2>1. items \in Seq({})
    BY DEF Init
  <2> QED
    BY <2>1 DEF Init, FeedInv, IsItems
<1>2. FeedInv /\ [Next]_vars => FeedInv'
  BY FeedStep
<1> QED
  BY <1>1, <1>2, PTL DEF Spec

-------------------------------------------------------------------------------
LEMMA FeedMoves ==
  ASSUME FeedInv, [Next]_vars
  PROVE  [Feed!Next]_(Feed!vars)
<1> USE DEF Feed!Next, Feed!vars, Feed!Reveal, Feed!Consume, Feed!Grows
<1>1. CASE Reads \/ Errs
  BY <1>1 DEF Reads, Errs, feed
<1>2. CASE Makes
  <2>1. current = 0 /\ Len(produced) = Len(delivered)
    BY <1>2 DEF FeedInv, Makes
  <2>2. Len(items) \in Nat
    BY <1>2, OneMoreItem DEF FeedInv, Makes
  <2>3. produced' = Append(produced, Len(items) + 1)
    BY <1>2 DEF Makes
  <2>4. Feed!Grows /\ produced'[Len(delivered) + 1] = Len(items) + 1
    BY <2>1, <2>2, <2>3 DEF FeedInv
  <2>5. CASE call = "peek"
    <3>1. delivered' = delivered
      BY <1>2, <2>5 DEF Makes, Hand
    <3> QED
      BY <2>4, <3>1
  <2>6. CASE call # "peek"
    <3>1. delivered' = Append(delivered, Len(items) + 1)
      BY <1>2, <2>6 DEF Makes, Hand
    <3>2. /\ Len(delivered') = Len(delivered) + 1 /\ delivered' # <<>>
          /\ delivered'[Len(delivered')] = Len(items) + 1
      BY <2>2, <3>1 DEF FeedInv
    <3> QED
      BY <2>1, <2>4, <3>2
  <2> QED
    BY <2>5, <2>6
<1>3. CASE Returned
  <2>1. /\ produced' = produced /\ delivered' = Append(delivered, current) /\ current # 0
        /\ Len(produced) = Len(delivered) + 1 /\ current = produced[Len(produced)]
    BY <1>3 DEF Returned, FeedInv
  <2>2. /\ Len(delivered') = Len(delivered) + 1 /\ delivered' # <<>>
        /\ delivered'[Len(delivered')] = current
    BY <2>1 DEF FeedInv
  <2>3. Len(delivered) < Len(produced)
    BY <2>1 DEF FeedInv
  <2> QED
    BY <2>1, <2>2, <2>3
<1> QED
  BY <1>1, <1>2, <1>3, StepKinds

\* The token stream of any lexer, for any text and any client, implements the
\* tape that the parse context is shown to hand on to the rules: peek only
\* reveals, next consumes, and no token is lost, repeated or out of order.
THEOREM FeedRefinement == Spec => FeedSpec
<1>1. Init => Feed!Init
  BY DEF Init, Feed!Init
<1>2. FeedInv /\ [Next]_vars => [Feed!Next]_(Feed!vars)
  BY FeedMoves
<1> QED
  BY <1>1, <1>2, FeedInvariance, PTL DEF Spec, FeedSpec, Feed!Spec

-------------------------------------------------------------------------------
(* Places. What a step leaves of the text is the same text, so that what   *)
(* is said of places is said of a text and a place.                        *)

CharIn(characters, p) == IF p < Len(characters) THEN characters[p + 1] ELSE Nothing

NewLines(characters, p) == {i \in 1..p : CharIn(characters, i - 1) = NewLine}

LineStart(characters, p) ==
  CHOOSE i \in {0} \cup NewLines(characters, p) : \A j \in NewLines(characters, p) : j <= i

TruePlaces(characters) ==
  {place \in Place : /\ place.line = 1 + Cardinality(NewLines(characters, place.pos))
                     /\ place.col = place.pos - LineStart(characters, place.pos)}

LEMMA TrueIsTrue ==
  ASSUME NEW place \in Place
  PROVE  IsTrue(place) <=> place \in TruePlaces(text)
BY DEF IsTrue, TruePlaces, NewLines, LineStart, CharIn, Char

LEMMA NewLinesAreFinite ==
  ASSUME NEW characters, NEW p \in Nat
  PROVE  /\ IsFiniteSet(NewLines(characters, p))
         /\ Cardinality(NewLines(characters, p)) \in Nat
         /\ NewLines(characters, p) \subseteq 1..p
<1>1. NewLines(characters, p) \subseteq 1..p /\ IsFiniteSet(1..p)
  BY FS_Interval DEF NewLines
<1>2. IsFiniteSet(NewLines(characters, p))
  BY <1>1, FS_Subset
<1> QED
  BY <1>1, <1>2, FS_CardinalityType

LEMMA LineStartIs ==
  ASSUME NEW characters, NEW p \in Nat
  PROVE  LineStart(characters, p) \in Nat
<1> DEFINE starts == {0} \cup NewLines(characters, p)
<1>1. starts \subseteq 0..p /\ 0 \in starts
  BY NewLinesAreFinite
<1>2. \E i \in starts : \A j \in starts : j <= i
  <2> HIDE DEF starts
  <2> QED
    BY <1>1, Greatest
<1>3. \E i \in starts : \A j \in NewLines(characters, p) : j <= i
  BY <1>2
<1>4. LineStart(characters, p) \in starts
  BY <1>3 DEF LineStart
<1> HIDE DEF starts
<1>5. LineStart(characters, p) \in 0..p
  BY <1>1, <1>4, Zenon
<1> QED
  BY <1>5

LEMMA OriginIsTrue ==
  ASSUME NEW characters
  PROVE  Origin \in TruePlaces(characters)
<1>1. NewLines(characters, 0) = {}
  BY DEF NewLines
<1>2. Cardinality(NewLines(characters, 0)) = 0
  BY <1>1, FS_EmptySet
<1>3. LineStart(characters, 0) = 0
  BY <1>1 DEF LineStart
<1> QED
  BY <1>2, <1>3 DEF Origin, TruePlaces, Place

LEMMA PassedIsTrue ==
  ASSUME NEW place \in TruePlaces(text)
  PROVE  Passed(place) \in TruePlaces(text) /\ Passed(place).pos = place.pos + 1
<1> DEFINE p == place.pos
           before == NewLines(text, p)
           behind == NewLines(text, p + 1)
<1>1. /\ p \in Nat /\ place \in Place
      /\ place.line = 1 + Cardinality(before) /\ place.col = p - LineStart(text, p)
  BY DEF TruePlaces, Place
<1>2. CASE Char(p) = NewLine
  <2>1. behind = before \cup {p + 1} /\ p + 1 \notin before
    BY <1>1, <1>2 DEF NewLines, CharIn, Char
  <2>2. Cardinality(behind) = Cardinality(before) + 1
    BY <1>1, <2>1, NewLinesAreFinite, FS_AddElement
  <2>3. LineStart(text, p + 1) = p + 1
    <3>1. \A j \in behind : j <= p + 1 /\ j \in Nat
      BY <1>1, NewLinesAreFinite
    <3>2. p + 1 \in behind
      BY <2>1
    <3> HIDE DEF behind
    <3>3. \A i \in {0} \cup behind : (\A j \in behind : j <= i) => i = p + 1
      BY <1>1, <3>1, <3>2
    <3>4. p + 1 \in {0} \cup behind /\ \A j \in behind : j <= p + 1
      BY <3>1, <3>2
    <3>5. LineStart(text, p + 1) = CHOOSE i \in {0} \cup behind : \A j \in behind : j <= i
      BY DEF LineStart, behind
    <3> QED
      BY <3>3, <3>4, <3>5
  <2>4. Passed(place) = [pos |-> p + 1, line |-> place.line + 1, col |-> 0]
    BY <1>2 DEF Passed
  <2>5. Passed(place) \in Place
    BY <1>1, <2>4 DEF Place
  <2> QED
    BY <1>1, <2>2, <2>3, <2>4, <2>5, NewLinesAreFinite DEF TruePlaces, Place
<1>3. CASE Char(p) # NewLine
  <2>1. behind = before
    BY <1>1, <1>3 DEF NewLines, CharIn, Char
  <2>2. LineStart(text, p + 1) = LineStart(text, p)
    BY <2>1 DEF LineStart
  <2>3. Passed(place) = [pos |-> p + 1, line |-> place.line, col |-> place.col + 1]
    BY <1>1, <1>3 DEF Passed, Place
  <2>4. /\ Passed(place) \in Place /\ Passed(place).pos = p + 1
        /\ Passed(place).line = place.line /\ Passed(place).col = place.col + 1
    BY <1>1, <2>3 DEF Place
  <2>5. LineStart(text, p) \in Nat
    BY <1>1, LineStartIs
  <2> QED
    BY <1>1, <2>1, <2>2, <2>4, <2>5 DEF TruePlaces
<1> QED
  BY <1>2, <1>3

LEMMA MovedIsTrue ==
  ASSUME NEW place \in TruePlaces(text), NEW n \in Nat
  PROVE  Moved(place, n) \in TruePlaces(text) /\ Moved(place, n).pos = place.pos + n
<1> DEFINE D == 0..n
           V == TruePlaces(text)
           Right(f) == [k \in D |-> IF k = 0 THEN place ELSE Passed(f[k - 1])]
           step_ == [f \in [D -> V] |-> Right(f)]
           to == CHOOSE f : f = Right(f)
           Good == {k \in D : to[k] \in V /\ to[k].pos = place.pos + k}
<1>1. /\ IsRange(D, n) /\ n \in D /\ V # {} /\ place \in V /\ place.pos \in Nat
      /\ \A k \in D : k \in Nat /\ (k # 0 => k - 1 \in D /\ k - 1 < k)
  BY DEF IsRange, TruePlaces, Place
<1>2. \A v \in V : Passed(v) \in V /\ Passed(v).pos = v.pos + 1
  BY PassedIsTrue
<1>3. Moved(place, n) = to[n]
  BY DEF Moved
<1> HIDE DEF V
<1>4. \E f \in [D -> V] : f = step_[f]
  <2>1. IsStep(D, V, step_)
    <3>1. ASSUME NEW f \in [D -> V] PROVE Right(f) \in [D -> V]
      BY <1>1, <1>2
    <3> QED
      BY <3>1 DEF IsStep
  <2>2. LooksBack(D, V, step_)
    <3>1. ASSUME NEW f \in [D -> V], NEW g \in [D -> V], NEW k \in D,
                 \A j \in D : j < k => f[j] = g[j]
          PROVE  step_[f][k] = step_[g][k]
      <4>1. k # 0 => f[k - 1] = g[k - 1]
        BY <1>1, <3>1
      <4> QED
        BY <4>1
    <3> QED
      BY <3>1 DEF LooksBack
  <2> HIDE DEF D, step_
  <2> QED
    BY <1>1, <2>1, <2>2, Upward
<1>5. \A k \in D : to[k] = IF k = 0 THEN place ELSE Passed(to[k - 1])
  <2>1. to = Right(to)
    BY <1>4
  <2> QED
    BY <2>1
<1> HIDE DEF to
<1>6. ASSUME NEW k \in D, \A j \in D : j < k => j \in Good PROVE k \in Good
  <2>1. CASE k = 0
    BY <1>1, <1>5, <1>6, <2>1
  <2>2. CASE k # 0
    <3>1. k - 1 \in Good /\ to[k] = Passed(to[k - 1])
      BY <1>1, <1>5, <1>6, <2>2
    <3>2. to[k] \in V /\ to[k].pos = place.pos + (k - 1) + 1
      BY <1>2, <3>1
    <3> QED
      BY <1>1, <1>6, <2>2, <3>2
  <2> QED
    BY <2>1, <2>2
<1>7. D \subseteq Good
  <2>1. \A k \in D : (\A j \in D : j < k => j \in Good) => k \in Good
    BY <1>6
  <2> HIDE DEF Good, D
  <2> QED
    BY <1>1, <2>1, UpInduction
<1> QED
  BY <1>1, <1>3, <1>7 DEF V

-------------------------------------------------------------------------------
(* The table of the lexer.                                                 *)

LEMMA ModeIs ==
  ASSUME NEW name \in Modes
  PROVE  /\ Mode[name].space \subseteq Chars /\ Mode[name].part \subseteq Chars
         /\ Mode[name].start \subseteq Mode[name].part
         /\ \A entry \in Mode[name].keywords : entry \in Seq(Seq(Chars)) /\ entry # <<>>
         /\ \A entry \in Mode[name].punctuation : entry \in Seq(Chars) /\ entry # <<>>
         /\ Len(Mode[name].readers) \in Nat
         /\ \A i \in 1..Len(Mode[name].readers) : IsReader(Mode[name].readers[i])
<1>1. IsMode(Mode[name])
  BY LexerAssumption
<1>2. \A entry \in Mode[name].keywords : entry \in Seq(Seq(Chars)) /\ entry # <<>>
  <2>1. \A s : s \in Seq(Mode[name].part) => s \in Seq(Chars)
    BY <1>1 DEF IsMode
  <2>2. Seq(Mode[name].part) \ {<<>>} \subseteq Seq(Chars)
    BY <2>1
  <2>3. \A entry \in Mode[name].keywords : entry \in Seq(Seq(Mode[name].part) \ {<<>>}) /\ entry # <<>>
    BY <1>1 DEF IsMode
  <2> QED
    BY <2>2, <2>3
<1> QED
  BY <1>1, <1>2 DEF IsMode

LEMMA TextIs ==
  ASSUME text \in Texts
  PROVE  TextOK /\ Len(text) \in Nat
BY LexerAssumption DEF TextOK

\* The nodes of a trie are the beginnings of its entries.
LEMMA NodeIs ==
  ASSUME NEW S, NEW entries, entries \subseteq Seq(S), NEW n \in Nodes(entries)
  PROVE  n \in Seq(S)
<1>1. PICK entry \in entries : \E k \in 0..Len(entry) : n = SubSeq(entry, 1, k)
  BY DEF Nodes
<1>2. PICK k \in 0..Len(entry) : n = SubSeq(entry, 1, k)
  BY <1>1
<1> QED
  BY <1>2

\* The types of the tokens that readers make.
MadeTypes == UNION {TypesOf(r) : r \in AllReaders}

LEMMA ReaderTypes ==
  ASSUME NEW name \in Modes, NEW i \in 1..Len(Mode[name].readers)
  PROVE  TypesOf(Mode[name].readers[i]) \subseteq MadeTypes
BY DEF MadeTypes, AllReaders

LEMMA MadeTypesAreTypes == MadeTypes \subseteq Types
BY DEF MadeTypes, TypesOf, Types

-------------------------------------------------------------------------------
(* The items a step may make.                                              *)

LexedItems(characters) ==
  {item \in ItemType :
     /\ item.start \in TruePlaces(characters) /\ item.end \in TruePlaces(characters)
     /\ item.from < item.to
     /\ item.from <= item.start.pos /\ item.start.pos <= item.end.pos /\ item.end.pos <= item.to}

InputOK ==
  /\ text \in Texts
  /\ at \in TruePlaces(text) /\ slot \in TruePlaces(text) /\ began \in TruePlaces(text)

LEMMA PlaceIs ==
  ASSUME NEW place \in TruePlaces(text)
  PROVE  place \in Place /\ place.pos \in Nat
BY DEF TruePlaces, Place

LEMMA ItemIs ==
  ASSUME NEW type \in Types \cup {"unexpected", "unterminated"},
         NEW value \in Seq(Chars) \cup Seq(Seq(Chars)),
         NEW start \in TruePlaces(text), NEW end \in TruePlaces(text), NEW to \in TruePlaces(text),
         began \in TruePlaces(text), lexCtx.mode \in Modes,
         began.pos <= start.pos, start.pos <= end.pos, end.pos <= to.pos, began.pos < to.pos
  PROVE  /\ Item(type, value, start, end, to) \in LexedItems(text)
         /\ Item(type, value, start, end, to).type = type
         /\ Item(type, value, start, end, to).value = value
         /\ Item(type, value, start, end, to).from = began.pos
         /\ Item(type, value, start, end, to).to = to.pos
         /\ Item(type, value, start, end, to).mode = lexCtx.mode
<1>1. start \in Place /\ end \in Place /\ began.pos \in Nat /\ to.pos \in Nat
  BY PlaceIs
<1>2. Item(type, value, start, end, to) =
        [type |-> type, value |-> value, start |-> start, end |-> end,
         from |-> began.pos, to |-> to.pos, mode |-> lexCtx.mode]
  BY DEF Item
<1> QED
  BY <1>1, <1>2 DEF LexedItems, ItemType

\* What an error consumed.
LEMMA CroakIs ==
  ASSUME NEW type \in {"unexpected", "unterminated"}, NEW nothing \in Seq(Chars),
         NEW start \in TruePlaces(text), NEW end \in TruePlaces(text),
         began \in TruePlaces(text), lexCtx.mode \in Modes,
         began.pos <= start.pos, start.pos <= end.pos, began.pos < end.pos
  PROVE  /\ Item(type, nothing, start, end, end) \in LexedItems(text)
         /\ Item(type, nothing, start, end, end).type = type
         /\ Item(type, nothing, start, end, end).from = began.pos
         /\ Item(type, nothing, start, end, end).to = end.pos
         /\ Item(type, nothing, start, end, end).mode = lexCtx.mode
<1>1. /\ start \in Place /\ end \in Place /\ began.pos \in Nat
      /\ start.pos \in Nat /\ end.pos \in Nat
  BY PlaceIs
<1>2. Item(type, nothing, start, end, end) =
        [type |-> type, value |-> nothing, start |-> start, end |-> end,
         from |-> began.pos, to |-> end.pos, mode |-> lexCtx.mode]
  BY DEF Item
<1> QED
  BY <1>1, <1>2 DEF LexedItems, ItemType

LEMMA PlaceAtIs ==
  ASSUME at \in TruePlaces(text), NEW p \in Nat, at.pos <= p
  PROVE  PlaceAt(p) \in TruePlaces(text) /\ PlaceAt(p).pos = p
<1> DEFINE n == p - at.pos
<1>1. at.pos \in Nat /\ n \in Nat /\ at.pos + n = p
  BY PlaceIs
<1>2. PlaceAt(p) = Moved(at, n)
  BY DEF PlaceAt
<1> HIDE DEF n
<1> QED
  BY <1>1, <1>2, MovedIsTrue

\* What the readers of the mode answer together.
IsMade(result) ==
  \E type \in MadeTypes, value \in Seq(Chars), start, end, to \in Nat :
    result = Token(type, value, start, end, to) /\ IsSpan(start, end, to)

LEMMA AnswerIs ==
  ASSUME InputOK, lexCtx.mode \in Modes, ~Eof
  PROVE  Answer = Null \/ IsMade(Answer) \/ IsError(Answer)
<1> DEFINE readers == mode.readers
           last == LastType(lexCtx.lastToken)
           answers == [i \in 1..Len(readers) |-> readBy(readers[i], last)]
           given == {i \in 1..Len(answers) : answers[i] # Null}
<1>1. Reading
  BY TextIs, PlaceIs DEF InputOK, Reading
<1>2. Answer = FirstOf(answers)
  BY DEF Answer
<1>3. FirstOf(answers) = IF given = {} THEN Null
                         ELSE answers[CHOOSE i \in given : \A j \in given : i <= j]
  BY DEF FirstOf
<1>4. ASSUME given # {}
      PROVE  (CHOOSE i \in given : \A j \in given : i <= j) \in given
  <2>1. given \subseteq Nat
    OBVIOUS
  <2> HIDE DEF given
  <2>2. \E i \in given : \A j \in given : i <= j
    BY <1>4, <2>1, Least
  <2> QED
    BY <2>2
<1>5. ASSUME NEW i \in given
      PROVE  IsMade(answers[i]) \/ IsError(answers[i])
  <2>1. Len(readers) \in Nat
    BY ModeIs DEF mode
  <2>2. i \in 1..Len(readers) /\ answers[i] # Null /\ answers[i] = readBy(readers[i], last)
    BY <2>1
  <2> DEFINE r == readers[i]
  <2>3. IsReader(r) /\ TypesOf(r) \subseteq MadeTypes
    BY <2>2, ModeIs, ReaderTypes DEF mode
  <2>4. IsAnswer(r, readBy(r, last))
    BY <1>1, <2>3, ReadersAnswer
  <2>5. IsToken(r, answers[i]) \/ IsError(answers[i])
    BY <2>2, <2>4 DEF IsAnswer
  <2>6. IsToken(r, answers[i]) => IsMade(answers[i])
    BY <2>3, Zenon DEF IsToken, IsMade
  <2> QED
    BY <2>5, <2>6
<1> QED
  BY <1>2, <1>3, <1>4, <1>5

-------------------------------------------------------------------------------
(* The steps, as far as the text is concerned.                             *)

ReadingSteps == {"reader", "keyword", "identifier", "punctuation", "unexpected", "crashed"}

\* A mode is never left without a name, nor the stack without a mode.
ContextOK ==
  /\ modeStack \in Seq(Modes) \ {<<>>}
  /\ lexCtx \in [lastToken : 0..Len(items), lastMode : Modes, mode : Modes]

FeedOK ==
  /\ items \in Seq(LexedItems(text))
  /\ produced \in Seq(1..Len(items)) /\ delivered \in Seq(1..Len(items))
  /\ current \in 0..Len(items)

ControlOK ==
  /\ call \in {"none", "peek", "next"}
  /\ step \in {"idle", "space"} \cup ReadingSteps
  /\ call = "none" <=> step = "idle"

WalkOK ==
  /\ node \in Seq(Chars) \cup Seq(Seq(Chars))
  /\ found \in Seq(Chars) \cup Seq(Seq(Chars))

\* Where the stream stands: a walk that has found nothing can go back to where
\* the whitespace ended, one that has found an entry to behind it.
StandOK ==
  /\ step \in {"reader", "identifier", "unexpected"} => at = began
  /\ step \in {"keyword", "punctuation"} =>
       /\ began.pos <= at.pos
       /\ IF found = <<>> THEN slot = began ELSE began.pos < slot.pos
  /\ step \in {"keyword", "identifier"} => Char(began.pos) \in mode.start
  /\ step = "keyword" => at.pos <= Len(text) /\ slot.pos <= Len(text)

\* An item that this call makes, and where it leaves the stream.
IsNew(item) ==
  /\ item \in LexedItems(text) /\ item.from = began.pos /\ item.mode = lexCtx.mode
  /\ at' \in TruePlaces(text) /\ at'.pos = item.to
  /\ step \in ReadingSteps
  /\ UNCHANGED <<text, slot, began, walk>>

Emits == \E token : IsNew(token) /\ token.type \in Types /\ Emit(token)

Croaks ==
  \E item :
    /\ IsNew(item) /\ item.type \notin Types
    /\ items' = Append(items, item)
    /\ UNCHANGED <<produced, current, delivered, context>>
    /\ Returns

\* The call goes on, and nothing is made yet.
GoesOn ==
  /\ step \in ReadingSteps /\ step' \in ReadingSteps
  /\ UNCHANGED <<text, context, feed, call, began>>
  /\ at' \in TruePlaces(text) /\ slot' \in TruePlaces(text)
  /\ WalkOK' /\ StandOK'

\* What the readers make.
ReaderEmits == \E token : IsNew(token) /\ token.type \in MadeTypes /\ Emit(token)

ReaderCroaks ==
  \E item :
    /\ IsNew(item) /\ item.type = "unterminated"
    /\ items' = Append(items, item)
    /\ UNCHANGED <<produced, current, delivered, context>>
    /\ Returns

LEMMA MadeBy ==
  ASSUME InputOK, lexCtx.mode \in Modes, step = "reader", at = began, AskReaders
  PROVE  ReaderEmits \/ ReaderCroaks
<1> DEFINE result == Answer
<1>1. result # Null
  BY DEF AskReaders, Take, Null
<1>2. IsMade(result) \/ IsError(result)
  BY <1>1, AnswerIs DEF AskReaders
<1>3. CASE IsMade(result)
  <2>1. PICK type \in MadeTypes, value \in Seq(Chars), start \in Nat, end \in Nat, to \in Nat :
          result = Token(type, value, start, end, to) /\ IsSpan(start, end, to)
    BY <1>3, Zenon DEF IsMade
  <2> HIDE DEF result
  <2>2. /\ result.is = "token" /\ result.type = type /\ result.value = value
        /\ result.start = start /\ result.end = end /\ result.to = to
    BY <2>1 DEF Token
  <2> DEFINE token == Item(type, value, PlaceAt(start), PlaceAt(end), PlaceAt(to))
  <2>3. /\ Emit(token)
        /\ at' = PlaceAt(to) /\ UNCHANGED <<text, slot, began, walk>>
    BY <2>2 DEF AskReaders, Take, ReadTo, result
  <2>4. /\ start \in Nat /\ end \in Nat /\ to \in Nat
        /\ at.pos <= start /\ start <= end /\ end <= to /\ at.pos < to /\ at.pos \in Nat
    BY <2>1, PlaceIs DEF IsSpan, InputOK
  <2>5. /\ PlaceAt(start) \in TruePlaces(text) /\ PlaceAt(start).pos = start
        /\ PlaceAt(end) \in TruePlaces(text) /\ PlaceAt(end).pos = end
        /\ PlaceAt(to) \in TruePlaces(text) /\ PlaceAt(to).pos = to
    BY <2>4, PlaceAtIs DEF InputOK
  <2>6. IsNew(token) /\ token.type \in MadeTypes
    <3>1. type \in Types
      BY MadeTypesAreTypes
    <3>2. /\ token \in LexedItems(text) /\ token.type = type
          /\ token.from = began.pos /\ token.to = PlaceAt(to).pos /\ token.mode = lexCtx.mode
      BY <2>1, <2>4, <2>5, <3>1, ItemIs DEF InputOK
    <3> QED
      BY <2>3, <2>5, <3>2 DEF IsNew, ReadingSteps
  <2> QED
    BY <2>3, <2>6 DEF ReaderEmits
<1>5. \A nothing \in Seq(Chars), start, end \in TruePlaces(text) :
        began.pos <= start.pos /\ start.pos <= end.pos /\ began.pos < end.pos
        => LET item == Item("unterminated", nothing, start, end, end)
           IN  /\ item \in LexedItems(text) /\ item.type = "unterminated"
               /\ item.from = began.pos /\ item.to = end.pos /\ item.mode = lexCtx.mode
  BY CroakIs DEF InputOK
<1>4. CASE IsError(result)
  <2>1. PICK start \in Nat, to \in Nat :
          result = Unterminated(start, to) /\ IsSpan(start, to, to)
    BY <1>4, Zenon DEF IsError
  <2> HIDE DEF result
  <2>2. result.is = "croak" /\ result.start = start /\ result.to = to
    BY <2>1 DEF Unterminated
  <2> PICK nothing : nothing = <<>>
    OBVIOUS
  <2> DEFINE item == Item("unterminated", nothing, PlaceAt(start), PlaceAt(to), PlaceAt(to))
  <2>3. /\ LexCroak("unterminated", PlaceAt(start), PlaceAt(to))
        /\ at' = PlaceAt(to) /\ UNCHANGED <<text, slot, began, walk>>
    BY <2>2 DEF AskReaders, Take, ReadTo, result
  <2>4. /\ start \in Nat /\ to \in Nat
        /\ at.pos <= start /\ start <= to /\ at.pos < to /\ at.pos \in Nat
    BY <2>1, PlaceIs DEF IsSpan, InputOK
  <2>5. /\ PlaceAt(start) \in TruePlaces(text) /\ PlaceAt(start).pos = start
        /\ PlaceAt(to) \in TruePlaces(text) /\ PlaceAt(to).pos = to
    BY <2>4, PlaceAtIs DEF InputOK
  <2>6. /\ item \in LexedItems(text) /\ item.type = "unterminated"
        /\ item.from = began.pos /\ item.to = PlaceAt(to).pos /\ item.mode = lexCtx.mode
    <3>1. /\ began.pos <= PlaceAt(start).pos /\ PlaceAt(start).pos <= PlaceAt(to).pos
          /\ began.pos < PlaceAt(to).pos
      BY <2>4, <2>5
    <3>2. nothing \in Seq(Chars)
      OBVIOUS
    <3>3. /\ PlaceAt(start) \in TruePlaces(text) /\ PlaceAt(to) \in TruePlaces(text)
          /\ PlaceAt(to).pos = to
      BY <2>5
    <3> QED
      BY <1>5, <3>1, <3>2, <3>3
  <2>7. IsNew(item)
    BY <2>3, <2>5, <2>6 DEF IsNew, ReadingSteps, InputOK
  <2>8. /\ items' = Append(items, item) /\ Returns
        /\ UNCHANGED <<produced, current, delivered, context>>
    BY <2>3 DEF LexCroak
  <2> QED
    BY <2>6, <2>7, <2>8 DEF ReaderCroaks
<1> QED
  BY <1>2, <1>3, <1>4

\* A word that a trie has is not empty, nor has it other characters than the text.
LEMMA WordIs ==
  ASSUME text \in Texts, NEW p \in Nat, p <= Len(text), NEW class, class \subseteq Chars
  PROVE  /\ RunOf(p, class) \in Nat /\ p + RunOf(p, class) <= Len(text)
         /\ Ahead(p, RunOf(p, class)) \in Seq(Chars)
         /\ Len(Ahead(p, RunOf(p, class))) = RunOf(p, class)
<1> DEFINE n == RunOf(p, class)
<1>1. TextOK /\ Len(text) \in Nat
  BY TextIs
<1>2. n \in Nat /\ p + n <= Len(text)
  BY <1>1, RunIs
<1> HIDE DEF n
<1>3. Ahead(p, n) \in Seq(Chars) /\ Len(Ahead(p, n)) = n
  BY <1>1, <1>2 DEF Ahead, Between, TextOK
<1> QED
  BY <1>2, <1>3 DEF n

\* The last symbol of a node is a symbol of an entry.
LEMMA SymbolIs ==
  ASSUME NEW S, NEW entries, entries \subseteq Seq(S), NEW walked, NEW T, walked \in Seq(T),
         NEW symbol, Append(walked, symbol) \in Nodes(entries)
  PROVE  symbol \in S /\ Append(walked, symbol) \in Seq(S)
<1>1. Append(walked, symbol) \in Seq(S)
  BY NodeIs
<1>2. /\ walked \in Seq(T \cup {symbol}) /\ symbol \in T \cup {symbol}
      /\ Len(Append(walked, symbol)) = Len(walked) + 1 /\ Len(walked) \in Nat
      /\ Append(walked, symbol)[Len(walked) + 1] = symbol
  OBVIOUS
<1> DEFINE n == Append(walked, symbol)
<1> HIDE DEF n
<1>3. \A i \in 1..Len(n) : n[i] \in S
  BY <1>1 DEF n
<1> QED
  BY <1>1, <1>2, <1>3 DEF n

LEMMA DispatchGoesOn ==
  ASSUME InputOK, step = "reader", at = began, Dispatch
  PROVE  GoesOn
<1>1. /\ slot' = at /\ node' = <<>> /\ found' = <<>>
      /\ UNCHANGED <<text, at, context, feed, call, began>>
  BY DEF Dispatch, StartWalk, Snapshot
<1>2. /\ step' \in {"keyword", "identifier", "punctuation", "unexpected"}
      /\ step' \in {"keyword", "identifier"} => Char(at.pos) \in mode.start
  BY DEF Dispatch, Goes
<1>3. at.pos \in Nat /\ Len(text) \in Nat /\ at.pos <= Len(text) /\ at.pos <= at.pos
  BY PlaceIs, TextIs DEF InputOK, Dispatch, Eof, Char
<1>4. WalkOK'
  <2>1. <<>> \in Seq(Chars)
    OBVIOUS
  <2> QED
    BY <1>1, <2>1 DEF WalkOK
<1>5. mode' = mode /\ Char(at.pos)' = Char(at.pos)
  BY <1>1 DEF mode, Char, context
<1>6. StandOK'
  BY <1>1, <1>2, <1>3, <1>5 DEF StandOK
<1> QED
  BY <1>1, <1>2, <1>4, <1>6 DEF GoesOn, ReadingSteps, InputOK

LEMMA WordGoesOn ==
  ASSUME InputOK, WalkOK, StandOK, lexCtx.mode \in Modes, KeywordWord
  PROVE  GoesOn
<1> DEFINE n == RunOf(at.pos, mode.part)
           to == Moved(at, Len(word))
           m == RunOf(to.pos, mode.space)
<1>1. /\ step = "keyword" /\ step' = step /\ HasChild(mode.keywords, word)
      /\ Descend(mode.keywords, word, to, m)
      /\ UNCHANGED <<text, context, feed, call, began>>
  BY DEF KeywordWord, Walks
<1>2. /\ at.pos \in Nat /\ began.pos \in Nat /\ Len(text) \in Nat
      /\ began.pos <= at.pos /\ at.pos <= Len(text) /\ slot.pos <= Len(text)
      /\ IF found = <<>> THEN slot = began ELSE began.pos < slot.pos
      /\ Char(began.pos) \in mode.start
  BY <1>1, PlaceIs, TextIs DEF InputOK, StandOK
<1>3. /\ n \in Nat /\ at.pos + n <= Len(text)
      /\ word \in Seq(Chars) /\ Len(word) = n
  BY <1>2, ModeIs, WordIs DEF InputOK, mode, word
<1>4. word # <<>> /\ Append(node, word) \in Seq(Seq(Chars)) /\ n > 0
  <2>1. Append(node, word) \in Nodes(mode.keywords)
    BY <1>1 DEF HasChild
  <2>2. mode.keywords \subseteq Seq(Seq(Chars) \ {<<>>})
    <3>1. IsMode(mode)
      BY LexerAssumption DEF mode
    <3>2. Seq(mode.part) \ {<<>>} \subseteq Seq(Chars) \ {<<>>}
      <4>1. \A s : s \in Seq(mode.part) => s \in Seq(Chars)
        BY <3>1 DEF IsMode
      <4> QED
        BY <4>1
    <3>3. \A entry \in mode.keywords : entry \in Seq(Seq(mode.part) \ {<<>>})
      BY <3>1 DEF IsMode
    <3> QED
      BY <3>2, <3>3
  <2>3. \E T : node \in Seq(T)
    BY DEF WalkOK
  <2>4. word \in Seq(Chars) \ {<<>>} /\ Append(node, word) \in Seq(Seq(Chars) \ {<<>>})
    BY <2>1, <2>2, <2>3, SymbolIs
  <2> HIDE DEF n
  <2>5. \A s \in Seq(Chars) : s # <<>> => Len(s) > 0
    OBVIOUS
  <2> QED
    BY <1>3, <2>4, <2>5
<1>5. to \in TruePlaces(text) /\ to.pos = at.pos + n
  BY <1>3, MovedIsTrue DEF InputOK
<1>6. m \in Nat /\ to.pos + m <= Len(text)
  <2> HIDE DEF to
  <2> QED
    BY <1>2, <1>3, <1>5, ModeIs, WordIs DEF InputOK, mode
<1>7. Moved(to, m) \in TruePlaces(text) /\ Moved(to, m).pos = to.pos + m
  BY <1>5, <1>6, MovedIsTrue
<1> HIDE DEF n, to, m
<1>8. /\ node' = Append(node, word) /\ at' = Moved(to, m)
      /\ \/ slot' = to /\ found' = node'
         \/ slot' = slot /\ found' = found
  BY <1>1 DEF Descend
<1>9. node' # <<>> /\ WalkOK'
  <2>1. node' # <<>>
    <3>1. PICK T : node \in Seq(T)
      BY DEF WalkOK
    <3>2. node \in Seq(T \cup {word}) /\ word \in T \cup {word}
      BY <3>1
    <3> QED
      BY <1>8, <3>2
  <2> QED
    BY <1>4, <1>8, <2>1 DEF WalkOK
<1>10. at' \in TruePlaces(text) /\ slot' \in TruePlaces(text)
  BY <1>5, <1>7, <1>8 DEF InputOK
<1>11. StandOK'
  <2>1. mode' = mode /\ Char(began.pos)' = Char(began.pos)
    BY <1>1 DEF mode, Char, context
  <2>2. began.pos <= at'.pos /\ at'.pos <= Len(text)
    BY <1>2, <1>3, <1>5, <1>6, <1>7, <1>8
  <2>3. CASE slot' = to /\ found' = node'
    <3>1. began.pos < slot'.pos /\ slot'.pos <= Len(text)
      BY <1>2, <1>3, <1>4, <1>5, <2>3
    <3> QED
      BY <1>1, <1>2, <1>9, <2>1, <2>2, <2>3, <3>1 DEF StandOK
  <2>4. CASE slot' = slot /\ found' = found
    BY <1>1, <1>2, <2>1, <2>2, <2>4 DEF StandOK
  <2> QED
    BY <1>8, <2>3, <2>4
<1> QED
  BY <1>1, <1>9, <1>10, <1>11 DEF GoesOn, ReadingSteps

LEMMA PunctuationGoesOn ==
  ASSUME InputOK, WalkOK, StandOK, lexCtx.mode \in Modes, PunctuationChar
  PROVE  GoesOn
<1> DEFINE symbol == Char(at.pos)
           to == Passed(at)
<1>1. /\ step = "punctuation" /\ step' = step /\ HasChild(mode.punctuation, symbol)
      /\ Descend(mode.punctuation, symbol, to, 0)
      /\ UNCHANGED <<text, context, feed, call, began>>
  BY DEF PunctuationChar, Walks
<1>2. /\ at.pos \in Nat /\ began.pos \in Nat /\ slot.pos \in Nat /\ began.pos <= at.pos
      /\ IF found = <<>> THEN slot = began ELSE began.pos < slot.pos
  BY <1>1, PlaceIs DEF InputOK, StandOK
<1>3. PICK T : node \in Seq(T)
  BY DEF WalkOK
<1>4. Append(node, symbol) \in Seq(Chars)
  <2>1. Append(node, symbol) \in Nodes(mode.punctuation)
    BY <1>1 DEF HasChild
  <2>2. mode.punctuation \subseteq Seq(Chars)
    BY ModeIs DEF mode
  <2> QED
    BY <1>3, <2>1, <2>2, SymbolIs
<1>5. Append(node, symbol) # <<>>
  <2>1. node \in Seq(T \cup {symbol}) /\ symbol \in T \cup {symbol}
    BY <1>3
  <2> QED
    BY <2>1
<1>6. /\ to \in TruePlaces(text) /\ to.pos = at.pos + 1
      /\ Moved(to, 0) \in TruePlaces(text) /\ Moved(to, 0).pos = to.pos + 0
  BY PassedIsTrue, MovedIsTrue DEF InputOK
<1> HIDE DEF symbol, to
<1>7. /\ node' = Append(node, symbol) /\ at' = Moved(to, 0)
      /\ \/ slot' = to /\ found' = node'
         \/ slot' = slot /\ found' = found
  BY <1>1 DEF Descend
<1>8. WalkOK' /\ node' # <<>>
  BY <1>4, <1>5, <1>7 DEF WalkOK
<1>9. at' \in TruePlaces(text) /\ slot' \in TruePlaces(text)
  BY <1>6, <1>7 DEF InputOK
<1>10. StandOK'
  <2>1. began.pos <= at'.pos /\ (slot' = to => began.pos < slot'.pos)
    BY <1>2, <1>6, <1>7
  <2>2. CASE slot' = to /\ found' = node'
    BY <1>1, <1>8, <2>1, <2>2 DEF StandOK
  <2>3. CASE slot' = slot /\ found' = found
    BY <1>1, <1>2, <2>1, <2>3 DEF StandOK
  <2> QED
    BY <1>7, <2>2, <2>3
<1> QED
  BY <1>1, <1>8, <1>9, <1>10 DEF GoesOn, ReadingSteps

\* At its end a walk makes the last entry it has passed, or it goes back to
\* where it began.
LEMMA WalkEnds ==
  ASSUME InputOK, WalkOK, StandOK, lexCtx.mode \in Modes,
         NEW type \in {"kw", "punc"}, NEW otherwise,
         \/ step = "keyword" /\ otherwise = "identifier"
         \/ step = "punctuation" /\ otherwise = "unexpected",
         EndWalk(type, otherwise)
  PROVE  Emits \/ GoesOn
<1>1. /\ at' = slot /\ UNCHANGED <<text, slot, began, walk>>
      /\ step \in {"keyword", "punctuation"}
  BY DEF EndWalk, Reload
<1>2. CASE found # <<>>
  <2> DEFINE token == Item(type, found, began, slot, slot)
  <2>1. began.pos < slot.pos /\ began.pos \in Nat /\ slot.pos \in Nat
    BY <1>1, <1>2, PlaceIs DEF StandOK, InputOK
  <2>2. /\ began.pos <= began.pos /\ began.pos <= slot.pos /\ slot.pos <= slot.pos
        /\ type \in Types \cup {"unexpected", "unterminated"} /\ type \in Types
        /\ found \in Seq(Chars) \cup Seq(Seq(Chars))
    BY <2>1 DEF Types, WalkOK
  <2>3. /\ token \in LexedItems(text) /\ token.type = type
        /\ token.from = began.pos /\ token.to = slot.pos /\ token.mode = lexCtx.mode
    BY <2>1, <2>2, ItemIs DEF InputOK
  <2>4. Emit(token)
    BY <1>2 DEF EndWalk
  <2>5. IsNew(token) /\ token.type \in Types
    BY <1>1, <2>2, <2>3 DEF IsNew, ReadingSteps, InputOK
  <2> QED
    BY <2>4, <2>5 DEF Emits
<1>3. CASE found = <<>>
  <2>1. step' = otherwise /\ UNCHANGED <<context, feed, call>>
    BY <1>3 DEF EndWalk, Goes
  <2>2. slot = began
    BY <1>1, <1>3 DEF StandOK
  <2>3. mode' = mode /\ Char(began.pos)' = Char(began.pos)
    BY <1>1, <2>1 DEF mode, Char, context
  <2>4. StandOK'
    BY <1>1, <2>1, <2>2, <2>3 DEF StandOK
  <2>5. WalkOK'
    BY <1>1 DEF WalkOK, walk
  <2> QED
    BY <1>1, <2>1, <2>4, <2>5 DEF GoesOn, ReadingSteps, InputOK
<1> QED
  BY <1>2, <1>3

LEMMA IdentifierIsMade ==
  ASSUME InputOK, StandOK, lexCtx.mode \in Modes, ReadIdentifier
  PROVE  Emits
<1> DEFINE n == RunOf(at.pos, mode.part)
           end == Moved(at, Len(word))
           token == Item("ident", word, at, end, end)
<1>1. /\ step = "identifier" /\ at = began /\ Char(at.pos) \in mode.start /\ at.pos \in Nat
      /\ Emit(token) /\ at' = end /\ UNCHANGED <<text, slot, began, walk>>
  BY PlaceIs DEF ReadIdentifier, ReadTo, StandOK, InputOK
<1>2. /\ TextOK /\ Len(text) \in Nat
      /\ mode.part \subseteq Chars /\ mode.start \subseteq mode.part
  BY TextIs, ModeIs DEF InputOK, mode
<1>3. n > 0 /\ at.pos <= Len(text)
  <2>1. Char(at.pos) \in Chars /\ Char(at.pos) \in mode.part
    BY <1>1, <1>2
  <2>2. at.pos < Len(text)
    BY <1>1, <1>2, <2>1, CharFacts
  <2> QED
    BY <1>1, <1>2, <2>1, <2>2, RunIs
<1>4. n \in Nat /\ word \in Seq(Chars) /\ Len(word) = n
  BY <1>1, <1>2, <1>3, WordIs DEF InputOK, word
<1>5. end \in TruePlaces(text) /\ end.pos = at.pos + n
  BY <1>4, MovedIsTrue DEF InputOK
<1>6. at.pos < end.pos /\ at.pos <= at.pos /\ at.pos <= end.pos /\ end.pos <= end.pos
  BY <1>1, <1>3, <1>4, <1>5
<1>7. "ident" \in Types
  BY DEF Types
<1> HIDE DEF end, n
<1>8. /\ token \in LexedItems(text) /\ token.type = "ident"
      /\ token.from = began.pos /\ token.to = end.pos /\ token.mode = lexCtx.mode
  BY <1>1, <1>4, <1>5, <1>6, <1>7, ItemIs DEF InputOK
<1>9. IsNew(token)
  BY <1>1, <1>5, <1>8 DEF IsNew, ReadingSteps
<1> QED
  BY <1>1, <1>7, <1>8, <1>9 DEF Emits

LEMMA UnexpectedCroaks ==
  ASSUME InputOK, StandOK, lexCtx.mode \in Modes, Unexpected
  PROVE  Croaks
<1> DEFINE item == Item("unexpected", <<>>, at, Passed(at), Passed(at))
<1>1. /\ step = "unexpected" /\ at = began /\ at.pos \in Nat
      /\ LexCroak("unexpected", at, Passed(at))
      /\ at' = Passed(at) /\ UNCHANGED <<text, slot, began, walk>>
  BY PlaceIs DEF Unexpected, ReadTo, StandOK, InputOK
<1>2. /\ Passed(at) \in TruePlaces(text) /\ at \in TruePlaces(text)
      /\ began.pos <= at.pos /\ at.pos <= Passed(at).pos /\ began.pos < Passed(at).pos
  BY <1>1, PassedIsTrue DEF InputOK
<1>3. <<>> \in Seq(Chars)
  OBVIOUS
<1>4. \A nothing \in Seq(Chars), start, end_ \in TruePlaces(text) :
        began.pos <= start.pos /\ start.pos <= end_.pos /\ began.pos < end_.pos
        => LET i == Item("unexpected", nothing, start, end_, end_)
           IN  /\ i \in LexedItems(text) /\ i.type = "unexpected"
               /\ i.from = began.pos /\ i.to = end_.pos /\ i.mode = lexCtx.mode
  BY CroakIs DEF InputOK
<1>5. /\ item \in LexedItems(text) /\ item.type = "unexpected"
      /\ item.from = began.pos /\ item.to = Passed(at).pos /\ item.mode = lexCtx.mode
  BY <1>2, <1>3, <1>4
<1>6. IsNew(item)
  BY <1>1, <1>2, <1>5 DEF IsNew, ReadingSteps
<1>7. item.type \notin Types
  BY <1>5, LexerAssumption
<1>8. /\ items' = Append(items, item) /\ Returns
      /\ UNCHANGED <<produced, current, delivered, context>>
  BY <1>1 DEF LexCroak
<1> QED
  BY <1>6, <1>7, <1>8 DEF Croaks

\* What holds of the state in every step.
StateOK == InputOK /\ ContextOK /\ FeedOK /\ ControlOK /\ WalkOK /\ StandOK

\* A step of the stream is a step of the client or of the whitespace, or it
\* goes on, or it makes an item.
LEMMA StepIs ==
  ASSUME StateOK, [Next]_vars
  PROVE  \/ UNCHANGED vars \/ Call \/ NextCached \/ SkipSpace \/ EndOfText
         \/ GoesOn \/ Emits \/ Croaks
<1>1. /\ InputOK /\ WalkOK /\ StandOK /\ lexCtx.mode \in Modes
      /\ step = "reader" => at = began
  BY DEF StateOK, ContextOK, StandOK
<1>2. CASE AskReaders
  <2>1. step = "reader"
    BY <1>2 DEF AskReaders
  <2>2. ReaderEmits => Emits
    BY MadeTypesAreTypes DEF ReaderEmits, Emits
  <2>3. ReaderCroaks => Croaks
    BY LexerAssumption DEF ReaderCroaks, Croaks
  <2> QED
    BY <1>1, <1>2, <2>1, <2>2, <2>3, MadeBy
<1>3. CASE Dispatch
  <2>1. step = "reader"
    BY <1>3 DEF Dispatch
  <2> QED
    BY <1>1, <1>3, <2>1, DispatchGoesOn
<1>4. CASE KeywordWord
  BY <1>1, <1>4, WordGoesOn
<1>5. CASE KeywordAstray
  <2>1. /\ step = "keyword" /\ step' = "crashed"
        /\ UNCHANGED <<text, at, slot, context, feed, call, began, node, found>>
    BY <1>5 DEF KeywordAstray, Goes, input, walk
  <2>2. WalkOK' /\ StandOK'
    BY <1>1, <2>1 DEF WalkOK, StandOK
  <2> QED
    BY <1>1, <2>1, <2>2 DEF GoesOn, ReadingSteps, InputOK
<1>6. CASE KeywordEnds
  <2>1. step = "keyword" /\ EndWalk("kw", "identifier")
    BY <1>6 DEF KeywordEnds
  <2> QED
    BY <1>1, <2>1, WalkEnds
<1>7. CASE PunctuationChar
  BY <1>1, <1>7, PunctuationGoesOn
<1>8. CASE PunctuationEnds
  <2>1. step = "punctuation" /\ EndWalk("punc", "unexpected")
    BY <1>8 DEF PunctuationEnds
  <2> QED
    BY <1>1, <2>1, WalkEnds
<1>9. CASE ReadIdentifier
  BY <1>1, <1>9, IdentifierIsMade
<1>10. CASE Unexpected
  BY <1>1, <1>10, UnexpectedCroaks
<1>11. CASE Crashed
  BY <1>11 DEF Crashed
<1> QED
  BY <1>2, <1>3, <1>4, <1>5, <1>6, <1>7, <1>8, <1>9, <1>10, <1>11 DEF Next, ReadStep

LEMMA SwitchedIs ==
  ASSUME NEW stack \in Seq(Modes) \ {<<>>}, NEW token, NEW lexedIn, NEW lastType
  PROVE  Switched(stack, token, lexedIn, lastType) \in Seq(Modes) \ {<<>>}
<1> DEFINE firing == {i \in 1..Len(Transitions) : Fires(Transitions[i], token, lexedIn, lastType)}
           t == Transitions[CHOOSE i \in firing : \A j \in firing : i <= j]
<1>1. Switched(stack, token, lexedIn, lastType) =
        IF firing = {} THEN stack
        ELSE IF t.action = "push" THEN Append(stack, t.mode)
        ELSE IF Len(stack) > 1 THEN SubSeq(stack, 1, Len(stack) - 1)
        ELSE stack
  BY DEF Switched
<1>2. ASSUME firing # {} PROVE t.mode \in Modes
  <2>1. firing \subseteq Nat
    OBVIOUS
  <2>2. (CHOOSE i \in firing : \A j \in firing : i <= j) \in firing
    <3> HIDE DEF firing
    <3>1. \E i \in firing : \A j \in firing : i <= j
      BY <1>2, <2>1, Least
    <3> QED
      BY <3>1
  <2>3. IsTransition(t)
    BY <2>2, LexerAssumption
  <2> QED
    BY <2>3 DEF IsTransition
<1> HIDE DEF firing, t
<1>3. stack \in Seq(Modes) /\ stack # <<>> /\ Len(stack) \in Nat
  OBVIOUS
<1>4. ASSUME Len(stack) > 1
      PROVE  SubSeq(stack, 1, Len(stack) - 1) \in Seq(Modes) \ {<<>>}
  <2> DEFINE popped == SubSeq(stack, 1, Len(stack) - 1)
  <2>1. popped \in Seq(Modes) /\ Len(popped) = Len(stack) - 1
    BY <1>3, <1>4
  <2> HIDE DEF popped
  <2>2. popped # <<>>
    BY <1>3, <1>4, <2>1
  <2> QED
    BY <2>1, <2>2 DEF popped
<1>5. ASSUME NEW name \in Modes PROVE Append(stack, name) \in Seq(Modes) \ {<<>>}
  BY <1>3
<1> QED
  BY <1>1, <1>2, <1>3, <1>4, <1>5

LEMMA ItemsGrow ==
  ASSUME FeedOK, NEW item \in LexedItems(text), items' = Append(items, item), UNCHANGED text
  PROVE  /\ Len(items) \in Nat /\ Len(items') = Len(items) + 1
         /\ items' \in Seq(LexedItems(text')) /\ items'[Len(items) + 1] = item
         /\ \A i \in 1..Len(items) : items'[i] = items[i]
BY DEF FeedOK

\* The context that a token leaves.
LEMMA EmitContext ==
  ASSUME ContextOK, Len(items) \in Nat, NEW token, Emit(token), Len(items') = Len(items) + 1
  PROVE  ContextOK' /\ lexCtx'.mode = modeStack'[Len(modeStack')]
<1>1. /\ modeStack' = Switched(modeStack, token, lexCtx.mode, LastType(lexCtx.lastToken))
      /\ lexCtx' =
           [lexCtx EXCEPT
              !.mode = modeStack'[Len(modeStack')],
              !.lastToken = IF token.type \in TriviaTypes THEN @ ELSE Len(items) + 1,
              !.lastMode = IF token.type \in TriviaTypes THEN @ ELSE lexCtx.mode]
  BY DEF Emit
<1>2. modeStack' \in Seq(Modes) \ {<<>>}
  BY <1>1, SwitchedIs DEF ContextOK
<1>3. modeStack'[Len(modeStack')] \in Modes
  <2> DEFINE stack == modeStack'
  <2> HIDE DEF stack
  <2>1. stack \in Seq(Modes) \ {<<>>} => stack[Len(stack)] \in Modes
    OBVIOUS
  <2> QED
    BY <1>2, <2>1 DEF stack
<1>4. lexCtx \in [lastToken : 0..Len(items), lastMode : Modes, mode : Modes]
  BY DEF ContextOK
<1>5. lexCtx' \in [lastToken : 0..(Len(items) + 1), lastMode : Modes, mode : Modes]
  <2> DEFINE name == modeStack'[Len(modeStack')]
             last == IF token.type \in TriviaTypes THEN lexCtx.lastToken ELSE Len(items) + 1
             lastMode == IF token.type \in TriviaTypes THEN lexCtx.lastMode ELSE lexCtx.mode
  <2>1. lexCtx' = [lexCtx EXCEPT !.mode = name, !.lastToken = last, !.lastMode = lastMode]
    BY <1>1
  <2>2. lexCtx = [lastToken |-> lexCtx.lastToken, lastMode |-> lexCtx.lastMode, mode |-> lexCtx.mode]
    BY <1>4
  <2>3. lexCtx' = [lastToken |-> last, lastMode |-> lastMode, mode |-> name]
    BY <2>1, <2>2
  <2>4. last \in 0..(Len(items) + 1) /\ lastMode \in Modes /\ name \in Modes
    BY <1>3, <1>4
  <2> HIDE DEF name, last, lastMode
  <2> QED
    BY <2>3, <2>4
<1> QED
  BY <1>1, <1>2, <1>4, <1>5 DEF ContextOK

LEMMA EmitFeeds ==
  ASSUME FeedOK, NEW token \in LexedItems(text), Emit(token), UNCHANGED text
  PROVE  FeedOK' /\ Len(items) \in Nat /\ Len(items') = Len(items) + 1
<1>1. items' = Append(items, token) /\ produced' = Append(produced, Len(items) + 1) /\ Hand
  BY DEF Emit
<1>2. /\ Len(items) \in Nat /\ Len(items') = Len(items) + 1
      /\ items' \in Seq(LexedItems(text'))
  BY <1>1, ItemsGrow
<1>3. \A s \in Seq(1..Len(items)) :
        s \in Seq(1..Len(items')) /\ Append(s, Len(items) + 1) \in Seq(1..Len(items'))
  <2> TAKE s \in Seq(1..Len(items))
  <2>1. 1..Len(items) \subseteq 1..Len(items')
    BY <1>2
  <2> DEFINE D == 1..Len(items')
  <2>2. s \in Seq(D) /\ Len(items) + 1 \in D
    BY <1>2, <2>1
  <2> QED
    BY <2>2
<1>4. CASE call = "peek"
  BY <1>1, <1>2, <1>3, <1>4 DEF Hand, FeedOK
<1>5. CASE call # "peek"
  <2>1. delivered' = Append(delivered, Len(items) + 1) /\ current' = current
    BY <1>1, <1>5 DEF Hand
  <2>2. delivered' \in Seq(1..Len(items')) /\ produced' \in Seq(1..Len(items'))
    BY <1>1, <1>3, <2>1 DEF FeedOK
  <2>3. current' \in 0..Len(items')
    BY <1>2, <2>1 DEF FeedOK
  <2> QED
    BY <1>2, <2>2, <2>3 DEF FeedOK
<1> QED
  BY <1>2, <1>4, <1>5

LEMMA IdleOK ==
  ASSUME WalkOK, step' = "idle", call' = "none", UNCHANGED walk
  PROVE  ControlOK' /\ WalkOK' /\ StandOK'
BY DEF ControlOK, WalkOK, StandOK, walk

LEMMA StateStep ==
  ASSUME StateOK, [Next]_vars
  PROVE  StateOK'
<1> USE DEF StateOK
<1>1. CASE UNCHANGED vars
  BY <1>1 DEF vars, input, context, feed, walk, InputOK, ContextOK, FeedOK, ControlOK, WalkOK,
              StandOK, mode, Char
<1>2. CASE Call
  <2>1. /\ UNCHANGED <<text, at, slot, began, modeStack, lexCtx, items, produced, current, delivered,
                       node, found>>
        /\ call' \in {"peek", "next"} /\ step' = "space"
    BY <1>2 DEF Call, Goes, input, context, feed, walk
  <2> QED
    BY <2>1 DEF InputOK, ContextOK, FeedOK, ControlOK, WalkOK, StandOK
<1>3. CASE NextCached
  <2>1. /\ UNCHANGED <<text, at, slot, began, modeStack, lexCtx, items, produced, node, found, call, step>>
        /\ step = "idle" /\ current # 0 /\ current' = 0
        /\ delivered' = Append(delivered, current)
    BY <1>3 DEF NextCached, input, context, walk
  <2>2. FeedOK'
    <3>1. Len(items) \in Nat /\ current \in 1..Len(items)
      BY <2>1 DEF FeedOK
    <3>2. delivered' \in Seq(1..Len(items))
      BY <2>1, <3>1 DEF FeedOK
    <3> QED
      BY <2>1, <3>1, <3>2 DEF FeedOK
  <2> QED
    BY <2>1, <2>2 DEF InputOK, ContextOK, ControlOK, WalkOK, StandOK
<1>4. CASE SkipSpace
  <2> DEFINE n == RunOf(at.pos, mode.space)
  <2>1. /\ UNCHANGED <<text, slot, modeStack, lexCtx, items, produced, current, delivered, node, found, call>>
        /\ step = "space" /\ step' = "reader" /\ at' = Moved(at, n) /\ began' = at'
    BY <1>4 DEF SkipSpace, Goes, context, feed, walk
  <2>2. n \in Nat
    BY TextIs, PlaceIs, ModeIs, RunIs DEF InputOK, ContextOK, mode
  <2>3. at' \in TruePlaces(text)
    BY <2>1, <2>2, MovedIsTrue DEF InputOK
  <2> QED
    BY <2>1, <2>3 DEF InputOK, ContextOK, FeedOK, ControlOK, WalkOK, StandOK, ReadingSteps
<1>5. CASE EndOfText
  <2>1. UNCHANGED <<input, context, feed, began, walk>> /\ step' = "idle" /\ call' = "none"
    BY <1>5 DEF EndOfText, Returns
  <2> QED
    BY <2>1, IdleOK DEF input, context, feed, InputOK, ContextOK, FeedOK
<1>6. CASE GoesOn
  <2>1. /\ UNCHANGED <<text, modeStack, lexCtx, items, produced, current, delivered, call, began>>
        /\ step \in ReadingSteps /\ step' \in ReadingSteps
        /\ at' \in TruePlaces(text) /\ slot' \in TruePlaces(text) /\ WalkOK' /\ StandOK'
    BY <1>6 DEF GoesOn, context, feed
  <2> QED
    BY <2>1 DEF InputOK, ContextOK, FeedOK, ControlOK, ReadingSteps
<1>7. CASE Emits
  <2>1. PICK token : IsNew(token) /\ token.type \in Types /\ Emit(token)
    BY <1>7 DEF Emits
  <2>2. /\ token \in LexedItems(text) /\ UNCHANGED <<text, slot, began, walk>>
        /\ at' \in TruePlaces(text)
    BY <2>1 DEF IsNew
  <2>3. FeedOK' /\ Len(items) \in Nat /\ Len(items') = Len(items) + 1
    BY <2>1, <2>2, EmitFeeds
  <2>4. ContextOK'
    BY <2>1, <2>3, EmitContext
  <2>5. step' = "idle" /\ call' = "none"
    BY <2>1 DEF Emit, Returns
  <2> QED
    BY <2>2, <2>3, <2>4, <2>5, IdleOK DEF InputOK
<1>8. CASE Croaks
  <2>1. PICK item : /\ IsNew(item) /\ items' = Append(items, item)
                    /\ UNCHANGED <<produced, current, delivered, context>> /\ Returns
    BY <1>8 DEF Croaks
  <2>2. /\ item \in LexedItems(text) /\ UNCHANGED <<text, slot, began, walk>>
        /\ at' \in TruePlaces(text)
    BY <2>1 DEF IsNew
  <2>3. /\ Len(items) \in Nat /\ Len(items') = Len(items) + 1
        /\ items' \in Seq(LexedItems(text'))
    BY <2>1, <2>2, ItemsGrow
  <2>4. FeedOK'
    <3>1. 1..Len(items) \subseteq 1..Len(items') /\ 0..Len(items) \subseteq 0..Len(items')
      BY <2>3
    <3>2. \A s \in Seq(1..Len(items)) : s \in Seq(1..Len(items'))
      BY <3>1
    <3> QED
      BY <2>1, <2>3, <3>1, <3>2 DEF FeedOK
  <2>5. ContextOK'
    <3>1. 0..Len(items) \subseteq 0..Len(items')
      BY <2>3
    <3> QED
      BY <2>1, <3>1 DEF ContextOK, context
  <2>6. step' = "idle" /\ call' = "none"
    BY <2>1 DEF Returns
  <2> QED
    BY <2>2, <2>4, <2>5, <2>6, IdleOK DEF InputOK
<1> QED
  BY <1>1, <1>2, <1>3, <1>4, <1>5, <1>6, <1>7, <1>8, StepIs

-------------------------------------------------------------------------------
\* A text is tokenized from its beginning, in the root mode.
LEMMA InitialState == ASSUME Init PROVE StateOK
<1>1. InputOK
  BY OriginIsTrue DEF Init, InputOK
<1>2. ContextOK
  <2>1. Default \in Modes
    BY LexerAssumption
  <2>2. <<Default>> \in Seq(Modes) \ {<<>>}
    BY <2>1
  <2>3. items = <<>> /\ Len(items) = 0
    BY DEF Init
  <2> QED
    BY <2>1, <2>2, <2>3 DEF Init, ContextOK
<1>3. FeedOK
  BY DEF Init, FeedOK
<1>4. ControlOK /\ WalkOK /\ StandOK
  <2>1. <<>> \in Seq(Chars)
    OBVIOUS
  <2> QED
    BY <2>1 DEF Init, ControlOK, WalkOK, StandOK
<1> QED
  BY <1>1, <1>2, <1>3, <1>4 DEF StateOK

\* The state keeps its types, every place in it is a true one, and a walk of
\* the trie can go back only to where it began or to an entry it has passed.
THEOREM StateInvariance == Spec => []StateOK
<1>1. Init => StateOK
  BY InitialState
<1>2. StateOK /\ [Next]_vars => StateOK'
  BY StateStep
<1> QED
  BY <1>1, <1>2, PTL DEF Spec

LEMMA StateIsTyped == ASSUME StateOK PROVE LexTypeOK
<1>1. at \in Place /\ slot \in Place /\ began \in Place
  BY PlaceIs DEF StateOK, InputOK
<1>2. items \in Seq(ItemType)
  <2>1. items \in Seq(LexedItems(text)) /\ LexedItems(text) \subseteq ItemType
    BY DEF StateOK, FeedOK, LexedItems
  <2> QED
    BY <2>1
<1>3. (call = "none") = (step = "idle")
  BY DEF StateOK, ControlOK
<1> QED
  BY <1>1, <1>2, <1>3
  DEF StateOK, InputOK, ContextOK, FeedOK, ControlOK, WalkOK, LexTypeOK, ReadingSteps

\* The state of the token stream keeps its types, whatever the definition of
\* the lexer, the text and the client.
THEOREM LexTypeCorrect == Spec => []LexTypeOK
BY StateInvariance, StateIsTyped, PTL

LEMMA StateIsPlaced == ASSUME StateOK PROVE PlacesAreTrue
<1>1. IsTrue(at) /\ IsTrue(slot)
  BY PlaceIs, TrueIsTrue DEF StateOK, InputOK
<1>2. \A i \in 1..Len(items) : IsTrue(items[i].start) /\ IsTrue(items[i].end)
  <2> TAKE i \in 1..Len(items)
  <2>1. items[i] \in LexedItems(text)
    BY DEF StateOK, FeedOK
  <2>2. items[i].start \in TruePlaces(text) /\ items[i].end \in TruePlaces(text)
    BY <2>1 DEF LexedItems
  <2> QED
    BY <2>2, PlaceIs, TrueIsTrue
<1> QED
  BY <1>1, <1>2 DEF PlacesAreTrue

\* Every row and column that the lexer counts is the one the text has there,
\* however often it went ahead and back in the text, in every reader and walk.
THEOREM CountsTruePlaces == Spec => []PlacesAreTrue
BY StateInvariance, StateIsPlaced, PTL

-------------------------------------------------------------------------------
(* The items and the whitespace before them are the text.                  *)

SpaceIn(characters, from, to, name) ==
  \A p \in from..(to - 1) : CharIn(characters, p) \in Mode[name].space

EndIn(made, i) == IF i = 0 THEN 0 ELSE made[i].to

Tiled(characters, made) ==
  \A i \in 1..Len(made) :
    /\ EndIn(made, i - 1) <= made[i].from
    /\ SpaceIn(characters, EndIn(made, i - 1), made[i].from, made[i].mode)

\* Behind the last item there is only whitespace of the mode, up to here.
OnlySpaceTo(characters, made, p, name) ==
  /\ EndIn(made, Len(made)) <= p
  /\ SpaceIn(characters, EndIn(made, Len(made)), p, name)

TileOK ==
  /\ Tiled(text, items)
  /\ OnlySpaceTo(text, items, IF step \in {"idle", "space"} THEN at.pos ELSE began.pos, lexCtx.mode)

\* The item that is made next begins behind that whitespace.
LEMMA TileGrows ==
  ASSUME FeedOK, TileOK, NEW item, IsNew(item), items' = Append(items, item),
         step \in ReadingSteps, step' = "idle"
  PROVE  TileOK'
<1>1. /\ item \in LexedItems(text) /\ item.from = began.pos /\ item.mode = lexCtx.mode
      /\ at'.pos = item.to /\ UNCHANGED text
  BY DEF IsNew
<1>2. /\ Len(items) \in Nat /\ Len(items') = Len(items) + 1
      /\ items'[Len(items) + 1] = item
      /\ \A i \in 1..Len(items) : items'[i] = items[i]
  BY <1>1, ItemsGrow
<1> DEFINE made == items'
<1> HIDE DEF made
<1>3. \A i \in 0..Len(items) : EndIn(made, i) = EndIn(items, i)
  BY <1>2 DEF EndIn, made
<1>4. Tiled(text, made)
  <2> SUFFICES ASSUME NEW i \in 1..Len(made)
               PROVE  /\ EndIn(made, i - 1) <= made[i].from
                      /\ SpaceIn(text, EndIn(made, i - 1), made[i].from, made[i].mode)
    BY DEF Tiled
  <2>1. CASE i \in 1..Len(items)
    <3>1. made[i] = items[i] /\ EndIn(made, i - 1) = EndIn(items, i - 1)
      BY <1>2, <1>3, <2>1 DEF made
    <3> QED
      BY <2>1, <3>1 DEF TileOK, Tiled
  <2>2. CASE i = Len(items) + 1
    <3>1. made[i] = item /\ EndIn(made, i - 1) = EndIn(items, Len(items))
      BY <1>2, <1>3, <2>2 DEF made
    <3>2. OnlySpaceTo(text, items, began.pos, lexCtx.mode)
      BY DEF TileOK, ReadingSteps
    <3> QED
      BY <1>1, <3>1, <3>2 DEF OnlySpaceTo
  <2> QED
    BY <1>2, <2>1, <2>2 DEF made
<1>5. OnlySpaceTo(text, made, item.to, lexCtx'.mode)
  <2>1. EndIn(made, Len(made)) = item.to /\ item.to \in Nat
    BY <1>1, <1>2 DEF EndIn, made, LexedItems, ItemType
  <2> QED
    BY <2>1 DEF OnlySpaceTo, SpaceIn
<1> QED
  BY <1>1, <1>4, <1>5 DEF TileOK, made

LEMMA TileStep ==
  ASSUME StateOK, TileOK, [Next]_vars
  PROVE  TileOK'
<1>1. /\ InputOK /\ FeedOK /\ StandOK /\ at.pos \in Nat /\ began.pos \in Nat /\ lexCtx.mode \in Modes
  BY PlaceIs DEF StateOK, InputOK, ContextOK
<1>2. CASE UNCHANGED vars \/ Call \/ NextCached
  <2>1. /\ UNCHANGED <<text, at, began, items, lexCtx>>
        /\ step' \in {"idle", "space"} <=> step \in {"idle", "space"}
    BY <1>2 DEF vars, input, context, feed, Call, NextCached, Goes
  <2> QED
    BY <2>1 DEF TileOK
<1>3. CASE SkipSpace
  <2> DEFINE n == RunOf(at.pos, mode.space)
             end == EndIn(items, Len(items))
  <2>1. /\ UNCHANGED <<text, lexCtx, items>> /\ step = "space" /\ step' = "reader"
        /\ at' = Moved(at, n) /\ began' = at'
    BY <1>3 DEF SkipSpace, Goes, context, feed
  <2>2. /\ n \in Nat /\ \A i \in 0..(n - 1) : Char(at.pos + i) \in mode.space
    <3>1. TextOK /\ Len(text) \in Nat /\ mode.space \subseteq Chars
      BY <1>1, TextIs, ModeIs DEF InputOK, mode
    <3>2. n \in 0..Len(text) /\ \A i \in 0..(n - 1) : Char(at.pos + i) \in mode.space
      BY <1>1, <3>1, RunIs
    <3> HIDE DEF n
    <3> QED
      BY <3>1, <3>2
  <2>3. began'.pos = at.pos + n
    BY <1>1, <2>1, <2>2, MovedIsTrue DEF InputOK
  <2>4. OnlySpaceTo(text, items, at.pos, lexCtx.mode)
    BY <2>1 DEF TileOK
  <2>5. end \in Nat
    <3>1. Len(items) \in Nat /\ (Len(items) # 0 => items[Len(items)] \in LexedItems(text))
      BY <1>1 DEF FeedOK
    <3> QED
      BY <3>1 DEF EndIn, LexedItems, ItemType
  <2> HIDE DEF n, end
  <2>6. OnlySpaceTo(text, items, at.pos + n, lexCtx.mode)
    <3>1. end <= at.pos /\ \A p \in end..(at.pos - 1) : CharIn(text, p) \in Mode[lexCtx.mode].space
      BY <2>4 DEF OnlySpaceTo, SpaceIn, end
    <3>2. ASSUME NEW p \in end..((at.pos + n) - 1)
          PROVE  CharIn(text, p) \in Mode[lexCtx.mode].space
      <4>1. CASE p < at.pos
        BY <1>1, <2>5, <3>1, <4>1
      <4>2. CASE p >= at.pos
        <5>1. p - at.pos \in 0..(n - 1) /\ at.pos + (p - at.pos) = p
          BY <1>1, <2>2, <2>5, <4>2
        <5>2. Char(p) \in mode.space
          BY <2>2, <5>1
        <5> QED
          BY <5>2 DEF Char, CharIn, mode
      <4> QED
        BY <1>1, <2>5, <4>1, <4>2
    <3>3. end <= at.pos + n
      BY <1>1, <2>2, <2>5, <3>1
    <3>4. SpaceIn(text, end, at.pos + n, lexCtx.mode)
      BY <3>2, Zenon DEF SpaceIn
    <3> QED
      BY <3>3, <3>4, Zenon DEF OnlySpaceTo, end
  <2> QED
    BY <2>1, <2>3, <2>6 DEF TileOK
<1>4. CASE EndOfText
  <2>1. /\ UNCHANGED <<text, at, began, items, lexCtx>> /\ step = "reader" /\ step' = "idle"
    BY <1>4 DEF EndOfText, Returns, input, context, feed
  <2>2. at = began
    BY <1>1, <2>1 DEF StandOK
  <2> QED
    BY <2>1, <2>2 DEF TileOK
<1>5. CASE GoesOn
  BY <1>5 DEF GoesOn, TileOK, ReadingSteps, context, feed
<1>6. CASE Emits
  <2>1. PICK token : IsNew(token) /\ Emit(token)
    BY <1>6 DEF Emits
  <2>2. items' = Append(items, token) /\ step' = "idle" /\ step \in ReadingSteps
    BY <2>1 DEF Emit, Returns, IsNew
  <2> QED
    BY <1>1, <2>1, <2>2, TileGrows
<1>7. CASE Croaks
  <2>1. PICK item : IsNew(item) /\ items' = Append(items, item) /\ Returns
    BY <1>7 DEF Croaks
  <2>2. step' = "idle" /\ step \in ReadingSteps
    BY <2>1 DEF Returns, IsNew
  <2> QED
    BY <1>1, <2>1, <2>2, TileGrows
<1> QED
  BY <1>2, <1>3, <1>4, <1>5, <1>6, <1>7, StepIs

\* What has been lexed is what there was to lex: behind the last item there is
\* only whitespace up to where the stream stands.
THEOREM TileInvariance == Spec => []TileOK
<1>1. Init => TileOK
  BY DEF Init, TileOK, Tiled, OnlySpaceTo, EndIn, SpaceIn, Origin
<1>2. StateOK /\ TileOK /\ [Next]_vars => TileOK'
  BY TileStep
<1> QED
  BY <1>1, <1>2, StateInvariance, PTL DEF Spec

LEMMA StateIsTiled == ASSUME StateOK, TileOK PROVE ItemsTileText
<1>1. \A i \in 0..Len(items) : EndOf(i) = EndIn(items, i)
  BY DEF EndOf, EndIn
<1>2. \A from, to, name : SpaceOnly(from, to, name) <=> SpaceIn(text, from, to, name)
  BY DEF SpaceOnly, SpaceIn, Char, CharIn
<1>3. Len(items) \in Nat /\ \A i \in 1..Len(items) : items[i] \in LexedItems(text)
  BY DEF StateOK, FeedOK
<1>4. ASSUME NEW i \in 1..Len(items)
      PROVE  /\ EndOf(i - 1) <= items[i].from /\ SpaceOnly(EndOf(i - 1), items[i].from, items[i].mode)
             /\ items[i].from < items[i].to
             /\ items[i].from <= items[i].start.pos /\ items[i].start.pos <= items[i].end.pos
             /\ items[i].end.pos <= items[i].to
  <2>1. i - 1 \in 0..Len(items)
    BY <1>3
  <2>2. EndOf(i - 1) <= items[i].from /\ SpaceOnly(EndOf(i - 1), items[i].from, items[i].mode)
    BY <1>1, <1>2, <2>1 DEF TileOK, Tiled
  <2>3. items[i] \in LexedItems(text)
    BY <1>3
  <2> QED
    BY <2>2, <2>3 DEF LexedItems
<1>5. step = "idle" => EndOf(Len(items)) <= at.pos /\ SpaceOnly(EndOf(Len(items)), at.pos, lexCtx.mode)
  BY <1>1, <1>2, <1>3 DEF TileOK, OnlySpaceTo
<1> QED
  BY <1>4, <1>5 DEF ItemsTileText

\* No character is lexed twice and none is skipped but whitespace of the mode:
\* the items tile the text, errors among them, for every lexer and every text.
THEOREM LexesAllOfTheText == Spec => []ItemsTileText
BY StateInvariance, TileInvariance, StateIsTiled, PTL

-------------------------------------------------------------------------------
(* The context is that of the tokens, whatever was asked and whatever      *)
(* failed in between.                                                      *)

SignificantIn(made, n) == {i \in 1..n : made[i].type \in Types \ TriviaTypes}

LastIn(made, n) ==
  CHOOSE i \in {0} \cup SignificantIn(made, n) : \A j \in SignificantIn(made, n) : j <= i

LastTypeIn(made, last) == IF last = 0 THEN "none" ELSE made[last].type

\* The stack of modes behind item n, from the one before it.
StackAt(made, n, before) ==
  IF made[n].type \notin Types THEN before
  ELSE Switched(before, made[n], before[Len(before)], LastTypeIn(made, LastIn(made, n - 1)))

IsHistory(stack, made) ==
  /\ stack \in [0..Len(made) -> Seq(Modes) \ {<<>>}]
  /\ \A n \in 0..Len(made) : stack[n] = IF n = 0 THEN <<Default>> ELSE StackAt(made, n, stack[n - 1])

HistoryOK ==
  /\ \E stack : IsHistory(stack, items) /\ modeStack = stack[Len(items)]
  /\ lexCtx.lastToken = LastIn(items, Len(items))
  /\ lexCtx.lastMode = IF lexCtx.lastToken = 0 THEN Default ELSE items[lexCtx.lastToken].mode
  /\ lexCtx.mode = modeStack[Len(modeStack)]

LEMMA LastInIs ==
  ASSUME NEW made, NEW n \in Nat
  PROVE  LastIn(made, n) \in 0..n
<1> DEFINE S == {0} \cup SignificantIn(made, n)
<1>1. S \subseteq 0..n /\ 0 \in S
  BY DEF SignificantIn
<1>2. \E i \in S : \A j \in S : j <= i
  <2> HIDE DEF S
  <2> QED
    BY <1>1, Greatest
<1>3. \E i \in S : \A j \in SignificantIn(made, n) : j <= i
  BY <1>2
<1>4. LastIn(made, n) \in S
  BY <1>3 DEF LastIn
<1> HIDE DEF S
<1> QED
  BY <1>1, <1>4, Zenon

\* What was significant stays so when an item is made behind it.
LEMMA LastInStays ==
  ASSUME NEW made, NEW longer, NEW n \in Nat, \A i \in 1..n : longer[i] = made[i]
  PROVE  LastIn(longer, n) = LastIn(made, n)
<1>1. SignificantIn(longer, n) = SignificantIn(made, n)
  BY DEF SignificantIn
<1> QED
  BY <1>1 DEF LastIn

LEMMA LastInGrows ==
  ASSUME NEW made, NEW n \in Nat
  PROVE  LastIn(made, n + 1) =
           IF made[n + 1].type \in Types \ TriviaTypes THEN n + 1 ELSE LastIn(made, n)
<1> DEFINE S == SignificantIn(made, n)
           behind == SignificantIn(made, n + 1)
<1>1. CASE made[n + 1].type \in Types \ TriviaTypes
  <2>1. \A j \in behind : j <= n + 1 /\ j \in Nat
    BY DEF SignificantIn
  <2>2. n + 1 \in behind
    BY <1>1 DEF SignificantIn
  <2>3. LastIn(made, n + 1) = CHOOSE i \in {0} \cup behind : \A j \in behind : j <= i
    BY DEF LastIn
  <2> HIDE DEF behind
  <2>4. \A i \in {0} \cup behind : (\A j \in behind : j <= i) => i = n + 1
    BY <2>1, <2>2
  <2>5. n + 1 \in {0} \cup behind /\ \A j \in behind : j <= n + 1
    BY <2>1, <2>2
  <2> QED
    BY <1>1, <2>3, <2>4, <2>5
<1>2. CASE made[n + 1].type \notin Types \ TriviaTypes
  <2>1. behind = S
    BY <1>2 DEF SignificantIn
  <2>2. LastIn(made, n + 1) = LastIn(made, n)
    BY <2>1 DEF LastIn
  <2> QED
    BY <1>2, <2>2
<1> QED
  BY <1>1, <1>2

\* One more item, and what is behind it.
LEMMA HistoryGrows ==
  ASSUME NEW made, NEW longer, Len(made) \in Nat, Len(longer) = Len(made) + 1,
         \A i \in 1..Len(made) : longer[i] = made[i],
         NEW stack, IsHistory(stack, made),
         NEW next, next \in Seq(Modes) \ {<<>>},
         next = StackAt(longer, Len(made) + 1, stack[Len(made)])
  PROVE  \E more : IsHistory(more, longer) /\ more[Len(longer)] = next
<1> DEFINE N == Len(made)
           D == 0..(N + 1)
           more == [n \in D |-> IF n = N + 1 THEN next ELSE stack[n]]
<1>1. /\ more \in [D -> Seq(Modes) \ {<<>>}] /\ more[N + 1] = next
      /\ \A n \in 0..N : more[n] = stack[n]
  BY DEF IsHistory
<1>2. ASSUME NEW n \in D
      PROVE  more[n] = IF n = 0 THEN <<Default>> ELSE StackAt(longer, n, more[n - 1])
  <2>1. CASE n = 0
    BY <1>1, <2>1 DEF IsHistory
  <2>2. CASE n \in 1..N
    <3>1. more[n] = StackAt(made, n, stack[n - 1]) /\ more[n - 1] = stack[n - 1]
      BY <1>1, <2>2 DEF IsHistory
    <3>2. /\ longer[n] = made[n] /\ LastIn(longer, n - 1) = LastIn(made, n - 1)
          /\ LastIn(made, n - 1) \in 0..(n - 1)
      BY <2>2, LastInStays, LastInIs
    <3>3. LastTypeIn(longer, LastIn(longer, n - 1)) = LastTypeIn(made, LastIn(made, n - 1))
      BY <2>2, <3>2 DEF LastTypeIn
    <3>4. StackAt(longer, n, stack[n - 1]) = StackAt(made, n, stack[n - 1])
      BY <3>2, <3>3 DEF StackAt
    <3> QED
      BY <2>2, <3>1, <3>4
  <2>3. CASE n = N + 1
    BY <1>1, <2>3
  <2> QED
    BY <2>1, <2>2, <2>3
<1> HIDE DEF more
<1> QED
  BY <1>1, <1>2 DEF IsHistory

LEMMA EmitHistory ==
  ASSUME FeedOK, ContextOK, ContextOK', HistoryOK, NEW token, IsNew(token), token.type \in Types,
         Emit(token)
  PROVE  HistoryOK'
<1> DEFINE N == Len(items)
           made == items'
           last == lexCtx.lastToken
<1>1. /\ made = Append(items, token)
      /\ modeStack' = Switched(modeStack, token, lexCtx.mode, LastType(last))
      /\ lexCtx' =
           [lexCtx EXCEPT
              !.mode = modeStack'[Len(modeStack')],
              !.lastToken = IF token.type \in TriviaTypes THEN @ ELSE N + 1,
              !.lastMode = IF token.type \in TriviaTypes THEN @ ELSE lexCtx.mode]
  BY DEF Emit
<1>2. token \in LexedItems(text) /\ token.mode = lexCtx.mode /\ UNCHANGED text
  BY DEF IsNew
<1>3. /\ N \in Nat /\ Len(made) = N + 1 /\ made[N + 1] = token
      /\ \A i \in 1..N : made[i] = items[i]
  BY <1>1, <1>2, ItemsGrow
<1>4. lexCtx \in [lastToken : 0..N, lastMode : Modes, mode : Modes]
  BY DEF ContextOK
<1>5. /\ lexCtx'.mode = modeStack'[Len(modeStack')]
      /\ lexCtx'.lastToken = IF token.type \in TriviaTypes THEN last ELSE N + 1
      /\ lexCtx'.lastMode = IF token.type \in TriviaTypes THEN lexCtx.lastMode ELSE lexCtx.mode
  BY <1>1, <1>4
<1>6. PICK stack : IsHistory(stack, items) /\ modeStack = stack[N]
  BY DEF HistoryOK
<1>7. last = LastIn(items, N) /\ LastIn(made, N) = last /\ last \in 0..N
  BY <1>3, <1>4, LastInStays DEF HistoryOK
<1> HIDE DEF made
<1>8. modeStack' = StackAt(made, N + 1, stack[N])
  <2>1. LastTypeIn(made, LastIn(made, (N + 1) - 1)) = LastType(last)
    BY <1>3, <1>7 DEF LastTypeIn, LastType
  <2>2. lexCtx.mode = stack[N][Len(stack[N])]
    BY <1>6 DEF HistoryOK
  <2> QED
    BY <1>1, <1>3, <1>6, <2>1, <2>2 DEF StackAt
<1>9. \E more : IsHistory(more, made) /\ more[Len(made)] = modeStack'
  <2>1. modeStack' \in Seq(Modes) \ {<<>>}
    BY DEF ContextOK
  <2> QED
    BY <1>3, <1>6, <1>8, <2>1, HistoryGrows
<1>10. lexCtx'.lastToken = LastIn(made, Len(made))
  BY <1>3, <1>5, <1>7, LastInGrows
<1>11. lexCtx'.lastMode = IF lexCtx'.lastToken = 0 THEN Default ELSE made[lexCtx'.lastToken].mode
  <2>1. CASE token.type \in TriviaTypes
    <3>1. lexCtx'.lastToken = last /\ lexCtx'.lastMode = lexCtx.lastMode
      BY <1>5, <2>1
    <3>2. lexCtx.lastMode = IF last = 0 THEN Default ELSE items[last].mode
      BY DEF HistoryOK
    <3> QED
      BY <1>3, <1>7, <3>1, <3>2
  <2>2. CASE token.type \notin TriviaTypes
    BY <1>2, <1>3, <1>5, <2>2
  <2> QED
    BY <2>1, <2>2
<1> QED
  BY <1>5, <1>9, <1>10, <1>11 DEF HistoryOK, made

LEMMA CroakHistory ==
  ASSUME FeedOK, ContextOK, HistoryOK, NEW item, IsNew(item), item.type \notin Types,
         items' = Append(items, item), UNCHANGED context
  PROVE  HistoryOK'
<1> DEFINE N == Len(items)
           made == items'
           last == lexCtx.lastToken
<1>1. item \in LexedItems(text) /\ UNCHANGED <<text, modeStack, lexCtx>>
  BY DEF IsNew, context
<1>2. /\ N \in Nat /\ Len(made) = N + 1 /\ made[N + 1] = item
      /\ \A i \in 1..N : made[i] = items[i]
  BY <1>1, ItemsGrow
<1>3. PICK stack : IsHistory(stack, items) /\ modeStack = stack[N]
  BY DEF HistoryOK
<1>4. last = LastIn(items, N) /\ LastIn(made, N) = last /\ last \in 0..N
  <2>1. lexCtx \in [lastToken : 0..N, lastMode : Modes, mode : Modes]
    BY DEF ContextOK
  <2>2. last \in 0..N
    BY <2>1
  <2>3. LastIn(made, N) = LastIn(items, N)
    <3> HIDE DEF made
    <3> QED
      BY <1>2, LastInStays
  <2> QED
    BY <2>2, <2>3 DEF HistoryOK
<1> HIDE DEF made
<1>5. modeStack = StackAt(made, N + 1, stack[N]) /\ modeStack \in Seq(Modes) \ {<<>>}
  BY <1>2, <1>3 DEF StackAt, ContextOK
<1>6. \E more : IsHistory(more, made) /\ more[Len(made)] = modeStack
  BY <1>2, <1>3, <1>5, HistoryGrows
<1>7. last = LastIn(made, Len(made))
  BY <1>2, <1>4, LastInGrows
<1>8. lexCtx.lastMode = IF last = 0 THEN Default ELSE made[last].mode
  BY <1>2, <1>4 DEF HistoryOK
<1>9. lexCtx.mode = modeStack[Len(modeStack)]
  BY DEF HistoryOK
<1> QED
  BY <1>1, <1>6, <1>7, <1>8, <1>9 DEF HistoryOK, made

LEMMA HistoryStep ==
  ASSUME StateOK, HistoryOK, [Next]_vars
  PROVE  HistoryOK'
<1>1. CASE UNCHANGED vars \/ Call \/ NextCached \/ SkipSpace \/ EndOfText \/ GoesOn
  <2>1. UNCHANGED <<modeStack, lexCtx, items>>
    BY <1>1 DEF vars, context, feed, Call, NextCached, SkipSpace, EndOfText, GoesOn
  <2> QED
    BY <2>1 DEF HistoryOK
<1>2. CASE Emits
  <2>1. PICK token : IsNew(token) /\ token.type \in Types /\ Emit(token)
    BY <1>2 DEF Emits
  <2>2. FeedOK /\ ContextOK /\ ContextOK'
    BY StateStep DEF StateOK
  <2> QED
    BY <2>1, <2>2, EmitHistory
<1>3. CASE Croaks
  <2>1. PICK item : /\ IsNew(item) /\ item.type \notin Types
                    /\ items' = Append(items, item) /\ UNCHANGED context
    BY <1>3 DEF Croaks
  <2> QED
    BY <2>1, CroakHistory DEF StateOK
<1> QED
  BY <1>1, <1>2, <1>3, StepIs

LEMMA InitialHistory == ASSUME Init PROVE HistoryOK
<1> DEFINE stack == [n \in 0..0 |-> <<Default>>]
<1>1. items = <<>> /\ Len(items) = 0
  BY DEF Init
<1>2. <<Default>> \in Seq(Modes) \ {<<>>}
  BY LexerAssumption
<1>3. IsHistory(stack, items) /\ stack[0] = <<Default>>
  BY <1>1, <1>2 DEF IsHistory
<1>4. LastIn(items, 0) = 0
  BY LastInIs
<1> HIDE DEF stack
<1> QED
  BY <1>1, <1>3, <1>4 DEF Init, HistoryOK

\* The context of the lexer keeps the history of the tokens.
THEOREM HistoryInvariance == Spec => []HistoryOK
<1>1. Init => HistoryOK
  BY InitialHistory
<1>2. StateOK /\ HistoryOK /\ [Next]_vars => HistoryOK'
  BY HistoryStep
<1> QED
  BY <1>1, <1>2, StateInvariance, PTL DEF Spec

LEMMA HistoryIsOfTokens == ASSUME StateOK, HistoryOK PROVE ContextIsOfTokens
<1> DEFINE N == Len(items)
           D == 0..N
           Right(f) ==
             [n \in D |->
                IF n = 0 THEN <<Default>>
                ELSE IF items[n].type \notin Types THEN f[n - 1]
                ELSE Switched(f[n - 1], items[n], f[n - 1][Len(f[n - 1])], LastType(LastOf(n - 1)))]
           table == CHOOSE f : f = Right(f)
           last == LastOf(N)
<1>1. PICK stack : IsHistory(stack, items) /\ modeStack = stack[N]
  BY DEF HistoryOK
<1>2. /\ N \in Nat /\ lexCtx \in [lastToken : D, lastMode : Modes, mode : Modes]
      /\ IsRange(D, N) /\ \A n \in D : n \in Nat /\ (n # 0 => n - 1 \in D /\ n - 1 < n)
  BY DEF StateOK, FeedOK, ContextOK, IsRange
<1>3. \A n : LastOf(n) = LastIn(items, n) /\ LastType(n) = LastTypeIn(items, n)
  BY DEF LastOf, Significant, LastIn, SignificantIn, LastType, LastTypeIn
<1>4. stack = Right(stack)
  <2>1. \A n \in D : stack[n] =
          IF n = 0 THEN <<Default>>
          ELSE IF items[n].type \notin Types THEN stack[n - 1]
          ELSE Switched(stack[n - 1], items[n], stack[n - 1][Len(stack[n - 1])], LastType(LastOf(n - 1)))
    BY <1>1, <1>3, Zenon DEF IsHistory, StackAt
  <2>2. stack \in [D -> Seq(Modes) \ {<<>>}]
    BY <1>1 DEF IsHistory
  <2> QED
    BY <2>1, <2>2
<1>5. table = Right(table)
  BY <1>4, Zenon
<1> HIDE DEF table
<1> DEFINE Same == {n \in D : table[n] = stack[n]}
<1>6. ASSUME NEW n \in D, \A m \in D : m < n => m \in Same PROVE n \in Same
  <2>1. table[n] = Right(table)[n] /\ stack[n] = Right(stack)[n]
    BY <1>4, <1>5, Zenon
  <2>2. n # 0 => table[n - 1] = stack[n - 1]
    BY <1>2, <1>6
  <2>3. Right(table)[n] = Right(stack)[n]
    BY <2>2
  <2> QED
    BY <1>6, <2>1, <2>3
<1>7. D \subseteq Same
  <2>1. \A n \in D : (\A m \in D : m < n => m \in Same) => n \in Same
    BY <1>6
  <2> HIDE DEF Same, D
  <2> QED
    BY <1>2, <2>1, UpInduction
<1>8. modeStack = table[N]
  BY <1>1, <1>2, <1>7
<1>9. lexCtx = [lastToken |-> last,
                lastMode |-> IF last = 0 THEN Default ELSE items[last].mode,
                mode |-> modeStack[Len(modeStack)]]
  <2>1. /\ lexCtx.lastToken = last
        /\ lexCtx.lastMode = IF lexCtx.lastToken = 0 THEN Default ELSE items[lexCtx.lastToken].mode
        /\ lexCtx.mode = modeStack[Len(modeStack)]
    BY <1>3 DEF HistoryOK
  <2>2. lexCtx = [lastToken |-> lexCtx.lastToken, lastMode |-> lexCtx.lastMode, mode |-> lexCtx.mode]
    BY <1>2
  <2> HIDE DEF last
  <2> QED
    BY <2>1, <2>2
<1> QED
  BY <1>8, <1>9, Zenon DEF ContextIsOfTokens, table

\* lexer.ts:27: the context is "a pure function of the tokens already emitted",
\* of any lexer, on any text, however its client mixed peek and next and
\* whatever errors it met.
THEOREM ContextIsPure == Spec => []ContextIsOfTokens
BY StateInvariance, HistoryInvariance, HistoryIsOfTokens, PTL

-------------------------------------------------------------------------------
(* The walk of a trie finds the longest entry.                             *)

\* A sequence is what the text has where these are its symbols.
ReadsAs(seq, symbols) == \A k \in 1..Len(seq) : seq[k] = symbols[k]

\* The walk has gone down the symbols of the text, and knows the last entry on
\* the way.
WalkIs(entries, symbols, walked, last) ==
  /\ ReadsAs(walked, symbols)
  /\ \A k \in 1..Len(walked) : SubSeq(walked, 1, k) \in entries => k <= Len(last)
  /\ last # <<>> => /\ last \in entries /\ Len(last) \in 1..Len(walked)
                    /\ last = SubSeq(walked, 1, Len(last))

LEMMA WalkBegins ==
  ASSUME NEW entries, NEW symbols
  PROVE  WalkIs(entries, symbols, <<>>, <<>>)
BY DEF WalkIs, ReadsAs

LEMMA PrefixOf ==
  ASSUME NEW S, NEW s \in Seq(S), NEW x \in S, NEW k \in 0..Len(s)
  PROVE  /\ SubSeq(Append(s, x), 1, k) = SubSeq(s, 1, k)
         /\ SubSeq(s, 1, Len(s)) = s
         /\ SubSeq(Append(s, x), 1, Len(s) + 1) = Append(s, x)
<1>1. SubSeq(Append(s, x), 1, k) = SubSeq(s, 1, k)
  OBVIOUS
<1>2. SubSeq(s, 1, Len(s)) = s
  OBVIOUS
<1>3. SubSeq(Append(s, x), 1, Len(s) + 1) = Append(s, x)
  OBVIOUS
<1> QED
  BY <1>1, <1>2, <1>3

LEMMA WalkGoesDown ==
  ASSUME NEW S, NEW entries, NEW symbols, NEW walked \in Seq(S), NEW last,
         last = <<>> \/ last \in Seq(S),
         WalkIs(entries, symbols, walked, last), NEW symbol \in S,
         symbol = symbols[Len(walked) + 1],
         NEW found1, found1 = IF Append(walked, symbol) \in entries THEN Append(walked, symbol) ELSE last
  PROVE  WalkIs(entries, symbols, Append(walked, symbol), found1)
<1> DEFINE longer == Append(walked, symbol)
           N == Len(walked)
<1>1. /\ N \in Nat /\ longer \in Seq(S) /\ Len(longer) = N + 1 /\ longer[N + 1] = symbol
      /\ \A k \in 1..N : longer[k] = walked[k]
  OBVIOUS
<1>2. /\ \A k \in 1..N : SubSeq(longer, 1, k) = SubSeq(walked, 1, k)
      /\ SubSeq(longer, 1, N + 1) = longer
  BY PrefixOf
<1> SUFFICES WalkIs(entries, symbols, longer, found1)
  OBVIOUS
<1> HIDE DEF longer
<1>3. ReadsAs(longer, symbols)
  BY <1>1 DEF WalkIs, ReadsAs
<1>4. CASE longer \in entries
  <2>1. found1 = longer /\ longer # <<>>
    BY <1>1, <1>4 DEF longer
  <2> QED
    BY <1>1, <1>2, <1>3, <1>4, <2>1 DEF WalkIs
<1>5. CASE longer \notin entries
  <2>1. found1 = last
    BY <1>5 DEF longer
  <2>2. \A k \in 1..Len(longer) : SubSeq(longer, 1, k) \in entries => k <= Len(last)
    <3> SUFFICES ASSUME NEW k \in 1..Len(longer), SubSeq(longer, 1, k) \in entries
                 PROVE  k <= Len(last)
      OBVIOUS
    <3>1. k # N + 1
      BY <1>2, <1>5
    <3>2. k \in 1..N
      BY <1>1, <3>1
    <3>3. SubSeq(walked, 1, k) \in entries
      BY <1>2, <3>2, Zenon
    <3> QED
      BY <3>2, <3>3 DEF WalkIs
  <2>3. last # <<>> => /\ last \in entries /\ Len(last) \in 1..Len(longer)
                       /\ last = SubSeq(longer, 1, Len(last))
    BY <1>1, <1>2 DEF WalkIs
  <2> QED
    BY <1>3, <2>1, <2>2, <2>3 DEF WalkIs
<1> QED
  BY <1>4, <1>5 DEF longer

\* Where no child goes on, no entry that the text has there is longer than the
\* last one passed.
LEMMA WalkFindsLongest ==
  ASSUME NEW S, NEW entries, entries \subseteq Seq(S), <<>> \notin entries, NEW symbols,
         NEW walked \in Seq(S), NEW last, WalkIs(entries, symbols, walked, last),
         Append(walked, symbols[Len(walked) + 1]) \notin Nodes(entries)
  PROVE  LET there == {entry \in entries : ReadsAs(entry, symbols)}
         IN  IF last = <<>> THEN there = {} ELSE IsLongest(last, there)
<1> DEFINE N == Len(walked)
           there == {entry \in entries : ReadsAs(entry, symbols)}
<1>1. N \in Nat
  OBVIOUS
<1>2. ASSUME NEW entry \in there
      PROVE  /\ Len(entry) \in 1..N /\ entry = SubSeq(walked, 1, Len(entry))
  <2>1. /\ entry \in Seq(S) /\ Len(entry) \in Nat /\ entry \in entries
        /\ ReadsAs(entry, symbols) /\ entry # <<>>
    OBVIOUS
  <2>2. Len(entry) > 0
    <3>1. \A s \in Seq(S) : s # <<>> => Len(s) > 0
      OBVIOUS
    <3> QED
      BY <2>1, <3>1
  <2>3. Len(entry) <= N
    <3> SUFFICES ASSUME Len(entry) > N PROVE FALSE
      BY <1>1, <2>1
    <3> DEFINE begin == SubSeq(entry, 1, N + 1)
               next == Append(walked, symbols[N + 1])
    <3>1. N + 1 \in 0..Len(entry) /\ N + 1 \in 1..Len(entry)
      BY <1>1, <2>1
    <3>2. begin \in Nodes(entries)
      BY <2>1, <3>1 DEF Nodes
    <3>3. begin = next
      <4>1. /\ begin \in Seq(S) /\ Len(begin) = N + 1
            /\ \A k \in 1..(N + 1) : begin[k] = entry[k]
        BY <1>1, <2>1, <3>1
      <4>2. symbols[N + 1] \in S
        <5>1. symbols[N + 1] = entry[N + 1]
          BY <2>1, <3>1 DEF ReadsAs
        <5> QED
          BY <2>1, <3>1, <5>1
      <4>3. /\ next \in Seq(S) /\ Len(next) = N + 1 /\ next[N + 1] = symbols[N + 1]
            /\ \A k \in 1..N : next[k] = walked[k]
        BY <4>2
      <4>4. \A k \in 1..(N + 1) : entry[k] = symbols[k]
        BY <2>1, <3>1 DEF ReadsAs
      <4>5. \A k \in 1..N : walked[k] = symbols[k]
        BY DEF WalkIs, ReadsAs
      <4> HIDE DEF begin, next
      <4>6. \A k \in 1..(N + 1) : begin[k] = next[k]
        BY <1>1, <4>1, <4>3, <4>4, <4>5
      <4> QED
        BY <4>1, <4>3, <4>6
    <3> QED
      BY <3>2, <3>3
  <2>4. entry = SubSeq(walked, 1, Len(entry))
    <3> DEFINE begin == SubSeq(walked, 1, Len(entry))
    <3>1. /\ begin \in Seq(S) /\ Len(begin) = Len(entry)
          /\ \A k \in 1..Len(entry) : begin[k] = walked[k]
      BY <1>1, <2>1, <2>3
    <3>2. \A k \in 1..Len(entry) : entry[k] = symbols[k] /\ walked[k] = symbols[k]
      BY <1>1, <2>1, <2>3 DEF WalkIs, ReadsAs
    <3> HIDE DEF begin
    <3>3. entry = begin
      BY <2>1, <3>1, <3>2
    <3> QED
      BY <3>3 DEF begin
  <2> QED
    BY <1>1, <2>1, <2>2, <2>3, <2>4
<1>3. ASSUME NEW entry \in there PROVE Len(entry) <= Len(last)
  <2>1. Len(entry) \in 1..Len(walked) /\ SubSeq(walked, 1, Len(entry)) \in entries
    BY <1>2, <1>3
  <2> QED
    BY <2>1 DEF WalkIs
<1>4. CASE last = <<>>
  <2>1. ASSUME NEW entry \in there PROVE FALSE
    BY <1>2, <1>3, <1>4, <2>1
  <2> QED
    BY <1>4, <2>1
<1>5. CASE last # <<>>
  <2>1. last \in entries /\ Len(last) \in 1..N /\ last = SubSeq(walked, 1, Len(last))
    BY <1>5 DEF WalkIs
  <2>2. ReadsAs(last, symbols)
    <3> DEFINE n == Len(last)
    <3>1. \A k \in 1..n : SubSeq(walked, 1, n)[k] = walked[k]
      BY <1>1, <2>1
    <3>2. \A k \in 1..n : last[k] = walked[k]
      BY <2>1, <3>1, Zenon
    <3>3. \A k \in 1..n : walked[k] = symbols[k]
      BY <1>1, <2>1 DEF WalkIs, ReadsAs
    <3> QED
      BY <3>2, <3>3 DEF ReadsAs
  <2> QED
    BY <1>3, <1>5, <2>1, <2>2 DEF IsLongest
<1> QED
  BY <1>4, <1>5

-------------------------------------------------------------------------------
(* The places of the words of a keyword.                                   *)

\* A word and the whitespace behind it.
WordNext(m, q) ==
  LET wordEnd == q + RunOf(q, m.part) IN wordEnd + RunOf(wordEnd, m.space)

IsWords(f, p, m, N) ==
  /\ f \in [1..N -> 0..Len(text)]
  /\ \A k \in 1..N : f[k] = IF k = 1 THEN p ELSE WordNext(m, f[k - 1])

LEMMA WordNextIs ==
  ASSUME TextOK, NEW m, m.part \subseteq Chars, m.space \subseteq Chars, NEW q \in 0..Len(text)
  PROVE  WordNext(m, q) \in 0..Len(text)
<1> DEFINE wordEnd == q + RunOf(q, m.part)
<1>1. Len(text) \in Nat /\ q \in Nat /\ q <= Len(text)
  BY CharFacts
<1>2. wordEnd \in Nat /\ wordEnd <= Len(text)
  BY <1>1, RunIs
<1>3. WordNext(m, q) = wordEnd + RunOf(wordEnd, m.space)
  BY DEF WordNext
<1> HIDE DEF wordEnd
<1>4. RunOf(wordEnd, m.space) \in Nat /\ wordEnd + RunOf(wordEnd, m.space) <= Len(text)
  BY <1>1, <1>2, RunIs
<1> QED
  BY <1>1, <1>2, <1>3, <1>4

LEMMA WordTable ==
  ASSUME TextOK, NEW m, m.part \subseteq Chars, m.space \subseteq Chars, NEW p \in 0..Len(text),
         NEW N \in Nat \ {0}
  PROVE  \E f : IsWords(f, p, m, N) /\ WordFrom(p, m, N) = f[N]
<1> DEFINE D == 1..N
           V == 0..Len(text)
           Right(f) == [k \in D |-> IF k = 1 THEN p
                                    ELSE LET wordEnd == f[k - 1] + RunOf(f[k - 1], m.part)
                                         IN  wordEnd + RunOf(wordEnd, m.space)]
           step_ == [f \in [D -> V] |-> Right(f)]
           from == CHOOSE f : f = Right(f)
<1>1. /\ IsRange(D, N) /\ N \in D /\ V # {} /\ p \in V
      /\ \A k \in D : k \in Nat /\ (k # 1 => k - 1 \in D /\ k - 1 < k)
  BY CharFacts DEF IsRange
<1>2. \A q \in V : WordNext(m, q) \in V
  BY WordNextIs
<1>3. WordFrom(p, m, N) = from[N]
  BY DEF WordFrom
<1>4. \A f : Right(f) = [k \in D |-> IF k = 1 THEN p ELSE WordNext(m, f[k - 1])]
  BY DEF WordNext
<1> HIDE DEF V, Right
<1>5. \E f \in [D -> V] : f = step_[f]
  <2>1. IsStep(D, V, step_)
    <3>1. ASSUME NEW f \in [D -> V] PROVE Right(f) \in [D -> V]
      BY <1>1, <1>2, <1>4
    <3> QED
      BY <3>1 DEF IsStep
  <2>2. LooksBack(D, V, step_)
    <3>1. ASSUME NEW f \in [D -> V], NEW g \in [D -> V], NEW k \in D,
                 \A j \in D : j < k => f[j] = g[j]
          PROVE  step_[f][k] = step_[g][k]
      <4>1. k # 1 => f[k - 1] = g[k - 1]
        BY <1>1, <3>1
      <4> QED
        BY <1>4, <4>1
    <3> QED
      BY <3>1 DEF LooksBack
  <2> HIDE DEF D, step_
  <2> QED
    BY <1>1, <2>1, <2>2, Upward
<1>6. from = Right(from) /\ from \in [D -> V]
  <2>1. PICK f \in [D -> V] : f = step_[f]
    BY <1>5
  <2>2. f = Right(f)
    BY <2>1
  <2>3. from = Right(from)
    BY <2>2, Zenon
  <2> HIDE DEF from
  <2> DEFINE Typed == {k \in D : from[k] \in V}
  <2>4. \A k \in D : from[k] = IF k = 1 THEN p ELSE WordNext(m, from[k - 1])
    <3>1. \A k \in D : Right(from)[k] = IF k = 1 THEN p ELSE WordNext(m, from[k - 1])
      BY <1>4
    <3> QED
      BY <2>3, <3>1, Zenon
  <2>5. D \subseteq Typed
    <3>1. ASSUME NEW k \in D, \A j \in D : j < k => j \in Typed PROVE k \in Typed
      <4>1. CASE k = 1
        BY <1>1, <2>4, <3>1, <4>1
      <4>2. CASE k # 1
        <5>1. from[k - 1] \in V
          BY <1>1, <3>1, <4>2
        <5> QED
          BY <1>2, <2>4, <3>1, <4>2, <5>1
      <4> QED
        BY <4>1, <4>2
    <3>2. \A k \in D : (\A j \in D : j < k => j \in Typed) => k \in Typed
      BY <3>1
    <3> HIDE DEF Typed, D
    <3> QED
      BY <1>1, <3>2, UpInduction
  <2>6. Right(from) = [k \in D |-> from[k]]
    <3>1. Right(from) = [k \in D |-> IF k = 1 THEN p ELSE WordNext(m, from[k - 1])]
      BY <1>4
    <3> QED
      BY <2>4, <3>1
  <2>7. from \in [D -> V]
    BY <2>3, <2>5, <2>6
  <2> QED
    BY <2>3, <2>7
<1> HIDE DEF from
<1>7. \A k \in D : from[k] = IF k = 1 THEN p ELSE WordNext(m, from[k - 1])
  <2>1. \A k \in D : Right(from)[k] = IF k = 1 THEN p ELSE WordNext(m, from[k - 1])
    BY <1>4
  <2> QED
    BY <1>6, <2>1, Zenon
<1> QED
  BY <1>3, <1>6, <1>7, Zenon DEF IsWords, V

LEMMA WordsAgree ==
  ASSUME NEW f, NEW g, NEW p, NEW m, NEW N \in Nat, NEW K \in 0..N,
         IsWords(f, p, m, N), IsWords(g, p, m, K)
  PROVE  \A k \in 1..K : f[k] = g[k]
<1> DEFINE D == 1..K
           Same == {k \in D : f[k] = g[k]}
<1>1. IsRange(D, K) /\ \A k \in D : k \in 1..N /\ (k # 1 => k - 1 \in D /\ k - 1 < k)
  BY DEF IsRange
<1>2. ASSUME NEW k \in D, \A j \in D : j < k => j \in Same PROVE k \in Same
  <2>1. k # 1 => f[k - 1] = g[k - 1]
    BY <1>1, <1>2
  <2>2. /\ f[k] = IF k = 1 THEN p ELSE WordNext(m, f[k - 1])
        /\ g[k] = IF k = 1 THEN p ELSE WordNext(m, g[k - 1])
    BY <1>1, Zenon DEF IsWords
  <2> QED
    BY <2>1, <2>2
<1>3. \A k \in D : (\A j \in D : j < k => j \in Same) => k \in Same
  BY <1>2
<1>4. D \subseteq Same
  <2> HIDE DEF Same, D
  <2> QED
    BY <1>1, <1>3, UpInduction
<1> QED
  BY <1>4

\* The first word is where the walk begins, each other one behind the
\* whitespace behind the one before it.
LEMMA WordFromIs ==
  ASSUME TextOK, NEW m, m.part \subseteq Chars, m.space \subseteq Chars, NEW p \in 0..Len(text),
         NEW n \in Nat \ {0}
  PROVE  /\ WordFrom(p, m, 1) = p
         /\ WordFrom(p, m, n) \in 0..Len(text)
         /\ WordFrom(p, m, n + 1) = WordNext(m, WordFrom(p, m, n))
<1>1. PICK f : IsWords(f, p, m, n + 1) /\ WordFrom(p, m, n + 1) = f[n + 1]
  BY WordTable
<1>2. PICK g : IsWords(g, p, m, n) /\ WordFrom(p, m, n) = g[n]
  BY WordTable
<1>3. PICK h : IsWords(h, p, m, 1) /\ WordFrom(p, m, 1) = h[1]
  BY WordTable
<1>4. f[n] = g[n]
  <2>1. n + 1 \in Nat /\ n \in 0..(n + 1) /\ n \in 1..n
    OBVIOUS
  <2> QED
    BY <1>1, <1>2, <2>1, WordsAgree
<1>5. f[n + 1] = WordNext(m, f[n])
  <2>1. n + 1 \in 1..(n + 1) /\ n + 1 # 1 /\ (n + 1) - 1 = n
    OBVIOUS
  <2> QED
    BY <1>1, <2>1 DEF IsWords
<1>6. g[n] \in 0..Len(text) /\ h[1] = p
  BY <1>2, <1>3 DEF IsWords
<1> QED
  BY <1>1, <1>2, <1>3, <1>4, <1>5, <1>6

-------------------------------------------------------------------------------
(* The walk of the lexer.                                                  *)

KeywordSymbols(p, m) ==
  [k \in Nat \ {0} |-> LET from == WordFrom(p, m, k) IN Ahead(from, RunOf(from, m.part))]

PunctuationSymbols(p) == [k \in Nat \ {0} |-> Char(p + (k - 1))]

KeywordWalkOK ==
  /\ node \in Seq(Seq(Chars)) /\ found \in Seq(Seq(Chars))
  /\ WalkIs(mode.keywords, KeywordSymbols(began.pos, mode), node, found)
  /\ at.pos = WordFrom(began.pos, mode, Len(node) + 1)
  /\ found # <<>> => slot.pos = WordsEnd(began.pos, mode, Len(found))

PunctuationWalkOK ==
  /\ node \in Seq(Chars) /\ found \in Seq(Chars)
  /\ WalkIs(mode.punctuation, PunctuationSymbols(began.pos), node, found)
  /\ at.pos = began.pos + Len(node)
  /\ found # <<>> => slot.pos = began.pos + Len(found)

\* A word is read as an identifier only when it begins no keyword.
ReachOK ==
  /\ step = "keyword" => KeywordWalkOK
  /\ step = "punctuation" => PunctuationWalkOK
  /\ step = "identifier" => KeywordsAt(began.pos, mode) = {}
  /\ step = "unexpected" => PunctuationAt(began.pos, mode) = {}

LEMMA TextStays ==
  ASSUME UNCHANGED <<text, began, lexCtx>>
  PROVE  /\ mode' = mode
         /\ KeywordSymbols(began.pos, mode)' = KeywordSymbols(began.pos, mode)
         /\ PunctuationSymbols(began.pos)' = PunctuationSymbols(began.pos)
         /\ KeywordsAt(began.pos, mode)' = KeywordsAt(began.pos, mode)
         /\ PunctuationAt(began.pos, mode)' = PunctuationAt(began.pos, mode)
         /\ \A n : WordFrom(began.pos, mode, n)' = WordFrom(began.pos, mode, n)
         /\ \A n : WordsEnd(began.pos, mode, n)' = WordsEnd(began.pos, mode, n)
<1>1. mode' = mode
  BY DEF mode
<1>2. KeywordSymbols(began.pos, mode)' = KeywordSymbols(began.pos, mode)
  BY <1>1 DEF KeywordSymbols, WordFrom, Ahead, RunOf, Char
<1>3. PunctuationSymbols(began.pos)' = PunctuationSymbols(began.pos)
  BY DEF PunctuationSymbols, Char
<1>4. KeywordsAt(began.pos, mode)' = KeywordsAt(began.pos, mode)
  BY <1>1 DEF KeywordsAt, WordFrom, Ahead, RunOf, Char
<1>5. PunctuationAt(began.pos, mode)' = PunctuationAt(began.pos, mode)
  BY <1>1 DEF PunctuationAt, StartsWith, Char
<1>6. \A n : WordFrom(began.pos, mode, n)' = WordFrom(began.pos, mode, n)
  BY <1>1 DEF WordFrom, RunOf, Char
<1>7. \A n : WordsEnd(began.pos, mode, n)' = WordsEnd(began.pos, mode, n)
  BY <1>1 DEF WordsEnd, WordFrom, RunOf, Char
<1> QED
  BY <1>1, <1>2, <1>3, <1>4, <1>5, <1>6, <1>7

LEMMA KeywordsAre ==
  ASSUME NEW p, NEW m
  PROVE  KeywordsAt(p, m) = {entry \in m.keywords : ReadsAs(entry, KeywordSymbols(p, m))}
<1>1. \A k \in Nat \ {0} :
        KeywordSymbols(p, m)[k] = LET from == WordFrom(p, m, k) IN Ahead(from, RunOf(from, m.part))
  BY DEF KeywordSymbols
<1>2. ASSUME NEW entry
      PROVE  ReadsAs(entry, KeywordSymbols(p, m))
             <=> \A k \in 1..Len(entry) :
                   LET from == WordFrom(p, m, k) IN Ahead(from, RunOf(from, m.part)) = entry[k]
  <2>1. 1..Len(entry) \subseteq Nat \ {0}
    OBVIOUS
  <2> QED
    BY <1>1, <2>1, Zenon DEF ReadsAs
<1> QED
  BY <1>2, Zenon DEF KeywordsAt

LEMMA PunctuationIs ==
  ASSUME NEW p \in Nat, NEW m
  PROVE  PunctuationAt(p, m) = {entry \in m.punctuation : ReadsAs(entry, PunctuationSymbols(p))}
<1>1. \A k \in Nat \ {0} : PunctuationSymbols(p)[k] = Char(p + (k - 1)) /\ p + k - 1 = p + (k - 1)
  BY DEF PunctuationSymbols
<1>2. ASSUME NEW entry
      PROVE  ReadsAs(entry, PunctuationSymbols(p)) <=> StartsWith(p, entry)
  <2>1. 1..Len(entry) \subseteq Nat \ {0}
    OBVIOUS
  <2> QED
    BY <1>1, <2>1, Zenon DEF ReadsAs, StartsWith
<1> QED
  BY <1>2, Zenon DEF PunctuationAt

LEMMA ModeSymbols ==
  ASSUME lexCtx.mode \in Modes
  PROVE  /\ mode.part \subseteq Chars /\ mode.space \subseteq Chars
         /\ mode.keywords \subseteq Seq(Seq(Chars)) /\ <<>> \notin mode.keywords
         /\ mode.punctuation \subseteq Seq(Chars) /\ <<>> \notin mode.punctuation
<1>1. /\ \A entry \in mode.keywords : entry \in Seq(Seq(Chars)) /\ entry # <<>>
      /\ \A entry \in mode.punctuation : entry \in Seq(Chars) /\ entry # <<>>
      /\ mode.part \subseteq Chars /\ mode.space \subseteq Chars
  BY ModeIs DEF mode
<1> QED
  BY <1>1, Zenon

LEMMA DispatchReaches ==
  ASSUME InputOK, lexCtx.mode \in Modes, step = "reader", at = began, Dispatch
  PROVE  ReachOK'
<1>1. /\ slot' = at /\ node' = <<>> /\ found' = <<>>
      /\ UNCHANGED <<text, at, began, lexCtx>>
  BY DEF Dispatch, StartWalk, Snapshot, context
<1>2. /\ step' \in {"keyword", "identifier", "punctuation", "unexpected"}
      /\ step' = "identifier" => mode.keywords = {}
      /\ step' = "unexpected" => mode.punctuation = {}
  BY DEF Dispatch, Goes
<1>3. /\ TextOK /\ began.pos \in 0..Len(text) /\ began.pos \in Nat
      /\ mode.part \subseteq Chars /\ mode.space \subseteq Chars
  BY PlaceIs, TextIs, ModeSymbols DEF InputOK, Dispatch, Eof, Char
<1>4. /\ mode' = mode
      /\ WordFrom(began.pos, mode, 1)' = WordFrom(began.pos, mode, 1)
      /\ KeywordsAt(began.pos, mode)' = KeywordsAt(began.pos, mode)
      /\ PunctuationAt(began.pos, mode)' = PunctuationAt(began.pos, mode)
  BY <1>1, TextStays
<1>5. <<>> \in Seq(Chars) /\ <<>> \in Seq(Seq(Chars))
  OBVIOUS
<1>6. Len(node') = 0
  BY <1>1
<1>7. KeywordWalkOK'
  <2>1. WordFrom(began.pos, mode, 1) = began.pos
    <3>1. 1 \in Nat \ {0}
      OBVIOUS
    <3> QED
      BY <1>3, <3>1, WordFromIs
  <2>2. WalkIs(mode.keywords, KeywordSymbols(began.pos, mode), node, found)'
    BY <1>1, WalkBegins
  <2>3. at'.pos = WordFrom(began.pos, mode, Len(node) + 1)'
    BY <1>1, <1>4, <1>6, <2>1
  <2> QED
    BY <1>1, <1>5, <2>2, <2>3 DEF KeywordWalkOK
<1>8. PunctuationWalkOK'
  <2>1. WalkIs(mode.punctuation, PunctuationSymbols(began.pos), node, found)'
    BY <1>1, WalkBegins
  <2>2. at'.pos = began'.pos + Len(node')
    BY <1>1, <1>3, <1>6
  <2> QED
    BY <1>1, <1>5, <2>1, <2>2 DEF PunctuationWalkOK
<1>9. step' = "identifier" => KeywordsAt(began.pos, mode)' = {}
  BY <1>2, <1>4 DEF KeywordsAt
<1>10. step' = "unexpected" => PunctuationAt(began.pos, mode)' = {}
  BY <1>2, <1>4 DEF PunctuationAt
<1> QED
  BY <1>2, <1>7, <1>8, <1>9, <1>10 DEF ReachOK

LEMMA WordReaches ==
  ASSUME StateOK, ReachOK, KeywordWord
  PROVE  ReachOK'
<1> DEFINE p == began.pos
           n == Len(node)
           symbols == KeywordSymbols(p, mode)
           to == Moved(at, Len(word))
           m == RunOf(to.pos, mode.space)
<1>1. /\ step = "keyword" /\ step' = step
      /\ Descend(mode.keywords, word, to, m)
      /\ UNCHANGED <<text, began, lexCtx>>
  BY DEF KeywordWord, Walks, context
<1>2. /\ InputOK /\ StandOK /\ lexCtx.mode \in Modes /\ TextOK /\ Len(text) \in Nat
      /\ node \in Seq(Seq(Chars)) /\ found \in Seq(Seq(Chars)) /\ n \in Nat
      /\ WalkIs(mode.keywords, symbols, node, found)
      /\ at.pos = WordFrom(p, mode, n + 1)
      /\ found # <<>> => slot.pos = WordsEnd(p, mode, Len(found))
  BY <1>1, TextIs DEF StateOK, InputOK, ContextOK, ReachOK, KeywordWalkOK
<1>3. at.pos \in Nat /\ p \in Nat /\ p <= at.pos /\ at.pos <= Len(text)
  BY <1>1, <1>2, PlaceIs DEF InputOK, StandOK
<1>4. mode.part \subseteq Chars /\ mode.space \subseteq Chars
  BY <1>2, ModeSymbols
<1> DEFINE r == RunOf(at.pos, mode.part)
<1>5. /\ r \in Nat /\ at.pos + r <= Len(text)
      /\ word = Ahead(at.pos, r) /\ word \in Seq(Chars) /\ Len(word) = r
  BY <1>2, <1>3, <1>4, WordIs DEF InputOK, word
<1>6. to.pos = at.pos + r /\ to \in TruePlaces(text)
  BY <1>2, <1>5, MovedIsTrue DEF InputOK
<1>7. m \in Nat /\ Moved(to, m).pos = to.pos + m
  <2>1. to.pos \in Nat /\ to.pos <= Len(text)
    BY <1>3, <1>5, <1>6
  <2> HIDE DEF to
  <2>2. m \in Nat
    BY <1>2, <1>4, <2>1, WordIs DEF InputOK
  <2> QED
    BY <1>6, <2>2, MovedIsTrue
<1>8. word = symbols[n + 1]
  <2>1. n + 1 \in Nat \ {0}
    BY <1>2
  <2> QED
    BY <1>2, <1>5, <2>1 DEF KeywordSymbols
<1>9. /\ WordsEnd(p, mode, n + 1) = to.pos
      /\ WordFrom(p, mode, n + 2) = to.pos + m
  <2>1. WordsEnd(p, mode, n + 1) = at.pos + r
    BY <1>2 DEF WordsEnd
  <2>2. WordNext(mode, at.pos) = to.pos + m
    BY <1>6 DEF WordNext
  <2>3. WordFrom(p, mode, (n + 1) + 1) = WordNext(mode, WordFrom(p, mode, n + 1))
    <3> DEFINE k == n + 1
    <3>1. k \in Nat \ {0} /\ p \in 0..Len(text)
      BY <1>2, <1>3
    <3> HIDE DEF k
    <3>2. mode.part \subseteq Chars /\ mode.space \subseteq Chars /\ TextOK
      BY <1>2, <1>4
    <3>3. WordFrom(p, mode, k + 1) = WordNext(mode, WordFrom(p, mode, k))
      BY <3>1, <3>2, WordFromIs
    <3> QED
      BY <3>3 DEF k
  <2>4. (n + 1) + 1 = n + 2
    BY <1>2
  <2> QED
    BY <1>2, <1>6, <2>1, <2>2, <2>3, <2>4
<1>10. /\ node' = Append(node, word) /\ at' = Moved(to, m)
       /\ IF node' \in mode.keywords THEN slot' = to /\ found' = node' ELSE slot' = slot /\ found' = found
  BY <1>1 DEF Descend
<1>11. /\ mode' = mode /\ KeywordSymbols(began.pos, mode)' = symbols
       /\ \A k : WordFrom(began.pos, mode, k)' = WordFrom(p, mode, k)
       /\ \A k : WordsEnd(began.pos, mode, k)' = WordsEnd(p, mode, k)
  BY <1>1, TextStays
<1> HIDE DEF p, n, symbols, to, m, r
<1>12. /\ node' \in Seq(Seq(Chars)) /\ Len(node') = n + 1 /\ found' \in Seq(Seq(Chars))
  <2>1. Append(node, word) \in Seq(Seq(Chars)) /\ Len(Append(node, word)) = Len(node) + 1
    BY <1>2, <1>5
  <2>2. node' \in Seq(Seq(Chars)) /\ Len(node') = n + 1
    BY <1>10, <2>1 DEF n
  <2>3. found' \in Seq(Seq(Chars))
    BY <1>2, <1>10, <2>2
  <2> QED
    BY <2>2, <2>3
<1>13. WalkIs(mode.keywords, symbols, node', found')
  <2>1. found' = IF Append(node, word) \in mode.keywords THEN Append(node, word) ELSE found
    BY <1>10
  <2>2. WalkIs(mode.keywords, symbols, Append(node, word), found')
    BY <1>2, <1>5, <1>8, <2>1, WalkGoesDown DEF n
  <2> QED
    BY <1>10, <2>2
<1>14. WalkIs(mode.keywords, KeywordSymbols(began.pos, mode), node, found)'
  BY <1>11, <1>13
<1>15. at'.pos = WordFrom(began.pos, mode, Len(node) + 1)'
  <2>1. WordFrom(began.pos, mode, Len(node) + 1)' = WordFrom(p, mode, (n + 1) + 1)
    BY <1>11, <1>12
  <2>2. (n + 1) + 1 = n + 2
    BY <1>2
  <2> QED
    BY <1>7, <1>9, <1>10, <2>1, <2>2
<1>16. found' # <<>> => slot'.pos = WordsEnd(began.pos, mode, Len(found))'
  <2>1. WordsEnd(began.pos, mode, Len(found))' = WordsEnd(p, mode, Len(found'))
    BY <1>11
  <2> QED
    BY <1>2, <1>9, <1>10, <1>12, <2>1
<1> QED
  BY <1>1, <1>12, <1>14, <1>15, <1>16 DEF ReachOK, KeywordWalkOK

LEMMA PunctuationReaches ==
  ASSUME StateOK, ReachOK, PunctuationChar
  PROVE  ReachOK'
<1> DEFINE p == began.pos
           n == Len(node)
           symbols == PunctuationSymbols(p)
           symbol == Char(at.pos)
           to == Passed(at)
<1>1. /\ step = "punctuation" /\ step' = step
      /\ HasChild(mode.punctuation, symbol)
      /\ Descend(mode.punctuation, symbol, to, 0)
      /\ UNCHANGED <<text, began, lexCtx>>
  BY DEF PunctuationChar, Walks, context
<1>2. /\ InputOK /\ lexCtx.mode \in Modes
      /\ node \in Seq(Chars) /\ found \in Seq(Chars) /\ n \in Nat
      /\ WalkIs(mode.punctuation, symbols, node, found)
      /\ at.pos = p + n
      /\ found # <<>> => slot.pos = p + Len(found)
  BY <1>1 DEF StateOK, ContextOK, ReachOK, PunctuationWalkOK
<1>3. at.pos \in Nat /\ p \in Nat
  BY <1>2, PlaceIs DEF InputOK
<1>4. to.pos = at.pos + 1 /\ to \in TruePlaces(text) /\ Moved(to, 0).pos = to.pos + 0
  BY <1>2, PassedIsTrue, MovedIsTrue DEF InputOK
<1>5. symbol = symbols[n + 1]
  <2>1. n + 1 \in Nat \ {0} /\ p + ((n + 1) - 1) = at.pos
    BY <1>2, <1>3
  <2> QED
    BY <2>1 DEF PunctuationSymbols
<1>6. symbol \in Chars
  <2>1. Append(node, symbol) \in Nodes(mode.punctuation)
    BY <1>1 DEF HasChild
  <2>2. mode.punctuation \subseteq Seq(Chars)
    BY <1>2, ModeSymbols
  <2> HIDE DEF symbol
  <2> QED
    BY <1>2, <2>1, <2>2, SymbolIs
<1>7. /\ node' = Append(node, symbol) /\ at' = Moved(to, 0)
      /\ IF node' \in mode.punctuation THEN slot' = to /\ found' = node'
         ELSE slot' = slot /\ found' = found
  BY <1>1 DEF Descend
<1>8. mode' = mode /\ PunctuationSymbols(began.pos)' = symbols /\ began' = began
  BY <1>1, TextStays
<1> HIDE DEF symbols, symbol, to
<1>9. node' \in Seq(Chars) /\ Len(node') = n + 1 /\ found' \in Seq(Chars)
  BY <1>2, <1>6, <1>7
<1>10. WalkIs(mode.punctuation, symbols, node', found')
  <2>1. found' = IF Append(node, symbol) \in mode.punctuation THEN Append(node, symbol) ELSE found
    BY <1>7
  <2>2. WalkIs(mode.punctuation, symbols, Append(node, symbol), found')
    BY <1>2, <1>5, <1>6, <2>1, WalkGoesDown
  <2> QED
    BY <1>7, <2>2
<1>11. WalkIs(mode.punctuation, PunctuationSymbols(began.pos), node, found)'
  BY <1>8, <1>10
<1>12. at'.pos = began'.pos + Len(node')
  <2>1. at'.pos = (at.pos + 1) + 0
    BY <1>4, <1>7, Zenon
  <2>2. began'.pos + Len(node') = p + (n + 1)
    BY <1>8, <1>9, Zenon
  <2> HIDE DEF p, n
  <2> QED
    BY <1>2, <1>3, <2>1, <2>2
<1>13. found' # <<>> => slot'.pos = began'.pos + Len(found')
  BY <1>2, <1>3, <1>4, <1>7, <1>8, <1>9
<1> QED
  BY <1>1, <1>9, <1>11, <1>12, <1>13 DEF ReachOK, PunctuationWalkOK

\* What the walk tells at its end: the longest entry that the text has here,
\* and where it ends, or that the text has none.
LEMMA KeywordWalkTells ==
  ASSUME StateOK, ReachOK, step = "keyword", ~HasChild(mode.keywords, word)
  PROVE  IF found = <<>> THEN KeywordsAt(began.pos, mode) = {}
         ELSE /\ IsLongest(found, KeywordsAt(began.pos, mode))
              /\ slot.pos = WordsEnd(began.pos, mode, Len(found))
<1> DEFINE p == began.pos
           symbols == KeywordSymbols(p, mode)
           there == {entry \in mode.keywords : ReadsAs(entry, symbols)}
<1>1. /\ node \in Seq(Seq(Chars)) /\ Len(node) \in Nat
      /\ WalkIs(mode.keywords, symbols, node, found)
      /\ at.pos = WordFrom(p, mode, Len(node) + 1)
      /\ found # <<>> => slot.pos = WordsEnd(p, mode, Len(found))
  BY DEF ReachOK, KeywordWalkOK
<1>2. mode.keywords \subseteq Seq(Seq(Chars)) /\ <<>> \notin mode.keywords
  BY ModeSymbols DEF StateOK, ContextOK
<1>3. word = symbols[Len(node) + 1]
  <2>1. Len(node) + 1 \in Nat \ {0}
    BY <1>1
  <2> QED
    BY <1>1, <2>1 DEF KeywordSymbols, word
<1>4. Append(node, symbols[Len(node) + 1]) \notin Nodes(mode.keywords)
  BY <1>3 DEF HasChild
<1>5. KeywordsAt(p, mode) = there
  BY KeywordsAre
<1>6. IF found = <<>> THEN there = {} ELSE IsLongest(found, there)
  <2> HIDE DEF symbols
  <2> QED
    BY <1>1, <1>2, <1>4, WalkFindsLongest
<1> HIDE DEF there
<1> QED
  BY <1>1, <1>5, <1>6

LEMMA PunctuationWalkTells ==
  ASSUME StateOK, ReachOK, step = "punctuation", ~HasChild(mode.punctuation, Char(at.pos))
  PROVE  IF found = <<>> THEN PunctuationAt(began.pos, mode) = {}
         ELSE /\ IsLongest(found, PunctuationAt(began.pos, mode))
              /\ slot.pos = began.pos + Len(found)
<1> DEFINE p == began.pos
           symbols == PunctuationSymbols(p)
           there == {entry \in mode.punctuation : ReadsAs(entry, symbols)}
<1>1. /\ node \in Seq(Chars) /\ Len(node) \in Nat
      /\ WalkIs(mode.punctuation, symbols, node, found)
      /\ at.pos = p + Len(node)
      /\ found # <<>> => slot.pos = p + Len(found)
  BY DEF ReachOK, PunctuationWalkOK
<1>2. mode.punctuation \subseteq Seq(Chars) /\ <<>> \notin mode.punctuation /\ p \in Nat
  BY ModeSymbols, PlaceIs DEF StateOK, ContextOK, InputOK
<1>3. Char(at.pos) = symbols[Len(node) + 1]
  <2>1. Len(node) + 1 \in Nat \ {0} /\ p + ((Len(node) + 1) - 1) = at.pos
    BY <1>1, <1>2
  <2> QED
    BY <2>1 DEF PunctuationSymbols
<1>4. Append(node, symbols[Len(node) + 1]) \notin Nodes(mode.punctuation)
  BY <1>3 DEF HasChild
<1>5. PunctuationAt(p, mode) = there
  BY <1>2, PunctuationIs
<1>6. IF found = <<>> THEN there = {} ELSE IsLongest(found, there)
  <2> HIDE DEF symbols
  <2> QED
    BY <1>1, <1>2, <1>4, WalkFindsLongest
<1> HIDE DEF there
<1> QED
  BY <1>1, <1>5, <1>6

LEMMA ReachStays ==
  ASSUME ReachOK, UNCHANGED <<input, lexCtx, began, walk, step>>
  PROVE  ReachOK'
<1>1. UNCHANGED <<text, at, slot, began, lexCtx, step, node, found>>
  BY DEF input, walk
<1>2. /\ mode' = mode
      /\ KeywordSymbols(began.pos, mode)' = KeywordSymbols(began.pos, mode)
      /\ PunctuationSymbols(began.pos)' = PunctuationSymbols(began.pos)
      /\ KeywordsAt(began.pos, mode)' = KeywordsAt(began.pos, mode)
      /\ PunctuationAt(began.pos, mode)' = PunctuationAt(began.pos, mode)
      /\ \A n : WordFrom(began.pos, mode, n)' = WordFrom(began.pos, mode, n)
      /\ \A n : WordsEnd(began.pos, mode, n)' = WordsEnd(began.pos, mode, n)
  BY <1>1, TextStays
<1>3. WordFrom(began.pos, mode, Len(node) + 1)' = WordFrom(began.pos, mode, Len(node) + 1)
  BY <1>1, <1>2
<1>4. WordsEnd(began.pos, mode, Len(found))' = WordsEnd(began.pos, mode, Len(found))
  BY <1>1, <1>2
<1>5. step = "keyword" => KeywordWalkOK'
  <2>1. KeywordWalkOK => KeywordWalkOK'
    BY <1>1, <1>2, <1>3, <1>4 DEF KeywordWalkOK
  <2> QED
    BY <2>1 DEF ReachOK
<1>6. step = "punctuation" => PunctuationWalkOK'
  <2>1. PunctuationWalkOK => PunctuationWalkOK'
    BY <1>1, <1>2 DEF PunctuationWalkOK
  <2> QED
    BY <2>1 DEF ReachOK
<1>7. /\ step = "identifier" => KeywordsAt(began.pos, mode)' = {}
      /\ step = "unexpected" => PunctuationAt(began.pos, mode)' = {}
  BY <1>2 DEF ReachOK
<1> QED
  BY <1>1, <1>5, <1>6, <1>7 DEF ReachOK

LEMMA ReachStep ==
  ASSUME StateOK, ReachOK, [Next]_vars
  PROVE  ReachOK'
<1>1. CASE UNCHANGED vars \/ Crashed
  <2>1. UNCHANGED <<input, lexCtx, began, walk, step>>
    BY <1>1 DEF vars, context, Crashed
  <2> QED
    BY <2>1, ReachStays
<1>2. CASE Call \/ NextCached \/ SkipSpace \/ EndOfText \/ KeywordAstray \/ Unexpected
           \/ AskReaders \/ ReadIdentifier
  <2>1. step' \in {"space", "idle", "reader", "crashed"}
    BY <1>2 DEF Call, NextCached, SkipSpace, EndOfText, KeywordAstray, Unexpected, AskReaders,
                ReadIdentifier, Take, Emit, LexCroak, Returns, Goes
  <2> QED
    BY <2>1 DEF ReachOK
<1>3. CASE Dispatch
  <2>1. InputOK /\ lexCtx.mode \in Modes /\ step = "reader" /\ at = began
    BY <1>3 DEF StateOK, ContextOK, StandOK, Dispatch
  <2> QED
    BY <1>3, <2>1, DispatchReaches
<1>4. CASE KeywordWord
  BY <1>4, WordReaches
<1>5. CASE PunctuationChar
  BY <1>5, PunctuationReaches
<1>6. CASE KeywordEnds
  <2>1. step = "keyword" /\ ~HasChild(mode.keywords, word) /\ EndWalk("kw", "identifier")
    BY <1>6 DEF KeywordEnds
  <2>2. CASE found # <<>>
    BY <2>1, <2>2 DEF EndWalk, Emit, Returns, ReachOK
  <2>3. CASE found = <<>>
    <3>1. step' = "identifier" /\ UNCHANGED <<text, began, lexCtx>>
      BY <2>1, <2>3 DEF EndWalk, Goes, context
    <3>2. KeywordsAt(began.pos, mode)' = KeywordsAt(began.pos, mode)
      BY <3>1, TextStays
    <3>3. KeywordsAt(began.pos, mode) = {}
      BY <2>1, <2>3, KeywordWalkTells
    <3> QED
      BY <3>1, <3>2, <3>3 DEF ReachOK
  <2> QED
    BY <2>2, <2>3
<1>7. CASE PunctuationEnds
  <2>1. step = "punctuation" /\ ~HasChild(mode.punctuation, Char(at.pos))
        /\ EndWalk("punc", "unexpected")
    BY <1>7 DEF PunctuationEnds
  <2>2. CASE found # <<>>
    BY <2>1, <2>2 DEF EndWalk, Emit, Returns, ReachOK
  <2>3. CASE found = <<>>
    <3>1. step' = "unexpected" /\ UNCHANGED <<text, began, lexCtx>>
      BY <2>1, <2>3 DEF EndWalk, Goes, context
    <3>2. PunctuationAt(began.pos, mode)' = PunctuationAt(began.pos, mode)
      BY <3>1, TextStays
    <3>3. PunctuationAt(began.pos, mode) = {}
      BY <2>1, <2>3, PunctuationWalkTells
    <3> QED
      BY <3>1, <3>2, <3>3 DEF ReachOK
  <2> QED
    BY <2>2, <2>3
<1> QED
  BY <1>1, <1>2, <1>3, <1>4, <1>5, <1>6, <1>7 DEF Next, ReadStep

\* The walk of either trie stands where the symbols it has read end.
THEOREM ReachInvariance == Spec => []ReachOK
<1>1. Init => ReachOK
  BY DEF Init, ReachOK
<1>2. StateOK /\ ReachOK /\ [Next]_vars => ReachOK'
  BY ReachStep
<1> QED
  BY <1>1, <1>2, StateInvariance, PTL DEF Spec

-------------------------------------------------------------------------------
(* The longest entry wins.                                                 *)

\* What LongestEntryWins asks of an item.
Wins(item) ==
  LET m == Mode[item.mode]
  IN  /\ item.type = "kw" =>
           /\ IsLongest(item.value, KeywordsAt(item.from, m))
           /\ item.to = WordsEnd(item.from, m, Len(item.value))
      /\ item.type = "ident" =>
           /\ KeywordsAt(item.from, m) = {}
           /\ item.to = item.from + RunOf(item.from, m.part)
      /\ item.type = "punc" =>
           /\ IsLongest(item.value, PunctuationAt(item.from, m))
           /\ item.to = item.from + Len(item.value)
      /\ item.type = "unexpected" => PunctuationAt(item.from, m) = {}

\* The types of the tokens that the readers make are free; they are to differ
\* from those of the words and the punctuation for a type to tell which it was.
ReadersHaveOwnTypes == MadeTypes \cap {"kw", "ident", "punc"} = {}

WinsOK == \A i \in 1..Len(items) : Wins(items[i])

LEMMA WinsIsLongest == ASSUME WinsOK PROVE LongestEntryWins
BY DEF WinsOK, Wins, LongestEntryWins

\* What wins is a matter of the text alone.
LEMMA WinsStays ==
  ASSUME UNCHANGED text, NEW item
  PROVE  Wins(item)' <=> Wins(item)
BY DEF Wins, IsLongest, KeywordsAt, WordsEnd, WordFrom, Ahead, RunOf, Char, PunctuationAt, StartsWith

LEMMA WinsGrows ==
  ASSUME StateOK, WinsOK, NEW item, IsNew(item), Wins(item), items' = Append(items, item)
  PROVE  WinsOK'
<1>1. item \in LexedItems(text) /\ UNCHANGED text
  BY DEF IsNew
<1>2. /\ Len(items) \in Nat /\ Len(items') = Len(items) + 1 /\ items'[Len(items) + 1] = item
      /\ \A i \in 1..Len(items) : items'[i] = items[i]
  BY <1>1, ItemsGrow DEF StateOK
<1>3. ASSUME NEW i \in 1..Len(items') PROVE Wins(items'[i])
  BY <1>2, <1>3 DEF WinsOK
<1>4. \A item_ : Wins(item_)' <=> Wins(item_)
  BY <1>1, WinsStays
<1> QED
  BY <1>3, <1>4 DEF WinsOK

\* An item is what the step that makes it says.
LEMMA MadeIs ==
  ASSUME FeedOK, NEW item, NEW other, items' = Append(items, item), items' = Append(items, other)
  PROVE  item = other
<1>1. PICK S : items \in Seq(S)
  BY DEF FeedOK
<1> DEFINE T == S \cup {item, other}
<1>2. items \in Seq(T) /\ item \in T /\ other \in T
  BY <1>1
<1> HIDE DEF T
<1>3. \A s \in Seq(T), x \in T : Append(s, x)[Len(s) + 1] = x
  OBVIOUS
<1>4. Append(items, item)[Len(items) + 1] = item /\ Append(items, other)[Len(items) + 1] = other
  BY <1>2, <1>3, Zenon
<1> QED
  BY <1>4

LEMMA KeywordWins ==
  ASSUME StateOK, ReachOK, KeywordEnds, NEW item, IsNew(item), items' = Append(items, item)
  PROVE  Wins(item)
<1>1. /\ step = "keyword" /\ ~HasChild(mode.keywords, word)
      /\ EndWalk("kw", "identifier") /\ FeedOK
  BY DEF KeywordEnds, StateOK
<1>2. CASE found # <<>>
  <2> DEFINE token == Item("kw", found, began, slot, slot)
  <2>1. items' = Append(items, token)
    BY <1>1, <1>2 DEF EndWalk, Emit
  <2>2. item = token
    <3> HIDE DEF token
    <3> QED
      BY <1>1, <2>1, MadeIs
  <2>3. /\ item.type = "kw" /\ item.value = found /\ item.from = began.pos
        /\ item.to = slot.pos /\ Mode[item.mode] = mode
    BY <2>2 DEF Item, mode
  <2>4. /\ IsLongest(found, KeywordsAt(began.pos, mode))
        /\ slot.pos = WordsEnd(began.pos, mode, Len(found))
    BY <1>1, <1>2, KeywordWalkTells
  <2> QED
    BY <2>3, <2>4 DEF Wins
<1>3. CASE found = <<>>
  <2>1. items' = items
    BY <1>1, <1>3 DEF EndWalk, feed
  <2>2. Len(items') = Len(items) + 1 /\ Len(items) \in Nat
    BY <1>1, ItemsGrow DEF IsNew
  <2> QED
    BY <2>1, <2>2
<1> QED
  BY <1>2, <1>3

LEMMA PunctuationWins ==
  ASSUME StateOK, ReachOK, PunctuationEnds, NEW item, IsNew(item), items' = Append(items, item)
  PROVE  Wins(item)
<1>1. /\ step = "punctuation" /\ ~HasChild(mode.punctuation, Char(at.pos))
      /\ EndWalk("punc", "unexpected") /\ FeedOK
  BY DEF PunctuationEnds, StateOK
<1>2. CASE found # <<>>
  <2> DEFINE token == Item("punc", found, began, slot, slot)
  <2>1. items' = Append(items, token)
    BY <1>1, <1>2 DEF EndWalk, Emit
  <2>2. item = token
    <3> HIDE DEF token
    <3> QED
      BY <1>1, <2>1, MadeIs
  <2>3. /\ item.type = "punc" /\ item.value = found /\ item.from = began.pos
        /\ item.to = slot.pos /\ Mode[item.mode] = mode
    BY <2>2 DEF Item, mode
  <2>4. /\ IsLongest(found, PunctuationAt(began.pos, mode))
        /\ slot.pos = began.pos + Len(found)
    BY <1>1, <1>2, PunctuationWalkTells
  <2> QED
    BY <2>3, <2>4 DEF Wins
<1>3. CASE found = <<>>
  <2>1. items' = items
    BY <1>1, <1>3 DEF EndWalk, feed
  <2>2. Len(items') = Len(items) + 1 /\ Len(items) \in Nat
    BY <1>1, ItemsGrow DEF IsNew
  <2> QED
    BY <2>1, <2>2
<1> QED
  BY <1>2, <1>3

LEMMA IdentifierWins ==
  ASSUME StateOK, ReachOK, ReadIdentifier, NEW item, IsNew(item), items' = Append(items, item)
  PROVE  Wins(item)
<1> DEFINE r == RunOf(at.pos, mode.part)
           end == Moved(at, Len(word))
           token == Item("ident", word, at, end, end)
<1>1. /\ step = "identifier" /\ at = began /\ FeedOK /\ InputOK /\ items' = Append(items, token)
      /\ lexCtx.mode \in Modes /\ Char(began.pos) \in mode.start
  BY DEF ReadIdentifier, StateOK, StandOK, ContextOK, Emit
<1>2. item = token
  <2> HIDE DEF token
  <2> QED
    BY <1>1, MadeIs
<1>3. /\ TextOK /\ Len(text) \in Nat /\ at.pos \in Nat
      /\ mode.part \subseteq Chars /\ mode.start \subseteq mode.part
  BY <1>1, TextIs, ModeIs, PlaceIs DEF InputOK, mode
<1>4. at.pos <= Len(text)
  <2>1. Char(at.pos) \in Chars
    BY <1>1, <1>3
  <2> QED
    BY <1>3, <2>1, CharFacts
<1>5. r \in Nat /\ Len(word) = r
  BY <1>1, <1>3, <1>4, WordIs DEF InputOK, word
<1>6. end.pos = at.pos + r
  BY <1>1, <1>5, MovedIsTrue DEF InputOK
<1> HIDE DEF end
<1>7. /\ item.type = "ident" /\ item.from = began.pos /\ item.to = end.pos
      /\ Mode[item.mode] = mode
  BY <1>2 DEF Item, mode
<1>8. KeywordsAt(began.pos, mode) = {}
  BY <1>1 DEF ReachOK
<1> QED
  BY <1>1, <1>6, <1>7, <1>8 DEF Wins

LEMMA UnexpectedWins ==
  ASSUME StateOK, ReachOK, Unexpected, NEW item, IsNew(item), items' = Append(items, item)
  PROVE  Wins(item)
<1> DEFINE token == Item("unexpected", <<>>, at, Passed(at), Passed(at))
<1>1. step = "unexpected" /\ FeedOK /\ items' = Append(items, token)
  BY DEF Unexpected, StateOK, LexCroak
<1>2. item = token
  <2> HIDE DEF token
  <2> QED
    BY <1>1, MadeIs
<1>3. item.type = "unexpected" /\ item.from = began.pos /\ Mode[item.mode] = mode
  BY <1>2 DEF Item, mode
<1>4. PunctuationAt(began.pos, mode) = {}
  BY <1>1 DEF ReachOK
<1> QED
  BY <1>3, <1>4 DEF Wins

LEMMA ReadersWin ==
  ASSUME StateOK, ReadersHaveOwnTypes, AskReaders,
         NEW item, IsNew(item), items' = Append(items, item)
  PROVE  Wins(item)
<1>1. /\ FeedOK /\ InputOK /\ lexCtx.mode \in Modes /\ step = "reader" /\ at = began
  BY DEF StateOK, ContextOK, StandOK, AskReaders
<1>2. CASE ReaderEmits
  <2>1. PICK token : token.type \in MadeTypes /\ items' = Append(items, token)
    BY <1>2 DEF ReaderEmits, Emit
  <2>2. item.type \in MadeTypes
    BY <1>1, <2>1, MadeIs
  <2>3. item.type \notin {"kw", "ident", "punc"}
    BY <2>2 DEF ReadersHaveOwnTypes
  <2>4. item.type # "unexpected"
    BY <2>2, MadeTypesAreTypes, LexerAssumption
  <2> QED
    BY <2>3, <2>4 DEF Wins
<1>3. CASE ReaderCroaks
  <2>1. PICK other : other.type = "unterminated" /\ items' = Append(items, other)
    BY <1>3 DEF ReaderCroaks
  <2>2. item.type = "unterminated"
    BY <1>1, <2>1, MadeIs
  <2> QED
    BY <2>2 DEF Wins
<1> QED
  BY <1>1, <1>2, <1>3, MadeBy

LEMMA WinsStep ==
  ASSUME StateOK, ReachOK, WinsOK, ReadersHaveOwnTypes, [Next]_vars
  PROVE  WinsOK'
<1>1. CASE UNCHANGED vars \/ Call \/ NextCached \/ SkipSpace \/ EndOfText \/ GoesOn
  <2>1. UNCHANGED <<text, items>>
    BY <1>1 DEF vars, input, feed, Call, NextCached, SkipSpace, EndOfText, GoesOn
  <2>2. \A item : Wins(item)' <=> Wins(item)
    BY <2>1, WinsStays
  <2> QED
    BY <2>1, <2>2 DEF WinsOK
<1>2. CASE Emits \/ Croaks
  <2>1. PICK item : IsNew(item) /\ items' = Append(items, item)
    BY <1>2 DEF Emits, Croaks, Emit
  <2>2. /\ FeedOK /\ Len(items') = Len(items) + 1 /\ Len(items) \in Nat /\ items' # items
    BY <2>1, ItemsGrow DEF StateOK, IsNew
  <2>3. KeywordEnds \/ PunctuationEnds \/ ReadIdentifier \/ Unexpected \/ AskReaders
    BY <2>2 DEF Next, ReadStep, vars, feed, Call, NextCached, SkipSpace, EndOfText, Dispatch,
                KeywordWord, KeywordAstray, PunctuationChar, Walks, Crashed
  <2>4. Wins(item)
    BY <2>1, <2>3, KeywordWins, PunctuationWins, IdentifierWins, UnexpectedWins, ReadersWin
  <2> QED
    BY <2>1, <2>4, WinsGrows
<1> QED
  BY <1>1, <1>2, StepIs

\* trie.ts and lexer.ts: the walk of the trie finds the longest entry that the
\* text has there and ends just behind it, a word is an identifier only when it
\* begins no keyword, and a character is unexpected only when no entry begins
\* with it: of any tries, on any text, where a token's type tells a word or a
\* punctuation from what the readers make.
THEOREM TheLongestWins ==
  ASSUME ReadersHaveOwnTypes
  PROVE  Spec => []LongestEntryWins
<1>1. Init => WinsOK
  BY DEF Init, WinsOK
<1>2. StateOK /\ ReachOK /\ WinsOK /\ [Next]_vars => WinsOK'
  BY WinsStep
<1>3. WinsOK => LongestEntryWins
  BY WinsIsLongest
<1> QED
  BY <1>1, <1>2, <1>3, StateInvariance, ReachInvariance, PTL DEF Spec
================================================================================
