-------------------------------- MODULE Lexer --------------------------------
(***************************************************************************)
(* The token stream of defineLexer(def).tokenize, packages/core/src/       *)
(* lexer.ts and trie.ts: dispatch on the current character, the walk of    *)
(* the keyword and the punctuation trie with its backtracking, the modes   *)
(* and transitions, and the one-token cache of peek.                       *)
(*                                                                         *)
(* A call of peek or next runs as steps: skip whitespace, ask the readers  *)
(* in order, walk a trie symbol by symbol, emit. The client is free to     *)
(* call peek and next in any order.                                        *)
(*                                                                         *)
(* An item is what one call of produce makes of the text: a token, or the  *)
(* characters an error consumed. Items are named by their place, as in     *)
(* ParseContext, and 0 is null.                                            *)
(***************************************************************************)
EXTENDS Readers, FiniteSets

CONSTANTS
  Modes,        \* the names of the modes
  Default,      \* the root mode
  Mode,         \* the definition of each mode
  Transitions,  \* the mode changes, in order
  TriviaTypes,  \* token types that lastToken ignores
  Inherited,    \* words that every JavaScript object has as a member
  Texts         \* the texts to tokenize

AllReaders == UNION {{Mode[name].readers[i] : i \in 1..Len(Mode[name].readers)} : name \in Modes}

\* A string reader makes tokens of a second type, of its blocks.
Types ==
  {"kw", "ident", "punc"}
    \cup {r.type : r \in AllReaders}
    \cup {r.blockType : r \in {s \in AllReaders : s.kind = "string"}}

\* No identifier is defined where start is empty. A word that may start is one
\* that may be read, so that no identifier is empty.
IsMode(m) ==
  /\ m.space \subseteq Chars /\ m.start \subseteq m.part /\ m.part \subseteq Chars
  /\ \A entry \in m.keywords : entry \in Seq(Seq(m.part) \ {<<>>}) \ {<<>>}
  /\ \A entry \in m.keywords : \A i \in 1..Len(entry) : entry[i] \notin Inherited
  /\ m.keywords # {} => m.start # {}
  /\ m.punctuation \subseteq Seq(Chars) \ {<<>>}
  /\ m.readers \in Seq(Reader) /\ \A i \in 1..Len(m.readers) : IsReader(m.readers[i])

\* A transition fires on a token, in the mode of inMode, and where the type of
\* lastToken, or "none", is in when.
IsTransition(t) ==
  /\ t.type \in Types /\ t.value \in Seq(Chars)
  /\ t.inMode \subseteq Modes /\ t.when \subseteq Types \cup {"none"}
  /\ t.action \in {"push", "pop"} /\ t.mode \in Modes

ASSUME LexerAssumption ==
  /\ Default \in Modes
  /\ \A name \in Modes : IsMode(Mode[name])
  /\ {"none", "unexpected", "unterminated"} \cap Types = {}
  /\ \A i \in 1..Len(Transitions) : IsTransition(Transitions[i])
  /\ TriviaTypes \subseteq Types
  /\ \A name \in Inherited : name \in Seq(Chars) \ {<<>>}
  /\ \A characters \in Texts : characters \in Seq(Chars)

VARIABLES
  modeStack, lexCtx,   \* lexCtx: lastToken, lastMode and mode
  items,               \* history: what produce made, also of errors
  produced,            \* history: those of them that are tokens
  current,             \* the item peek has cached
  delivered,           \* history: the items next returned
  call,                \* the call that runs: "peek", "next" or "none"
  step,                \* where it stands
  began,               \* where the whitespace ended
  node, found          \* the walk: the node reached, the last entry on the way

input == <<text, at, slot>>
context == <<modeStack, lexCtx>>
feed == <<items, produced, current, delivered>>
walk == <<node, found>>
vars == <<input, context, feed, call, step, began, walk>>

mode == Mode[lexCtx.mode]

-------------------------------------------------------------------------------
(* The trie.                                                               *)

Nodes(entries) == UNION {{SubSeq(entry, 1, n) : n \in 0..Len(entry)} : entry \in entries}

\* A node of a trie has a child for this symbol.
HasChild(entries, symbol) == Append(node, symbol) \in Nodes(entries)

StartWalk ==
  /\ Snapshot
  /\ node' = <<>> /\ found' = <<>>

DescendSlip(entries, symbol, to, n) ==
  /\ node' = Append(node, symbol)
  /\ at' = Moved(to, n)
  /\ IF node' \in entries /\ found = <<>>
     THEN slot' = to /\ found' = node'
     ELSE UNCHANGED <<slot, found>>

\* The walk goes down one symbol, then skips n characters. An entry on the way
\* is remembered, with where it ends.
Descend(entries, symbol, to, n) ==
  /\ node' = Append(node, symbol)
  /\ at' = Moved(to, n)
  /\ IF node' \in entries
     THEN slot' = to /\ found' = node'
     ELSE UNCHANGED <<slot, found>>

-------------------------------------------------------------------------------
(* The calls of the client.                                                *)

Goes(s) == step' = s

\* peek with nothing cached, or next with nothing cached, calls produce. A peek
\* of what is cached changes nothing.
Call ==
  /\ step = "idle"
  /\ current = 0
  /\ call' \in {"peek", "next"}
  /\ Goes("space")
  /\ UNCHANGED <<input, context, feed, began, walk>>

NextCachedSlip ==
  /\ step = "idle"
  /\ current # 0
  /\ delivered' = Append(delivered, current)
  /\ UNCHANGED <<input, context, items, produced, current, call, step, began, walk>>

NextCached ==
  /\ step = "idle"
  /\ current # 0
  /\ delivered' = Append(delivered, current)
  /\ current' = 0
  /\ UNCHANGED <<input, context, items, produced, call, step, began, walk>>

Returns == step' = "idle" /\ call' = "none"

-------------------------------------------------------------------------------
(* produce, after readNext has made a token.                               *)

\* What was read from where the whitespace ended up to this position.
Item(type, value, start, end, to) ==
  [type |-> type, value |-> value, start |-> start, end |-> end,
   from |-> began.pos, to |-> to.pos, mode |-> lexCtx.mode]

LastType(last) == IF last = 0 THEN "none" ELSE items[last].type

\* Transition t fires on the token, lexed in this mode after that last token.
Fires(t, token, lexedIn, lastType) ==
  /\ token.type = t.type /\ token.value = t.value
  /\ lexedIn \in t.inMode
  /\ lastType \in t.when

\* The first transition that fires changes the stack of modes.
Switched(stack, token, lexedIn, lastType) ==
  LET firing == {i \in 1..Len(Transitions) : Fires(Transitions[i], token, lexedIn, lastType)}
      t == Transitions[CHOOSE i \in firing : \A j \in firing : i <= j]
  IN  IF firing = {} THEN stack
      ELSE IF t.action = "push" THEN Append(stack, t.mode)
      ELSE IF Len(stack) > 1 THEN SubSeq(stack, 1, Len(stack) - 1)
      ELSE stack

\* The token is handed to the caller: peek keeps it, next passes it on.
Hand ==
  IF call = "peek"
  THEN current' = Len(items) + 1 /\ UNCHANGED delivered
  ELSE delivered' = Append(delivered, Len(items) + 1) /\ UNCHANGED current

EmitSlip(token) ==
  /\ items' = Append(items, token)
  /\ produced' = Append(produced, Len(items) + 1)
  /\ Hand
  /\ modeStack' = Switched(modeStack, token, lexCtx.mode, LastType(lexCtx.lastToken))
  /\ lexCtx' =
       [lexCtx EXCEPT
          !.mode = modeStack'[Len(modeStack')],
          !.lastToken = IF token.type \in TriviaTypes THEN @ ELSE Len(items) + 1,
          !.lastMode = IF token.type \in TriviaTypes THEN @ ELSE modeStack'[Len(modeStack')]]
  /\ Returns

Emit(token) ==
  /\ items' = Append(items, token)
  /\ produced' = Append(produced, Len(items) + 1)
  /\ Hand
  /\ modeStack' = Switched(modeStack, token, lexCtx.mode, LastType(lexCtx.lastToken))
  /\ lexCtx' =
       [lexCtx EXCEPT
          !.mode = modeStack'[Len(modeStack')],
          !.lastToken = IF token.type \in TriviaTypes THEN @ ELSE Len(items) + 1,
          !.lastMode = IF token.type \in TriviaTypes THEN @ ELSE lexCtx.mode]
  /\ Returns

\* The lexer croaks, with this span; what it has consumed stays consumed.
LexCroak(type, start, end) ==
  /\ items' = Append(items, Item(type, <<>>, start, end, end))
  /\ UNCHANGED <<produced, current, delivered, context>>
  /\ Returns

-------------------------------------------------------------------------------
(* readNext                                                                *)

SkipSpace ==
  /\ step = "space"
  /\ at' = Moved(at, RunOf(at.pos, mode.space))
  /\ began' = at'
  /\ Goes("reader")
  /\ UNCHANGED <<text, slot, context, feed, call, walk>>

\* At the end of the text produce returns null.
EndOfText ==
  /\ step = "reader" /\ Eof
  /\ Returns
  /\ UNCHANGED <<input, context, feed, began, walk>>

\* A reader leaves the stream here. What its own snapshots left in the slot is
\* dead when it returns.
ReadTo(place) == at' = place /\ UNCHANGED <<text, slot, began, walk>>

PlaceAt(p) == Moved(at, p - at.pos)

\* The first answer but null, if any.
FirstOf(answers) ==
  LET given == {i \in 1..Len(answers) : answers[i] # Null}
  IN  IF given = {} THEN Null ELSE answers[CHOOSE i \in given : \A j \in given : i <= j]

\* The readers are asked in order until one makes a token or fails.
Answer ==
  FirstOf([i \in 1..Len(mode.readers) |-> readBy(mode.readers[i], LastType(lexCtx.lastToken))])

Take(result) ==
  \/ /\ result.is = "token"
     /\ Emit(Item(result.type, result.value,
                  PlaceAt(result.start), PlaceAt(result.end), PlaceAt(result.to)))
     /\ ReadTo(PlaceAt(result.to))
  \/ /\ result.is = "croak"
     /\ LexCroak("unterminated", PlaceAt(result.start), PlaceAt(result.to))
     /\ ReadTo(PlaceAt(result.to))

AskReaders ==
  /\ step = "reader" /\ ~Eof
  /\ Take(Answer)

\* No reader took the character: it begins a word, or an entry of the
\* punctuation, where the mode has these. Only a walk looks at what it starts.
Dispatch ==
  /\ step = "reader" /\ ~Eof
  /\ Answer = Null
  /\ Goes(IF Char(at.pos) \in mode.start
          THEN IF mode.keywords = {} THEN "identifier" ELSE "keyword"
          ELSE IF mode.punctuation = {} THEN "unexpected" ELSE "punctuation")
  /\ StartWalk
  /\ UNCHANGED <<text, at, context, feed, call, began>>

\* readIdentifier: the words of a keyword, with whitespace between them.
word == Ahead(at.pos, RunOf(at.pos, mode.part))

Walks == UNCHANGED <<text, context, feed, call, step, began>>

EndWalkSlip(type, otherwise) ==
  /\ IF found # <<>>
     THEN Emit(Item(type, found, began, slot, slot)) /\ UNCHANGED at
     ELSE Goes(otherwise) /\ Reload /\ UNCHANGED <<context, feed, call>>
  /\ UNCHANGED <<text, slot, began, walk>>

\* The walk is over: back to the end of the last entry, or of the start.
\* This is the last step of extractTokenByTree.
EndWalk(type, otherwise) ==
  /\ Reload
  /\ IF found # <<>>
     THEN Emit(Item(type, found, began, slot, slot))
     ELSE Goes(otherwise) /\ UNCHANGED <<context, feed, call>>
  /\ UNCHANGED <<text, slot, began, walk>>

KeywordWord ==
  /\ step = "keyword"
  /\ HasChild(mode.keywords, word)
  /\ LET to == Moved(at, Len(word))
     IN  Descend(mode.keywords, word, to, RunOf(to.pos, mode.space))
  /\ Walks

\* `in` finds what the node inherits, too. What it finds is no node, and the
\* next `in` on it throws a TypeError that no part of the kit catches.
KeywordAstray ==
  /\ step = "keyword"
  /\ ~HasChild(mode.keywords, word) /\ word \in Inherited
  /\ Goes("crashed")
  /\ UNCHANGED <<input, context, feed, call, began, walk>>

KeywordEnds ==
  /\ step = "keyword"
  /\ ~HasChild(mode.keywords, word) /\ word \notin Inherited
  /\ EndWalk("kw", "identifier")

ReadIdentifier ==
  LET end == Moved(at, Len(word))
  IN  /\ step = "identifier"
      /\ Emit(Item("ident", word, at, end, end))
      /\ ReadTo(end)

\* readPunctuation: next() takes a character, behind the end nothing.
PunctuationChar ==
  /\ step = "punctuation"
  /\ HasChild(mode.punctuation, Char(at.pos))
  /\ Descend(mode.punctuation, Char(at.pos), Passed(at), 0)
  /\ Walks

PunctuationEnds ==
  /\ step = "punctuation"
  /\ ~HasChild(mode.punctuation, Char(at.pos))
  /\ EndWalk("punc", "unexpected")

Unexpected ==
  /\ step = "unexpected"
  /\ LexCroak("unexpected", at, Passed(at))
  /\ ReadTo(Passed(at))

Crashed == step = "crashed" /\ UNCHANGED vars

-------------------------------------------------------------------------------
Init ==
  /\ text \in Texts /\ at = Origin /\ slot = Origin
  /\ modeStack = <<Default>>
  /\ lexCtx = [lastToken |-> 0, lastMode |-> Default, mode |-> Default]
  /\ items = <<>> /\ produced = <<>> /\ current = 0 /\ delivered = <<>>
  /\ call = "none" /\ step = "idle"
  /\ began = Origin
  /\ node = <<>> /\ found = <<>>

ReadStep ==
  \/ SkipSpace \/ EndOfText
  \/ AskReaders
  \/ Dispatch
  \/ KeywordWord \/ KeywordAstray \/ KeywordEnds \/ ReadIdentifier
  \/ PunctuationChar \/ PunctuationEnds
  \/ Unexpected

Next == Call \/ NextCached \/ ReadStep \/ Crashed

Spec == Init /\ [][Next]_vars /\ WF_vars(ReadStep)

-------------------------------------------------------------------------------
ItemType ==
  [type : Types \cup {"unexpected", "unterminated"}, value : Seq(Chars) \cup Seq(Seq(Chars)),
   start : Place, end : Place, from : Nat, to : Nat, mode : Modes]

LexTypeOK ==
  /\ text \in Texts /\ at \in Place /\ slot \in Place /\ began \in Place
  /\ modeStack \in Seq(Modes) \ {<<>>}
  /\ lexCtx \in [lastToken : 0..Len(items), lastMode : Modes, mode : Modes]
  /\ items \in Seq(ItemType)
  /\ produced \in Seq(1..Len(items)) /\ delivered \in Seq(1..Len(items))
  /\ current \in 0..Len(items)
  /\ call \in {"none", "peek", "next"} /\ (call = "none") = (step = "idle")
  /\ step \in {"idle", "space", "reader", "keyword", "identifier", "punctuation",
               "unexpected", "crashed"}
  /\ node \in Seq(Chars) \cup Seq(Seq(Chars)) /\ found \in Seq(Chars) \cup Seq(Seq(Chars))

\* Every row and column the lexer counts, also after it went back in the text,
\* is that of the character at this position.
IsTrue(place) ==
  LET newLines == {i \in 1..place.pos : Char(i - 1) = NewLine}
      lineStart == CHOOSE i \in {0} \cup newLines : \A j \in newLines : j <= i
  IN  place.line = 1 + Cardinality(newLines) /\ place.col = place.pos - lineStart

PlacesAreTrue ==
  /\ IsTrue(at) /\ IsTrue(slot)
  /\ \A i \in 1..Len(items) : IsTrue(items[i].start) /\ IsTrue(items[i].end)

\* The items are what the text consists of, each character lexed once: an item
\* begins where the one before it ended or behind whitespace of its own mode,
\* is not empty, and spans nothing outside itself.
SpaceOnly(from, to, name) == \A p \in from..(to - 1) : Char(p) \in Mode[name].space

EndOf(i) == IF i = 0 THEN 0 ELSE items[i].to

ItemsTileText ==
  /\ \A i \in 1..Len(items) :
       /\ EndOf(i - 1) <= items[i].from /\ SpaceOnly(EndOf(i - 1), items[i].from, items[i].mode)
       /\ items[i].from < items[i].to
       /\ items[i].from <= items[i].start.pos /\ items[i].start.pos <= items[i].end.pos
       /\ items[i].end.pos <= items[i].to
  /\ step = "idle" =>
       EndOf(Len(items)) <= at.pos /\ SpaceOnly(EndOf(Len(items)), at.pos, lexCtx.mode)

\* A keyword of several words may have any whitespace of the mode between them.
\* The places of its words, and where the last one ends.
WordFrom(p, m, n) ==
  LET from[k \in 1..n] ==
        IF k = 1 THEN p
        ELSE LET wordEnd == from[k - 1] + RunOf(from[k - 1], m.part)
             IN  wordEnd + RunOf(wordEnd, m.space)
  IN  from[n]

WordsEnd(p, m, n) == LET last == WordFrom(p, m, n) IN last + RunOf(last, m.part)

KeywordsAt(p, m) ==
  {entry \in m.keywords :
     \A k \in 1..Len(entry) :
       LET from == WordFrom(p, m, k) IN Ahead(from, RunOf(from, m.part)) = entry[k]}

PunctuationAt(p, m) == {entry \in m.punctuation : StartsWith(p, entry)}

IsLongest(value, entries) == value \in entries /\ \A entry \in entries : Len(entry) <= Len(value)

\* The walk of the trie finds the longest entry that the text has there, and
\* ends just behind it; a word is an identifier only when it begins no keyword,
\* and a character is unexpected only when no entry begins with it.
LongestEntryWins ==
  \A i \in 1..Len(items) :
    LET item == items[i]
        m == Mode[item.mode]
    IN  CASE item.type = "kw" ->
               /\ IsLongest(item.value, KeywordsAt(item.from, m))
               /\ item.to = WordsEnd(item.from, m, Len(item.value))
          [] item.type = "ident" ->
               /\ KeywordsAt(item.from, m) = {}
               /\ item.to = item.from + RunOf(item.from, m.part)
          [] item.type = "punc" ->
               /\ IsLongest(item.value, PunctuationAt(item.from, m))
               /\ item.to = item.from + Len(item.value)
          [] item.type = "unexpected" -> PunctuationAt(item.from, m) = {}
          [] OTHER -> TRUE

\* lexer.ts:27: the lexer's context is "a pure function of the tokens already
\* emitted", however the client mixed peek and next and whatever errors the
\* lexer has thrown in between.
Significant(n) == {i \in 1..n : items[i].type \in Types \ TriviaTypes}

LastOf(n) == CHOOSE i \in {0} \cup Significant(n) : \A j \in Significant(n) : j <= i

ContextIsOfTokens ==
  LET stack[n \in 0..Len(items)] ==
        IF n = 0 THEN <<Default>>
        ELSE IF items[n].type \notin Types THEN stack[n - 1]
        ELSE Switched(stack[n - 1], items[n], stack[n - 1][Len(stack[n - 1])],
                      LastType(LastOf(n - 1)))
      last == LastOf(Len(items))
  IN  /\ modeStack = stack[Len(items)]
      /\ lexCtx = [lastToken |-> last,
                   lastMode |-> IF last = 0 THEN Default ELSE items[last].mode,
                   mode |-> modeStack[Len(modeStack)]]

\* The stream is a tape of tokens that peek reveals and next consumes, each
\* token once and in the order of the text.
Feed == INSTANCE TokenCursor WITH
  tape <- produced,
  cursor <- Len(delivered),
  marks <- <<>>,
  last <- IF delivered = <<>> THEN 0 ELSE delivered[Len(delivered)]

FeedSpec == Feed!Spec

\* trie.ts:41 says of the child the walk goes down to "guaranteed present by
\* the `val in current[0]` loop condition".
ChildIsPresent == step # "crashed"
================================================================================
