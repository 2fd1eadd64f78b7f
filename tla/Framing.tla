------------------------------- MODULE Framing --------------------------------
(***************************************************************************)
(* Two programs that frame the statements of a psql script: they find where*)
(* a statement ends, and where psql takes the rows of a COPY, from its     *)
(* words alone, before any parser. One is sqlScriptParseLexer of           *)
(* examples/sql-lite/lexer.ts, whose rows the grammar gets as a token; the *)
(* other is splitPsqlScript of psql-split.ts. What each does with a token  *)
(* is here; Scripts gives them the tokens of a grammar. Literals, comments *)
(* and white space, which both programs step over, and the lines of the    *)
(* rows are abstracted.                                                    *)
(***************************************************************************)
EXTENDS Entries, Naturals, SequencesExt

VARIABLES
  routine,     \* routineTracker: the words that lead, open blocks, parentheses
  copying,     \* sqlScriptParseLexer: where the COPY is with its location
  dataPending, \* rows come before the next token
  splitter,    \* splitPsqlScript: the statement it reads
  apart        \* history: the lexer is in another statement than the splitter

-------------------------------------------------------------------------------
(* psql's heuristic for the body of a routine, which both programs follow. *)

\* The words that may lead a routine, by their first letters.
ROUTINE_HEAD_WORDS == [create |-> "c", or |-> "o", replace |-> "r", function |-> "f", procedure |-> "p"]

Head1(word) == IF word \in DOMAIN ROUTINE_HEAD_WORDS THEN ROUTINE_HEAD_WORDS[word] ELSE ""

\* No word behind the fourth is looked at.
WithHead(heads, word) == IF Len(heads) < 4 THEN Append(heads, Head1(word)) ELSE heads

inRoutine(heads) ==
  \E kind \in {"f", "p"} : IsPrefix(<<"c", kind>>, heads) \/ heads = <<"c", "o", "r", kind>>

\* BEGIN opens a block, CASE one inside of a block, END closes either.
Counted(depth, word) ==
  CASE word = "begin" \/ (word = "case" /\ depth > 0) -> depth + 1
    [] word = "end" /\ depth > 0 -> depth - 1
    [] OTHER -> depth

Opened(parens, next) ==
  CASE next = Punc("(") -> parens + 1
    [] next = Punc(")") /\ parens > 0 -> parens - 1
    [] OTHER -> parens

MetaLine == OfType("psqlmeta")

-------------------------------------------------------------------------------
(* sqlScriptParseLexer                                                     *)

NewRoutine == [heads |-> <<>>, depth |-> 0, parens |-> 0]

observeWord(word) ==
  LET heads == WithHead(routine.heads, word)
      counts == routine.parens = 0 /\ inRoutine(heads)
  IN  [routine EXCEPT !.heads = heads, !.depth = IF counts THEN Counted(@, word) ELSE @]

\* The state of the heuristic after a token.
observe(next) ==
  CASE next = MetaLine \/ (next = Punc(";") /\ routine.depth = 0) -> NewRoutine
    [] next.type = "ident" -> observeWord(next.value)
    [] OTHER -> [routine EXCEPT !.parens = Opened(@, next)]

NewStatement ==
  [leading |-> TRUE, isCopy |-> FALSE, depth |-> 0, previous |-> "", afterDot |-> FALSE,
   located |-> FALSE, copyIn |-> FALSE]

\* A token outside of parentheses. The table right after COPY and the parts of a
\* qualified name are no keywords.
located(now, next) ==
  LET named == now.previous = "copy" \/ now.afterDot
      word == IF next.type = "ident" /\ ~named THEN next.value ELSE ""
      decides == now.previous \in {"from", "to"} /\ next # Punc(".")
  IN  [now EXCEPT !.afterDot = next = Punc("."),
                  !.previous = word,
                  !.located = decides,
                  !.copyIn = decides /\ now.previous = "from" /\ word = "stdin"]

TracksSlip(now) == now.isCopy

\* Only a COPY is followed, and no further than its first location.
Tracks(now) == now.isCopy /\ ~now.located

trackCopy(next) ==
  LET now == IF copying.leading
             THEN [copying EXCEPT !.leading = FALSE, !.isCopy = next = Word("copy")]
             ELSE copying
      paren == next \in {Punc("("), Punc(")")}
  IN  CASE Tracks(now) /\ paren -> [now EXCEPT !.depth = Opened(@, next)]
        [] Tracks(now) /\ ~paren /\ now.depth = 0 -> located(now, next)
        [] OTHER -> now

endStatementSlip == [NewStatement EXCEPT !.copyIn = copying.copyIn]

endStatement == NewStatement

\* track: a semicolon outside of a body ends the statement.
track(next) ==
  LET ends == next = Punc(";") /\ observe(next).depth = 0
  IN  /\ routine' = observe(next)
      /\ copying' = IF next = MetaLine \/ ends THEN endStatement ELSE trackCopy(next)
      /\ dataPending' = IF ends THEN copying.copyIn ELSE dataPending

-------------------------------------------------------------------------------
(* splitPsqlScript                                                         *)

NewSplit ==
  [parenDepth |-> 0, beginDepth |-> 0, words |-> <<>>, firstWord |-> "", prevTopWord |-> "",
   copyIn |-> FALSE]

splitWord(word) ==
  LET words == WithHead(splitter.words, word)
      first == IF splitter.words = <<>> THEN word ELSE splitter.firstWord
      top == splitter.parenDepth = 0
      stdin == top /\ first = "copy" /\ splitter.prevTopWord = "from" /\ word = "stdin"
  IN  [splitter EXCEPT !.words = words, !.firstWord = first,
                       !.copyIn = @ \/ stdin,
                       !.prevTopWord = IF top THEN word ELSE @,
                       !.beginDepth = IF top /\ inRoutine(words) THEN Counted(@, word) ELSE @]

SplitsHere == splitter.parenDepth = 0 /\ splitter.beginDepth = 0

finishSlip == [NewSplit EXCEPT !.words = splitter.words]

finishKeepsSlip == [NewSplit EXCEPT !.copyIn = splitter.copyIn]

\* finish, behind which the rows are read.
finish == NewSplit

\* Of a meta-command between statements, which is a line of its own, nothing is kept.
split(next) ==
  CASE next = Punc(";") /\ SplitsHere -> finish
    [] next.type = "ident" -> splitWord(next.value)
    [] OTHER -> [splitter EXCEPT !.parenDepth = Opened(@, next)]

-------------------------------------------------------------------------------
(* Both programs read a script from its start.                             *)

NewScript ==
  /\ routine = NewRoutine /\ copying = NewStatement /\ dataPending = FALSE
  /\ splitter = NewSplit
  /\ apart = FALSE

\* The lexer ends a statement at a meta-command and at a semicolon in an open
\* parenthesis: the splitter goes on with it. And the splitter takes rows of the client
\* where the lexer has none.
Parts(next) ==
  \/ next = MetaLine /\ ~copying.leading
  \/ /\ next = Punc(";") /\ routine.depth = 0
     /\ routine.parens > 0 \/ (splitter.copyIn /\ ~copying.copyIn)

\* Apart, the splitter reads a statement, or rows, of which nothing is kept here. Both
\* may meet again where the lexer is at the start of a statement.
Follow(next) ==
  /\ track(next)
  /\ IF apart \/ Parts(next)
     THEN /\ splitter' = NewSplit
          /\ apart' \in IF apart /\ copying'.leading THEN BOOLEAN ELSE {TRUE}
     ELSE splitter' = split(next) /\ apart' = FALSE

-------------------------------------------------------------------------------
\* The two programs, which share no code, count the same parentheses and blocks and
\* keep the same leading words after every token of a statement that both read: so they
\* end it at the same semicolon, also where it is broken.
FramesAlike ==
  ~apart =>
    /\ splitter.parenDepth = routine.parens
    /\ splitter.beginDepth = routine.depth
    /\ splitter.words = routine.heads

\* Where the lexer will read rows behind a statement, the splitter does too: it never
\* takes rows of the client for statements.
RowsAreSplit == ~apart /\ copying.copyIn => splitter.copyIn
================================================================================
