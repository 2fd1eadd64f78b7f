# A TLA+ model of parser-kit

parser-kit (`packages/core`) is a library for hand-written-quality parsers: a
lexer built from a table, a parse context that rules run on, combinators, a
pratt parser and a grammar object with `parse`, `diagnose` and `parseValue`.
It is sequential code. What makes it hard is not concurrency but the number of
ways a client can drive it: any rule may look ahead, branch and roll back, fail
at any token, meet an error of the lexer in the middle of a lookahead, and be
resumed by a recovery that skips an unknown number of tokens. The models
quantify over the client (any rules, any text) and check the kit under it.

## Inventory

| Part | Source (`packages/core/src`) | State | Operations |
|---|---|---|---|
| Input stream | `input-stream.ts` | `pos`, `line`, `col`, one snapshot slot | next, peek, eof, snapshot, reload, croak |
| Tries | `trie.ts` | the nodes, built once | createTree, extractTokenByTree (walk, backtrack to the last entry) |
| Token stream | `lexer.ts` `tokenize` | `current`, `modeStack`, `lexCtx` | peek, next, eof, produce |
| Readers | `lexer.ts` 366-971 | none between tokens | startsWith, read: number, string, comments, dollar string, operator, regex, template chunk, custom |
| Parse context | `rule.ts` `createParseContext` | `buffer`, `bufferPos`, `snapshots`, `last`, `count`, `lastSig`, `farthest`, `errors` | peek, peekAhead, next, tryParse, skipTrivia, newlineBefore, croak, recover, report |
| Rules | `rule.ts` `makeRule`, `combinators.ts` | local variables of `parse` | token, phrase, seq, oneOf, attempt, optional, delimited, sepBy, repeat, lazy, custom, map, describe |
| Pratt | `pratt.ts` | the levels of parseExpression: minBp, left, operator | parseExpression with prefix, infix, postfix groups, guards, parseRhs |
| Grammar | `grammar.ts` | per run: stream, context, errors | parse, diagnose, parseValue |
| SQL grammar | `examples/sql-lite/grammar.ts` | none; what it decides, it decides by the next one or two tokens | a rule per statement, clause, query and expression form of PostgreSQL |
| Script lexer | `examples/sql-lite/lexer.ts` 900-1196 | `routineTracker`: lead words, depth, parentheses; the COPY seen so far; `dataPending` | observe, track, produce |
| Script splitter | `examples/sql-lite/psql-split.ts` | the statement it reads: words, parentheses, depth, COPY-in | splitPsqlScript, finish |
| Other examples | `examples/js-lite`, the tables of `examples/sql-lite` | tables | clients of the kit |

How they interact: a rule calls the context; the context pulls tokens from the
token stream, which pulls characters from the input stream. Errors are thrown
the other way, as `ParseError`, through every frame in between: `tryParse` turns
one into `null`, `describe` relabels it, `delimited` reports it and skips inside
its list, `repeat` and the expressions loop record it and resynchronise, `run`
may replace it by the farthest failure. The lexer's errors take the same way and
must, with `propagateLexerErrors`, not be caught by a branch.

What makes each part correct:

- *Input stream, token stream*: the tokens tile the text, with the right rows and
  columns, whatever the lexer tried and took back; the longest entry wins; modes
  depend on the tokens alone; `peek` and `next` give each token once.
- *Parse context*: its buffer cannot be seen. A rule finds a tape of tokens with a
  cursor that it may mark and return to. What is recorded is the deepest failure,
  and no lexer error gets lost.
- *Recovery*: it ends; it resumes where it should; and what it passed over is
  never silent.
- *Grammar*: `diagnose` returns, and no diagnostics means the text was parsed.
- *Rules*: a choice commits to one branch by its first set, without trying the
  others. It is right when the branch that is meant is the one taken, and when
  nothing optional in front of it takes its tokens.
- *Pratt*: an operand between two operators belongs to the tighter; the parser
  stops only where the expression does; it refuses chains of nonassoc operators
  and nothing else.
- *Scripts*: three programs must agree on where a statement ends and on which
  statement the rows of a COPY follow, the lexer and the splitter from words alone
  and the grammar by parsing, also where a statement is broken or cut short.
- *SQL grammar*: what is said of rules, for some thousand choices that were made by
  hand, most of them among words that may also be names.

The hazards, one entry per place in the code, are in `PROJECT.json`.

## Modules

| Module | Models | Uses |
|---|---|---|
| `TokenCursor` | the abstract specification: a tape, a cursor, marks | |
| `ParseContext` | `createParseContext`, `describe`'s relabelling | implements `TokenCursor` |
| `GrammarRun` | `run`, `parseValue`, the two recovering loops, `delimited`, arbitrary items | extends `ParseContext` |
| `InputStream` | `createInputStream` | |
| `Readers` | the library of readers: numbers, strings, comments, operators, regex, template text | extends `InputStream` |
| `Lexer` | `tokenize`, the tries, modes, the readers in order | extends `Readers`, implements `TokenCursor` |
| `Literals` | what the readers promise, said without scanning | extends `Lexer` |
| `Pratt` | `parseExpression` | |
| `PrattReadings` | the readings of a text by a table, without a parser, and the properties that hold `Pratt` against them | extends `Pratt` |
| `Entries` | tokens, and the entries of a first set that match them | |
| `Rules` | the combinators as terms | extends `Entries` |
| `FirstSets` | first sets and nullable, of the rules of a grammar | extends `Rules` |
| `Derivation` | a parser on a text that its grammar derives; the rules and the first set of each are constants | extends `Rules` |
| `SqlCommon` | names, types, literals, qualified names, argument lists | extends `FirstSets` |
| `SqlExpressions` | the atoms, the function calls with a syntax of their own, the operator tables | extends `SqlCommon` |
| `SqlObjects` | names of objects of every kind, arguments of routines, configuration values | extends `SqlCommon` |
| `SqlQueries` | SELECT, FROM, joins, grouping, WITH, INSERT, UPDATE, DELETE, MERGE | extends `SqlExpressions`, `SqlObjects` |
| `SqlTables` | CREATE TABLE and FOREIGN TABLE, constraints, sequences, indexes, ALTER TABLE | extends `SqlQueries` |
| `SqlCreate` | the other CREATE statements: databases, roles, views, functions, triggers, publications, schemas, ... | extends `SqlTables` |
| `SqlAlter` | the other ALTER statements | extends `SqlCreate` |
| `SqlUtility` | DROP, GRANT, COMMENT, SET, transactions, EXPLAIN, COPY, VACUUM, the statements of a script | extends `SqlObjects` |
| `SqlScripts` | the statements of a script whose end is hard to find: COPY, CREATE FUNCTION and PROCEDURE with BEGIN ATOMIC bodies | extends `SqlCreate`, `SqlUtility` |
| `Framing` | what `sqlScriptParseLexer` and `splitPsqlScript` do with each token of a script | extends `Entries` |
| `Scripts` | both programs on the statements that a grammar derives, meta-commands, recovery in the body of a routine | extends `Derivation`, `Framing` |
| `ParseContextProofs` | theorems about the context: its buffer, and its errors | extends `ParseContext` |
| `GrammarRunProofs` | theorems about runs: types, branches, and what a run throws and reports | extends the proofs of the context |
| `Induction` | induction over numbers and the existence of recursive functions | |
| `ReaderProofs` | theorem about every reader of the library | extends `Readers`, `Induction` |
| `PrattProofs` | theorems about what `pratt` returns | extends `PrattReadings`, `Induction` |
| `LexerTextProofs` | theorems about the token stream: what it feeds, and what it makes of the text | extends `Lexer` |
| `LiteralsProofs` | theorems about what the readers promise of their tokens | extends `Literals` |
| `Prediction` | when a grammar can be read by looking k tokens ahead: a condition on each rule at each place it may have | extends `Scripts` |
| `Lookahead` | the places of the rules of a given grammar, computed, so that TLC evaluates that condition | extends `Prediction` |
| `ScriptProofs` | theorems about the framing of scripts, and that the condition of `Prediction` is enough | extends `Prediction` |
| `MCParseContext`, `MCGrammarRun`, `MCLexer`, `MCPratt`, `MCSql` | bounded texts and tables for TLC | |

Definitions have the names of the code where TLA+ allows it. A definition
`...Slip` is the one below it after a plausible wrong edit (a forgotten reset, an
off-by-one, a guard dropped). No specification uses it: each property is checked
to fail when the slip takes the place of its original.

### ParseContext

The text is a sequence of items: a token of some kind, or `Bad`, where lexing
throws. Whitespace and values are abstracted, and a token is its place in the
text, which stands for its span. `lexed`, `current` and `produced` are the token
stream, the other variables those of the closure in `rule.ts`. The client is
free: any call may follow any other. A call that begins with `peek` is split at
it (`FetchHead`, `FetchThrows` are the lexing), and the loops of `peekAhead`,
`skipTrivia` and `recover` are run by iteration, because the lexer may throw in
each. `thrown` is the exception in flight: while it is set only the handlers can
act (`RollBack`, `Rethrow`, `Relabel`, `StartRecover`, `Report`, or `Escaped`).
`produced` and `deepest` are histories that no action reads.

### GrammarRun

A run is a client of `ParseContext`: all its steps on the context are steps of
that module (lemma `RunStepsContext`), so everything proved there holds here.
`stage` is the place in `run` and in its root loop; `frames` is the stack of the
lists and branches that are open inside the running item. An item is any rule
of these parts: it may consume, fail, try a branch and commit it, or open a list,
nested at will. None looks ahead or relabels a failure, which the client of
`ParseContext` does, and none holds a loop that recovers. The contract taken from the code's clients is that an item of a loop
consumes a token when it succeeds (`ItemReturns`): `repeat` over a rule that
succeeds on nothing does not end, and nothing in the code prevents it.
`began` and `before` are the counts at the start of a loop's turn and
`combinators.ts:483`; `skipped` is a history.

### InputStream, Readers, Lexer and Literals

`Lexer` runs a call of `peek` or `next` step by step: whitespace, the readers in
order (one step: nothing comes between them), then the walk of the keyword or punctuation trie symbol by symbol
(`Descend`, `EndWalk`), then `Emit`, which is `produce` with its transitions. An
item is what one call of `produce` consumed, a token or the characters of an
error; `items` are so the texts that `ParseContext` starts from. The span of a
string is its content, as in the code, and `from` and `to` are what was consumed.
The words that JavaScript objects inherit are the constant `Inherited`: on such a
word the walk leaves the trie (`KeywordAstray`), as `in` does.

A reader runs without a break and leaves nothing behind, so in `Readers` it is a
function of the text and of where the stream stands: `readBy` gives a token with its
span and the place behind it, an error, or null. The options of a reader are the
fields of its record, with sets of characters for those that may be off. The one
snapshot slot is kept where it decides something: a point, an exponent, a radix
marker and a separator are read behind snapshots of their own (`Provisional`,
`Reloaded`, and `slot` in `readDigitRun`), and the way back is right only because a
run of digits that took a snapshot is not empty.

`Literals` says of a span of text whether it is a number, an operator, a string or a
balanced comment, by its form and not by a scan: digits with separators between two
of them, a character behind an odd run of backslashes, a quote that is half of a
pair, opens and closes in pairs. The readers, with their lookahead of one character
and one place to go back to, must find the longest (`NumbersAreLongest`,
`OperatorsAreLongest`) or the first end (`StringsReadBack`, `DelimitersPair`).

Both `Lexer` and `ParseContext` implement the one abstract `TokenCursor`, the
lexer without marks: what the stream feeds is a tape, and the context adds marks
and the way back to them without the stream's help.

### Pratt

`levels` is the stack of calls of `parseExpression`; a level has its `start`, its `minBp`,
its `left`, and the operator it has open with what is still to be read for it. One
action is one pass of the code up to its next call: `Prefix`, `Atom`, `Postfix`,
`Infix`, `ReadOperand` (a recursive call, or `parseRhs`), `ReadKeyword`, `Close`
(the node is built, and the nonassoc check made), `Break` (return). A guard is a
relation of the operator of `left` and the token behind the operator, which is
what the guards of the tests and of the SQL table look at, and is asked wherever
the code asks it.

`PrattReadings` says without a parser what the readings of a text are: trees over
stretches of it, built from those over shorter ones in any order. An operator may have
what stands on its left when no operand that ends there, further inside, would take it
(`IsLeftTo`), and an operand may be read at a bp when each operator on its left edge is
one that an operand of that bp takes (`MayBe`). `TightestWins` says that what the parser
returns is such a reading of the tokens it took, and that no operand at its end would
have the next operator; `NoOtherReading` that there is no other. The table of `MCPratt`
has a feature of each table in the repository: the sign and NOT as
prefixes, a right and a nonassoc group, BETWEEN with the AND inside, `? :` with
operands at 0, `IS DISTINCT FROM` as a postfix with an operand, quantified twins.
As in both examples, no prefix binds looser than a word that a tail waits for
(AND): a prefix that did would take that word into its operand, and the tail would
miss it. The code does not ask for this; it is a condition on the table, and
`OperandsStop` states it: no operand takes what comes when a tail waits for it.
`ChainsAreTheirs` is another: where an operator of a nonassoc group goes on in a chain,
no other group would have it first. `MCPratt` assumes both of its table, so TLC checks
that it keeps to them.

### Rules, Derivation and the SQL grammar

A rule of the code is a function that looks at tokens and calls others. `Rules`
has it as a term: `seq`, `oneOf`, `optional`, `attempt` and the others under the
names of the combinators, with `First`, `Nullable` and `Backtracks` computed as
`combinators.ts` does (`lazy`, a `Ref` here, hides the last two). Hand-written
rules (`custom`) become `Switch` (a chain of ifs), `While` and `Until` (loops) and
`Clauses` (loops over optional clauses that come in any order), each with the
patterns it peeks for: one, two or three tokens, in the order of the code.

To run 14,515 lines of grammar on all their texts is out of reach, and not needed
to find a wrong choice. `Derivation` derives a text of the grammar instead: at a
choice it goes to any branch, and keeps as a *test* what the parser would have
looked for at this place. The tokens that come settle the tests. A test that
comes out otherwise is a text that the grammar means to have and the parser reads
differently, or not at all: `BranchIsTaken` (a look that must match does) and
`NothingIsSwallowed` (no look that must not match does, be it of an optional
clause, of a loop that ought to end, or of a branch in front). `todo` holds the
rules still open. A test lives as long as its patterns, so its state is what the
parser knows, and texts that agree in it agree from there on. How a rule may go on is a
set of ways: the rules in its place and the test of having gone there (`BranchWay`,
`OptionWay`, `CaseWay`, `RoundWay`, `ClauseWay`, `EndWay`).

TLC so derives the texts up to the bounds of the run. `Prediction` says what is enough
for all of them. A *place* of a rule is what may be ahead of it and what may be behind
it, k tokens each. `Predicts` asks of each way of a rule, at each of its places, that
the rules it goes on with have places that fit into this one, and that all that may be
ahead then passes the test. That is a condition on the rules, one at a time, and not on
texts; that it is enough is proved (see Theorems). `Lookahead` computes the places of
the rules of a grammar from what may follow each, and `ReadableBy` is the condition of
them. `TextsArePredicted` has TLC evaluate it for the rules `ReadRoots` of `MCSql` with
three tokens: the statements on data (SELECT, INSERT, UPDATE, DELETE, MERGE and all
that a query has), COPY, SET, and fourteen rules of queries, expressions and CREATE. Of
these, texts with any number of clauses and of any nesting are read as they were
derived; what is inside of an expression remains the frontier described below.

The instances `Sql...` have a rule for each rule of `grammar.ts`, under its name.
What they abstract: an expression, a query, a table of a FROM list or a statement
in a body is, inside another rule, one token that may begin it and one that it may
end with (`someTerm`, `someTable`, `someFrom`, `someStatement`), with what could go
on behind it (`Ends`, the operators that would be taken) kept as a test. The rule
itself is a root of its own. Names are plain words, other than where a word decides
(`nameOrCall`, the words that begin a special call). The look into a parenthesis
(`isSubqueryParen`) is two tokens, as for texts without a nested `((`.

### Scripts

Nobody may parse a psql script before it is cut into statements, because behind a
`COPY ... FROM STDIN;` come lines that are no SQL. `sqlScriptParseLexer` and
`splitPsqlScript` therefore go by words: which statement is a COPY from STDIN, and
whether a semicolon is one inside of a routine's BEGIN ATOMIC body, by the rules of
psql (the words that lead, BEGIN and END, CASE inside of a block). What each does with
a token is `track` (the lexer) and `split` (the splitter) of `Framing`. In `Scripts` both
read a script together with the grammar that derives it: `FollowToken` takes a token of
the derivation and gives it to both,
`NextItem` begins the next statement, and `MetaCommand` puts a meta-command on a
line of its own anywhere behind the first token, so that what a statement leaves
behind meets the next one. `routine`, `copying` and `dataPending` are the variables
of the closures in `lexer.ts`, `splitter` those of `psql-split.ts`. `fromClient` is
a history: the grammar has taken the STDIN that asks for rows.

`Breaks` is `diagnose` of a routine whose body has a broken statement: the parser
has croaked anywhere in it and the loop of `parseAtomicBody` skips (`SkipToken`)
through the semicolon that ends it at the body's own depth, or up to the END
(`ResumeAtEnd`). What is left of the statement is any sequence of words,
semicolons, and BEGIN, CASE and END. The statement has left no parenthesis open:
psql's heuristic, which the skip relies on, counts no word behind one. A nested body
is the token `someStatement` of another rule, so one level of bodies is followed;
the skip that meets the end of the text or a meta-command ends with the statement
in `MetaCommand`.

A name is a plain word or, of the words that the two go by, one of `Names`: `stdin`
in `sql`, `copy` in `copy_rows`. Not among them are `begin`, `case` and `end` as
names inside of a body, of which the code says that they mislead psql and so, on
purpose, both programs. `clientName` is a history: the statement has a name spelled
`stdin`, which the splitter may take for the client's (`COPY t FROM 'f' WHERE a IS
DISTINCT FROM stdin`), the lexer having stopped at the first FROM.

`apart` says that the two programs read different statements: where the lexer ends one
that the splitter reads on, at a meta-command in the middle of it or at a semicolon in
an open parenthesis, and where the splitter alone takes rows (`Parts`). Of what the
splitter has read then nothing is kept, so the two may meet again wherever the lexer
begins a statement (`Follow`), and what is said of both is said of statements that
both read.

## Runs

| Run | Question | Bounds |
|---|---|---|
| `backtracking` | is the buffer invisible? `HeadIsNextToken`, `LastSigAnchors`, `LookaheadIsExact`, `BufferIsDrained`, refinement of `TokenCursor`; are the right errors recorded (`RecordedIsDeepest`, `LexerErrorsSurface`)? do the loops of `peekAhead`, `skipTrivia` and `recover` return (`LoopsReturn`)? | texts of 3 items, bad ones and both kinds of sync point among them, 2 nested branches, `peekAhead(2)` |
| `diagnose` | does `diagnose` end, return, and say so when it skipped something? | 4 items, one branch, lists nested as deep as the text allows |
| `parse` | does `parse` throw the deepest failure? does it see the tape (`CursorSpec`)? all four forms | 3 items, 2 branches |
| `lexing` | do the tokens tile the text, with true positions, longest matches and modes? are literals what they ought to be? | texts over eleven alphabets of 2 to 5 characters, one for each reader and trie, of 4 to 8 characters |
| `pratt` | is what is returned a tree by binding power, and the only one? does the parser stop only where no reading goes on, and refuse only chains? | texts of 6 or 7 tokens over alphabets of 4 or 5 |
| `sql` | is every text of the SQL grammar read as it was derived? do all choices hold apart? does the parser advance? do the script lexer and the splitter frame statements and rows as the grammar does, and count alike after every token (`FramesAlike`, `RowsAreSplit`)? which rules are read by looking three tokens ahead, whatever the text (`TextsArePredicted`)? | two clauses of each loop over options, at most 40 rules open, three open blocks in a broken statement; every branch, clause and option; no bound for `TextsArePredicted` but k = 3 and the rules `ReadRoots` |
| `sync_keyword`, `first_token`, `nested_list`, `inherited_name`, `function_options`, `copy_rows` | see Findings | |

Why the bounds are enough. The buffer, `snapshots` and the cursor interact
through differences of at most the depth of branches and the argument of
`peekAhead`: two nested branches and a lookahead of two show every order of
snapshot, refill, rollback and compaction, and three items leave a token on both
sides. A list needs an open, an item, a separator and a close. In the lexer a
walk needs three symbols to reach a node past an entry that is none, and one
more to take back; `` `${{} `` is the shortest text with a nested brace in an
interpolation. A number has a sign, a radix marker or a point, a separator and an
exponent with a sign: five characters have every two of these next to each other.
Eight are the shortest nested comment with an open or a close that overlaps another,
and a body of five has each order of quotes and backslashes up to two pairs.
`MaxErrors` cuts `backtracking` where the client records more
diagnostics than that; in `diagnose` it is above what a text of that length can
cause. `MaxTries` and `MaxDepth` bound branches, `MaxAhead` the lookahead; the
alphabet of each run is the smallest in which the kinds it tells apart differ.

A wrong side for an operand needs two operators, a guard that must be asked again
at an outer level or a chain behind a prefix three: six tokens have three operators
with their operands, and BETWEEN with a neighbour on each side needs seven. In
`sql` a test is settled by the two or three tokens behind the choice, so no longer
text tells more, as long as every rule can follow every other that the grammar lets
follow it: `MaxClauses` (two distinct clauses of a loop, each possibly again) has
every pair of them; three clauses (1.1 million states before the scripts were added, four minutes) show nothing
new. `MaxTodo` is never reached (60 gives the same states). A script has any number
of statements: only what one leaves behind is state. `MaxBlocks` is the body
with a block inside of a block.

For the rules in `ReadRoots` the argument from two or three tokens is no argument but a
theorem, with `TextsArePredicted` as what it asks of them: `MaxClauses`, `MaxTodo` and
the length of texts do not limit what is known of these. For the others the bounds
stand. Three tokens settle all in `ReadRoots`; GRANT, REVOKE, the objects of DROP and
`memberObject` need four, and the typed literals of an expression
(`NATIONAL CHARACTER VARYING '...'`) five, which TLC does not compute in minutes. Nor
does it for the whole of CREATE, ALTER and `script`, where loops over clauses in any
order give the rules thousands of places.

Fairness. The library is synchronous: once called, a loop of the context goes on
until it returns (`WF_vars(LoopStep)`), and a run goes on until it ends
(`WF_allVars(RunStep)`), and so does a parser in `Scripts` (`WF_scriptVars(ScriptNext)`):
`Advances` says that it then takes tokens again and again, so no cycle of rules, no
loop and no recovery in a body goes round on nothing. No fairness is assumed of what an item does: `Finishes`
holds for every choice of steps, because each of them consumes something of the
text or of the bounds. Deadlock is checked in the runs of `Spec`s that end in
explicit stuttering (`Escaped`, `Ended`, `Crashed`).

## Findings

- `sync_keyword` (`combinators.ts:483-488`, `grammar.ts:163-165`): the forced
  `next()` after a recovery that moved nothing skips a construct keyword on which
  parsing should resume (`rule.ts:54-55`).
- `first_token` (`grammar.ts:142`): in the expressions form an unreadable first
  token makes `diagnose` throw (`README.md:223`).
- `nested_list` (`combinators.ts:412`): an inner list's delimiter ends the skip
  when the item failed behind the inner open token (`combinators.ts:407-408`).
- `inherited_name` (`trie.ts:40-41`): an identifier such as `constructor` leads
  the keyword walk to an inherited member and a `TypeError`.

- `function_options` (`grammar.ts:7873-7880`): after COST or ROWS the NOT of
  NOT LEAKPROOF is taken by the expression, though the loop is said to be free of
  order (`grammar.ts:7800`). The rule of the `sql` run has that clause in front.
- `copy_rows` (`lexer.ts:1159`): `COPY BINARY copy FROM STDIN` has rows that the
  script lexer does not read, because it takes the word behind any `copy` for the
  name of the table (against `lexer.ts:1105-1109`). `copy` is no name in the `sql`
  run for this reason.

Smaller disagreements met on the way, which no run states. An argument's type is
read before its DEFAULT is looked for, so `CREATE FUNCTION f(int DEFAULT 1)` takes
`int` for a name and DEFAULT for its type (7502, 7532-7540). `RETURNS NULL ON NULL
INPUT` is read as a return type where none was given (7568). `CUBE ((a) + 1, b)`
is refused, since a parenthesis is taken for a column group (12176-12190). The
comment at 6289 already says that IS JSON and FETCH take the WITH of WITH DATA, and
the one at 8753 that a quoted `"primary"` or `"column"` is misread behind ADD. The
rules of the model leave these texts out, so that the run speaks of the others.

## Theorems

All are about the specifications for every value of the constants: any text, any
table, any bound. An invariant that a run checks is seldom inductive; what had to be
added is said with each.

*ParseContext.* `Invariance` proves the inductive invariant `IInv`. Type
correctness and `HeadIsNextToken` are not inductive: a rollback returns to a
state that they say nothing about. `IInv` says for each snapshot what it must be
for the rollback to be right: that the buffer, from its position on, and then
`current`, are the tokens of `produced` from its count on, that its `last` and
`lastSig` are those of that count, and that snapshots are ordered. From it follow
`TypeCorrect`, `HeadIsNext`, `AnchorIsRight`, `LookaheadIsRight`, `BufferDrains`,
and `Refinement`: every step is one of `TokenCursor` or a stutter.

*Errors of the context*. Steps fall into six kinds by what they
do to errors (`Meets`). `NoLexerErrorIsLost` needs `SurfaceInv`: beside each item that
failed to lex being collected once or in flight, that nothing collected or in flight
is an item the stream has not reached, that the error in flight is not collected yet,
and that `farthest` is never an error of the lexer, since `run` may throw it in place
of the one in flight. `RecordsTheDeepest` needs `MarkInv`: a croak in flight is never
deeper than `deepest`, and `farthest` is as deep as it, so that what `record` takes is
the deepest whichever of the two it takes.

*GrammarRun.* `RunStepsContext` shows that each step of a run is a step of the
context, so `ContextInvariance` and `RunRefinement` follow, and with them the
theorems on errors hold in every run (`ErrorInvariance`, `RunLosesNoLexerError`,
`RunRecordsTheDeepest`). `RepeatNeverThrows` proves `RepeatCollects`: `Quiet` says where
the run may stand with an exception in flight or with tokens to lex; outside the
loop's `try` the head of the stream is known and is no trivia, so the trailing
`skipTrivia` and `eof` lex nothing and cannot throw; `Bare` adds that frames are open
only while an item runs. `RunTypeCorrect` has the types. `BranchesClose` needs
`Paired`: as many snapshots are open as there are branches among the frames, counted
by cardinality, since one exception may unwind lists and branches in any order.
`ThrowsTheDeepest` adds `Thrown` (behind the root only the lexer or the run throws),
`CleanIsParsed` adds `Confesses` (a recovery leaves a diagnostic before it passes its
first token) and `Stopped` (a run that is done stands at the end of the text or before
what it reports as trailing).

*Lexer.* `FeedInvariance` (at most one token ahead, what `next` returned is a
prefix of what was lexed) and from it `FeedRefinement`, for any table of modes,
readers and transitions.

*Readers.* `ReadersAnswer`: every reader, with any options and on any text, answers
null or takes at least one character, with a span within what it takes, inside of the
text. `Readers` is written with recursive functions, and what a recursive function
computes is a matter of induction over data. The library's theorems for it take an
operator as a parameter, which the provers cannot instantiate; `Induction` states
them of sets and of functions instead: `SetInduction` and `UpInduction` of the set of
what has a property, `FixedPoint`, `Upward` and `Downward` of the right side of a
definition as a function from functions to functions, which has a solution where it
looks only back, or only ahead.

*The text* (`LexerTextProofs`). `StateInvariance` proves `StateOK`, types and what holds
in every step of a call: `StandOK` says where the stream and its one snapshot stand (the
walk never goes behind where it began, and the slot is that place or, with an entry
found, behind it), which is what makes every item non-empty. From it follow
`LexTypeCorrect` and `CountsTruePlaces`: places are elements of `TruePlaces`, and moving
over characters keeps them so, whatever is taken back. Then, each with what it needs
beside `StateOK`:

- `LexesAllOfTheText`: `TileOK` says, for the middle of a call, that only whitespace
  is between the last item and where the call began.
- `ContextIsPure`: `ContextIsOfTokens` is a recursion over the items; `HistoryOK` says
  that there is a function on them that obeys it and ends in the present stack.
- `TheLongestWins`: `ReachOK` says of the walk that `node` is what the text has from
  where the walk began, symbol by symbol, that no entry on the way is longer than
  `found`, and that the stream and the slot stand where those symbols, with the
  whitespace between words, end (`WalkIs`, for either trie). Where no child goes on,
  no longer entry can be there (`WalkFindsLongest`). The theorem has one hypothesis,
  `ReadersHaveOwnTypes`: the types of the tokens that readers make are the client's
  choice, and the property tells a keyword by its type.

*What the readers promise* (`LiteralsProofs`). The items are kept as they were made, so
what is said of a token is proved of the step that makes it (`MakerAnswers`: the token
is what the reader of its type answers at the place where the token begins), and stays
(`StepMakes`). Which reader made a token is told by its type: `ReadersHaveOwnTypes` and
`TypesTell` are hypotheses, since types are the client's choice.

- `OperatorsAreRead`: cutting at the first comment start and trimming signs leaves the
  longest span that `IsOperator` allows. Its hypothesis `StopsAreOperators` is what
  comment starts are for: the code looks for them in the run of operator characters, so
  one that has another character would not be found.
- `DelimitersArePaired`: `ClosedAt` counts a depth while it goes over the text;
  `Balanced` splits a span into pairs. `ScanPassesBalanced` says that the scan comes out
  of a balanced span with the depth it went in with, `ScanFindsBalanced` that where it
  stops at depth one the span before is balanced; both are inductions over the places of
  the text. For the regex, `ShieldedNext` and `InClassNext` say how the backslashes
  before a place, and the last bracket before it, go on by one character, and
  `RegexCloses` that the scan's two places of memory are these.
- `StringsAreRead`: `bodyOf` takes an escape or a pair of quotes at a time. `IsRead`
  names the places where nothing is half read (no odd run of backslashes, no odd run of
  bare quotes before it); `StringGoesOn` shows that the scan comes from one such place
  to the next and takes the character that `Stands` and `Meaning` give, and `BodyReads`
  is the induction. Its hypothesis `BlocksTell` is again about types: a block string and
  a quoted one of the same reader must differ in it.
- `NumbersAreRead`: each run of digits is the longest at its place (`DigitsAreLongest`),
  each part behind a lead is there with its longest run or is given up with the lead and
  no more (`PartReads`: the slot that the run of digits leaves is the one taken before
  the lead), and what is read up to any place spells the text up to there without its
  separators (`Spells`, with `WithoutConcat`). `DecimalIsLongest` and `RadixIsLongest`
  then compare the places that the code comes to with those of any other way to read
  the text as a number. That no number is left to a word or to punctuation needs
  `NoNumberOK`: behind the readers the text has none where the call began, which
  `Dispatch` establishes and the walks keep. Its hypothesis `PartsTell` is what the
  comparison rests on: digits and separators are none of the points, exponents, markers
  and signs, and a point is no exponent. Those characters are fixed in `lexer.ts`, all
  but the signs, which are an option.

The two about strings and delimiters rest on options that `IsReader` demands: a backslash
is neither the quote nor a slash or bracket that it could shield. In the code the
backslash is fixed.

*Pratt.* `PrattInvariance` proves `PrattInv`, and `OperandsGoToTheTighter` that it implies
`TightestWins`, for every table of groups, with any guards, tails and bps that are
integers. That what is returned is a reading says nothing of the calls that have not
returned. `StackOK` says of each what it holds: the innermost one a reading of the tokens
from its `start` to the cursor, each other one a reading of those from its `start` to the
`start` of the call it waits for, with the same open node and the same reads to come,
read so far at its `minBp` (`Bears`). Between two passes the cursor stands before an
operator; `Settled` says that no operand that ends inside of the reading would take it or
go on in a chain with it, which is what `IsLeftTo` asks when the loop opens it
(`OperatorStep`). It is established where a call returns: `LoopTakes` shows that the loop
stops just where an operand at its `minBp` takes no operator, and `TakesOperand` adds that
operand to those of the caller's reading. `ReadingsAre` unfolds the table of readings,
which is a recursive function.

The other three properties are about all readings of the text, where `PrattInv` follows
the one that the parser builds. `CompleteInv` adds to it, for every expression `e` that
the first `n` words are and that the cursor has not passed (`NearsAll`): each level has
an aim, a reading with the level's `start` that fits its `minBp`. What the level holds is
on the way to its aim (`Grows`: by a word or by an operand at a time, as the readings are
built); the aim of a called level is the operand with which its caller goes on to its
own aim (`CallerNears`); the aim of the outermost is `e`. Two facts carry it on. Where the
aim goes on by an operator, that operator is on its left edge, so an operand at the
level's `minBp` takes it as this group, which is the group that the loop finds (`OneTakes`):
the parser cannot open another one nor return (`EndsOrGoesOn`). And no operand at the end
of an aim would take what comes there (`Ends`), so the parser cannot go on beyond it: that
is `IsLeftTo` where an operator comes, and `OperandsStop` where a word of a tail or another
operand does (`OperandEnds`). At a `done` the aim is what the level holds, hence
`NoReadingIsAnother` (`NoOtherReading`); an expression that is still ahead at a `done` or a
croak is a contradiction, hence `NothingIsLeft` (`ReadsOn`); and one that ends at a croak
was refused by the check for chains, hence `ChainsAreRefused` (`OnlyChainsAreRefused`). The
theorems have `OperandsStop` as a hypothesis and the last two `ChainsAreTheirs`; without
the first the parser takes a word that a tail waits for into an operand.

*Scripts.* `FramingInvariance` proves `FramingInv`, for every grammar and every first set
that it declares: what the two programs agree on does not depend on what is derived, nor
on where a broken statement or a meta-command breaks off. Three counts of parentheses
are kept that no line of the code holds together: one of `routineTracker`, one of `track`
and, in the other program, one of the splitter. `FramesAlike` relates the first and the
third after every token, with the blocks and the leading words; `FramedAlike` proves it.
The second is counted only in a COPY and only up to its location, and `CountsAlike` says
that it is the same until then. It also says that a FROM which the lexer has just seen as
a keyword is the last word of the splitter, so that the STDIN behind it is one for both
(`RowsAreFound`, of `RowsAreSplit`). `LedByCopy` keeps COPY and routines apart: its first
word leads no routine (`RoutinesAreCreated`), hence no block is ever open in a COPY
(`CopiesHaveNoBlocks`). `StartsAfresh`, nothing is left of a statement when the next one
begins, is what a forgotten reset breaks. The converse of `RowsAreSplit` does not hold
for every grammar: the splitter takes a later FROM, which the lexer does not look at, for
the location; that in SQL only a name spelled `stdin` makes it rows is what `SplitsAlike`
checks. What relates the two programs is about statements that both read (`apart`);
where they meet again, the lexer is at the start of a statement, of which `StartsAfresh`
says all that the invariant asks.

*Prediction.* `TextsAreRead` proves the invariant `Predicted` of `Scripts`, for every
grammar, every k and any `Places` with `Predicts` and `Begins`: what is left of a text
is, rule by rule, at places one behind the other (`AtPlaces`), each open test passes all
that may be ahead there, and no test has a pattern longer than k. Neither
`BranchIsTaken` nor `NothingIsSwallowed` is inductive: they say nothing of a test that
is still open. What `Predicted` says of it carries over a step for two reasons. Where a
rule goes on by one of its ways, what is ahead of the way's rules was ahead of the rule
(`RuleStep`, with `RestIsPlaced` and `BothArePlaced` for rules put in front of those
left), so older tests pass as before and the new one passes by `GoesOn`. Where a token is
taken, a test that passes the token with what comes behind it passes, after it, what
came behind (`TokenTaken`, `PassesNow`): this is where k tokens are enough, since `Cut`
of token and rest says of a pattern of at most k tokens all that there is to say
(`CutAgrees`). Statements of a script, those that a meta-command cuts short, and a body
that is resumed in its loop (`SkipsToLoop`) begin at places again. Something is always
ahead, if only the end (`SomethingIsAhead`): hence a test that passes has not come out
the other way (`PredictedIsTaken`), and `EachBranchIsTaken` and `NoneIsSwallowed` follow
as `[]BranchIsTaken` and `[]NothingIsSwallowed`. `NoChoiceThrows` is `[]ChoicesAreDisjoint`
where `Disjoint(Places)`: a rule that comes up has a place, so checking those that have
is checking all. The hypotheses are no assumption about SQL: `TextsArePredicted` has
them evaluated for the rules of `ReadRoots`, each as the only root, and for COPY also as
the statement of a script (`FramedRoots`).

Assumptions used: the named ASSUMEs of the modules, which TLC evaluates in the
runs.

Model-checked only, and why:

- `LoopsReturn`, `Finishes`, `Advances`: liveness under fairness.
- `OperandsStop` and `ChainsAreTheirs` of a given table: TLC evaluates them for the table
  and the texts of `MCPratt`.
- `BranchIsTaken`, `NothingIsSwallowed`, `ChoicesAreDisjoint` of the rules that are not in
  `ReadRoots`: no grammar has them by itself, and the condition of `Prediction`, from
  which they are proved, is more than TLC evaluates for these; the run checks the
  properties themselves, up to its bounds. The condition itself (`TextsArePredicted`) is
  evaluated by TLC: places and first sets are computed with recursive operators
  (`Lookahead`, `FirstSets`).
- `BodiesStayWhole`, `RowsFollowTheirCopy`, `SplitsAlike`: they compare what the two
  programs do by words alone with where that grammar has its bodies, its STDIN and its
  semicolons. Of another grammar they are false.

## Plan

Done first, as the most important behaviour: the parse context and its buffer,
then the runs and their recovery, then the token stream, the table of `pratt` and the SQL
grammar, each with its proofs. What is left, in order:

1. The rules of js-lite, as another instance of `Derivation`.
2. More rules in `ReadRoots`. The loops over clauses in any order cost most, because a
   clause has a place for each set of those that may still come.

## Not modelled

In the SQL grammar: the values, spans and names of its tree; croaks that are about
values and not about tokens, such as a clause that is given twice; the scan ahead
that tells the parenthesis of a nested query from that of an expression; the block
of rows itself, its lines and what they report (`copyDataReader`, `copyDataError`);
the loop of `scriptRoot` over statements, meta-commands and rows, of which `Scripts`
has the order; the recovery of `repeat` between statements of a script, which
`GrammarRun` has for any grammar; the tables of its `lexer.ts`. In `psql-split.ts`:
how it steps over strings, dollar quotes, comments and rows, and the texts and line
numbers that it returns; the prefix of a string (`E'...'`), which it reads as a word of
its own and the lexer as part of the string.

In the lexer: case folding, labels and the dedenting of block strings, which change
values and not where tokens begin and end; `\r`, which ends a line comment and a regex
as a newline does; custom readers, which are code of the client. `IsReader` and
`IsMode` name what the code leaves to whoever writes the table: with a number that may
begin with a point but have none, or an identifier whose first character is no part of
it, the lexer returns empty tokens for ever.

Elsewhere, and not planned: wording of messages, spans of AST nodes, `strip-spans.ts`, benchmarks, corpus loading and release scripts: no state
that outlives a call, or only data.
