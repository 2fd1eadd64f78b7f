-------------------------------- MODULE Rules --------------------------------
(***************************************************************************)
(* The combinators of packages/core/src/combinators.ts as data. A rule is  *)
(* a term; what a rule does is in Derivation. A term keeps what decides    *)
(* how the parser goes on: which tokens it takes, what it looks at before  *)
(* it chooses, and the first set it declares. Values, spans and messages   *)
(* are abstracted.                                                         *)
(*                                                                         *)
(* A pattern is a sequence of entries: what peek and peekAhead look at.    *)
(***************************************************************************)
EXTENDS Entries, Sequences, FiniteSets, Naturals

CONSTANTS
  Reserved,  \* the words that identifierLike excludes
  NameTypes  \* the words that a lookahead for a name excludes, by its type

\* A name is an identifier that is not reserved, or a quoted one: code that
\* looks for a name with peek, not a rule. NameTypes["name"] is Reserved.
NameAhead == OfType("name")

Eof == Entry("eof", "")

\* An operator that is no comparison; any token of the statement.
Operator == OfType("operator")

More == OfType("more")

Comparisons == {"<", ">", "<=", ">=", "=", "<>", "!="}

MatchesToken(entry, next) ==
  CASE entry.type \in DOMAIN NameTypes ->
         \/ next.type = "qident"
         \/ next.type = "ident" /\ next.value \notin NameTypes[entry.type]
    [] entry.type = "operator" -> next.type = "op" /\ next.value \notin Comparisons \cup {"=>"}
    [] entry.type = "more" -> next.type # "eof" /\ next # Punc(";")
    [] OTHER ->
         entry.type = next.type /\ entry.value \in {AnyValue, next.value}

\* One token ahead that matches one of these entries.
Ahead(entries) == {<<entry>> : entry \in entries}

-------------------------------------------------------------------------------
(* Terms.                                                                  *)

\* A token of one of the entries: any of emits stands for all that it takes.
Terminal(first, emits) == [kind |-> "token", first |-> first, emits |-> emits]

\* token(type) and token(type, {values}).
token(type) == Terminal({OfType(type)}, {Entry(type, type)})

tokenIn(entries) == Terminal(entries, entries)

kw(text) == tokenIn({Word(text)})

kwIn(texts) == tokenIn(Words(texts))

punc(value) == tokenIn({Punc(value)})

op(value) == tokenIn({Entry("op", value)})

\* A word that no rule of the grammar names.
PlainWord == Word("x")

\* identifierLike takes no reserved word, but its first set has the type only.
identifierLike == Terminal({OfType("ident")}, {PlainWord})

seq(rules) == [kind |-> "seq", rules |-> rules]

Nothing == seq(<<>>)

kwseq(texts) == seq([i \in DOMAIN texts |-> kw(texts[i])])

\* Two passes over the branches, literals before types.
oneOf(rules) == [kind |-> "oneOf", rules |-> rules]

\* if (lookahead matches) ... else if ... of a hand-written rule: the first case
\* whose patterns match, or otherwise.
Switch(cases, otherwise) == [kind |-> "switch", cases |-> cases, otherwise |-> otherwise]

Case(patterns, rule) == [patterns |-> patterns, rule |-> rule]

Look(patterns, then, otherwise) == Switch(<<Case(patterns, then)>>, otherwise)

\* The text is refused here.
Croak == [kind |-> "croak"]

attempt(rule) == [kind |-> "attempt", rule |-> rule]

\* lazy and custom: a rule by its name. lazy knows neither nullable nor
\* backtracks of the rule it stands for.
Ref(name) == [kind |-> "ref", name |-> name]

custom(first, rule) == [kind |-> "custom", first |-> Ahead(first), rule |-> rule]

\* `while (!lookahead matches) rule`, `while (lookahead matches) rule`.
Until(patterns, rule) == [kind |-> "loop", patterns |-> patterns, stop |-> TRUE, rule |-> rule]

While(patterns, rule) == [kind |-> "loop", patterns |-> patterns, stop |-> FALSE, rule |-> rule]

optional(rule) == [kind |-> "optional", rule |-> rule]

\* many of the SQL grammar, a while over the first set of a rule; repeat, too.
many(rule) == [kind |-> "many", rule |-> rule]

sepBy(item, separator) ==
  seq(<<item, While(Ahead(separator.first), seq(<<separator, item>>))>>)

\* An interleaved list may be empty.
delimited(open, close, separator, item) ==
  LET ends == Ahead(close.first)
  IN  seq(<<open,
            Look(ends, Nothing, seq(<<item, Until(ends, seq(<<separator, item>>))>>)),
            close>>)

\* `while (true)` over the clauses that a statement may have in any order. A
\* clause that was there is not looked for again ("left"), is found again and
\* refused ("refused"), or may come again ("again").
Clauses(clauses) == [kind |-> "clauses", clauses |-> clauses, spent |-> {}]

Clause(patterns, rule, again) == [patterns |-> patterns, rule |-> rule, again |-> again]

\* What the loop of an expression or a query would go on with: the parser looks
\* for these tokens here before it returns, unless the guard is there.
EndsUnless(guard, patterns) == [kind |-> "ends", guard |-> guard, patterns |-> patterns]

Ends(patterns) == EndsUnless({}, patterns)

\* oneOf and optional roll an attempt back; lazy and custom lose that.
Backtracks(rule) == rule.kind = "attempt"
================================================================================
