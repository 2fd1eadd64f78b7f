------------------------------ MODULE Derivation ------------------------------
(***************************************************************************)
(* A parser as it reads a text that its grammar derives. The parser does   *)
(* not know the text: at each choice it looks at the next token, or at two *)
(* of them, and commits. Here the choice is made first, any choice; what   *)
(* the parser would look for at that place is kept as a test, and the      *)
(* tokens that come settle it. A test that comes out the other way is a    *)
(* text of the grammar that the parser does not read as it was derived:    *)
(* another branch, a name or a list takes the token, or none does.         *)
(***************************************************************************)
EXTENDS Rules, SequencesExt

CONSTANTS
  Grammar(_),  \* the rule of a name
  FirstOf(_),  \* the first set that a rule declares
  Roots,       \* the names of the rules that a whole text may be of
  MaxClauses,  \* bound: how many clauses of one loop come
  MaxTodo      \* bound: the rules that are open

VARIABLES
  todo,   \* the rules left, the innermost first
  tests   \* what was looked for at the next tokens, and whether it must be there

vars == <<todo, tests>>

-------------------------------------------------------------------------------
(* Tests. The parser looks for one set of patterns after the other, and    *)
(* goes where the first one that matches leads. A test has these looks, and*)
(* says which of them leads to what was derived (mine), and whether one of *)
(* them must match (must).                                                 *)

Seen(patterns, mine) == [patterns |-> patterns, mine |-> mine]

Wanted(looks) == [must |-> TRUE, looks |-> looks]

Unwanted(patterns) == [must |-> FALSE, looks |-> <<Seen(patterns, FALSE)>>]

\* No look matches.
Failed(test) == \A i \in DOMAIN test.looks : test.looks[i].patterns = {}

\* The i-th look is the first that is left, and matches.
MatchedBy(test, i) ==
  /\ \A j \in 1..(i - 1) : test.looks[j].patterns = {}
  /\ <<>> \in test.looks[i].patterns

Settled(test) ==
  \/ Failed(test) /\ ~test.must
  \/ \E i \in DOMAIN test.looks : MatchedBy(test, i) /\ test.looks[i].mine

\* A test that looks for nothing is none.
Tested(test) == tests' = tests \cup (IF Failed(test) /\ ~test.must THEN {} ELSE {test})

\* The patterns that a token leaves, each without its head.
After(patterns, next) ==
  {Tail(p) : p \in {q \in patterns : q # <<>> /\ MatchesToken(Head(q), next)}}
    \cup (patterns \cap {<<>>})

Read(test, next) ==
  [test EXCEPT !.looks =
     [i \in DOMAIN test.looks |-> Seen(After(test.looks[i].patterns, next), test.looks[i].mine)]]

-------------------------------------------------------------------------------
(* Tokens.                                                                 *)

rule == Head(todo)

Doing(kind) == todo # <<>> /\ rule.kind = kind

\* The rule at the head is replaced by these.
Goes(rules) == todo' = rules \o Tail(todo)

Takes(next) ==
  /\ Goes(<<>>)
  /\ tests' = {test \in {Read(each, next) : each \in tests} : ~Settled(test)}

\* token, word, identifierLike, eat and next take a token.
TakeToken == Doing("token") /\ \E next \in rule.emits : Takes(next)

-------------------------------------------------------------------------------
(* Rules.                                                                  *)

Sequence == Doing("seq") /\ Goes(rule.rules) /\ UNCHANGED tests

Enter ==
  /\ \/ Doing("ref") /\ Len(todo) <= MaxTodo /\ Goes(<<Grammar(rule.name)>>)
     \/ Doing("custom") /\ Goes(<<rule.rule>>)
     \/ Doing("attempt") /\ Goes(<<rule.rule>>)
  /\ UNCHANGED tests

IsLiteral(pattern) == pattern[1].value # AnyValue

\* What oneOf looks for where the i-th branch is derived, given the first set of
\* each: the branches whose literals match come before those whose types do, each
\* in the order of declaration.
BranchLooks(r, firsts, i) ==
  LET literals == [n \in DOMAIN firsts |-> {p \in firsts[n] : IsLiteral(p)}]
      others == {n \in DOMAIN firsts : n # i /\ ~Backtracks(r.rules[n])}
      pass(sets) ==
        <<Seen(UNION {sets[n] : n \in {n \in others : n < i}}, FALSE),
          Seen(sets[i], TRUE),
          Seen(UNION {sets[n] : n \in {n \in others : n > i}}, FALSE)>>
  IN  pass(literals) \o pass([n \in DOMAIN firsts |-> firsts[n] \ literals[n]])

\* oneOf refuses branches whose first sets share an entry, unless one of them is
\* an attempt. A type and one of its values are two entries.
Validates(rules) ==
  \A i, j \in {n \in DOMAIN rules : ~Backtracks(rules[n])} :
    i # j => FirstOf(rules[i]) \cap FirstOf(rules[j]) = {}

\* A way that a rule may go on, with the test of it.
Way(rules, test) == [rules |-> rules, test |-> test]

Commits(way) == Goes(way.rules) /\ Tested(way.test)

\* Of these rules, the text may have those that do not croak.
Sound(rules) == {i \in DOMAIN rules : rules[i].kind # "croak"}

\* oneOf: an attempt that fails gives back what it has read, and the next branch
\* is tried.
BranchWay(r, i) ==
  Way(<<r.rules[i]>>, Wanted(BranchLooks(r, [n \in DOMAIN r.rules |-> FirstOf(r.rules[n])], i)))

Branch == Doing("oneOf") /\ \E i \in Sound(rule.rules) : Commits(BranchWay(rule, i))

\* optional: an attempt that fails gives the tokens back.
OptionWay(r, there) ==
  IF there THEN Way(<<r.rule>>, Wanted(<<Seen(FirstOf(r.rule), TRUE)>>))
           ELSE Way(<<>>, Unwanted(IF Backtracks(r.rule) THEN {} ELSE FirstOf(r.rule)))

Optional == Doing("optional") /\ \E there \in BOOLEAN : Commits(OptionWay(rule, there))

\* Hand-written rules: if, while, and loops over clauses.
Before(cases, i) == UNION {cases[j].patterns : j \in 1..(i - 1)}

\* The 0-th case is the else.
CaseRule(r, i) == IF i = 0 THEN r.otherwise ELSE r.cases[i].rule

CaseWay(r, i) ==
  Way(<<CaseRule(r, i)>>,
      IF i = 0
      THEN Unwanted(Before(r.cases, Len(r.cases) + 1))
      ELSE Wanted(<<Seen(Before(r.cases, i), FALSE), Seen(r.cases[i].patterns, TRUE)>>))

CasesOf(r) == {i \in 0..Len(r.cases) : CaseRule(r, i).kind # "croak"}

Decide == Doing("switch") /\ \E i \in CasesOf(rule) : Commits(CaseWay(rule, i))

\* A loop goes round while (or until) its patterns match.
RoundWay(r, patterns, stop, round) ==
  Way(IF round THEN <<r.rule, r>> ELSE <<>>,
      IF round <=> stop THEN Unwanted(patterns) ELSE Wanted(<<Seen(patterns, TRUE)>>))

Loop ==
  \/ Doing("many") /\ \E round \in BOOLEAN : Commits(RoundWay(rule, FirstOf(rule.rule), FALSE, round))
  \/ Doing("loop") /\ \E round \in BOOLEAN : Commits(RoundWay(rule, rule.patterns, rule.stop, round))

\* The clauses that are still looked for, in order: those before the one that
\* comes are not there.
Open(r) == {i \in DOMAIN r.clauses : r.clauses[i].again # "left" \/ i \notin r.spent}

Looked(r, below) == UNION {r.clauses[i].patterns : i \in {n \in Open(r) : n < below}}

\* A clause that may come here.
Comes(r, i) ==
  /\ r.clauses[i].rule.kind # "croak"
  /\ r.clauses[i].again = "refused" => i \notin r.spent

ClauseWay(r, i) ==
  Way(<<r.clauses[i].rule, [r EXCEPT !.spent = @ \cup {i}]>>,
      Wanted(<<Seen(Looked(r, i), FALSE), Seen(r.clauses[i].patterns, TRUE)>>))

LastClause(r) == Way(<<>>, Unwanted(Looked(r, Len(r.clauses) + 1)))

NextClause ==
  /\ Doing("clauses")
  /\ \/ \E i \in {n \in Open(rule) : Comes(rule, n)} :
          /\ Cardinality(rule.spent \cup {i}) <= MaxClauses
          /\ Commits(ClauseWay(rule, i))
     \/ Commits(LastClause(rule))

\* A rule ends here where the parser does not go on.
EndWay(r) == Way(<<>>, [must |-> FALSE, looks |-> <<Seen(r.guard, TRUE), Seen(r.patterns, FALSE)>>])

Return == Doing("ends") /\ Commits(EndWay(rule))

\* parse() wants the end of the text after its rule.
Text(root) == <<Ref(root), tokenIn({Eof})>>

\* The next text.
Restart == todo = <<>> /\ (\E root \in Roots : todo' = Text(root)) /\ tests' = {}

-------------------------------------------------------------------------------
Init == (\E root \in Roots : todo = Text(root)) /\ tests = {}

Choose == Branch \/ Optional \/ Decide \/ Loop \/ NextClause

Next == TakeToken \/ Sequence \/ Enter \/ Choose \/ Return \/ Restart

Spec == Init /\ [][Next]_vars /\ WF_vars(Next)

-------------------------------------------------------------------------------
\* Each branch that is derived is one that the parser takes: its first set, or
\* what the code looks for, has the token that comes.
BranchIsTaken == \A test \in tests : test.must => ~Failed(test)

\* Nothing else takes what was derived: no optional clause, loop or earlier branch
\* that is not there starts with the tokens of what comes after it.
NothingIsSwallowed ==
  \A test \in tests : \A i \in DOMAIN test.looks : MatchedBy(test, i) => test.looks[i].mine

\* No choice throws on its first use for branches that overlap: a choice among
\* rules that are not defined yet is checked only then.
ChoicesAreDisjoint == Doing("oneOf") => Validates(rule.rules)
================================================================================
