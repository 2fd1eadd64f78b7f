------------------------------ MODULE SqlCommon ------------------------------
(***************************************************************************)
(* What the statements of examples/sql-lite/grammar.ts share: words, names,*)
(* types, option lists, and expressions and queries as a statement sees    *)
(* them. An expression inside a statement is one operand and then all that *)
(* the expression parser looks for before it returns; so is a query. Their *)
(* own rules are in SqlExpressions and SqlQueries.                         *)
(*                                                                         *)
(* A rule has the name it has in the code. Checks of what was read (two    *)
(* clauses that conflict, a list that must have two items) refuse a text   *)
(* after the fact, read no token and are left out.                         *)
(***************************************************************************)
EXTENDS FirstSets

\* PostgreSQL's reserved words, the words that start a join or a clause, like.
RESERVED ==
  {"all", "analyse", "analyze", "and", "any", "array", "as", "asc", "asymmetric", "both", "case",
   "cast", "check", "collate", "column", "constraint", "create", "current_date", "current_role",
   "current_time", "current_timestamp", "current_user", "default", "deferrable", "desc",
   "distinct", "do", "else", "end", "except", "false", "fetch", "for", "foreign", "from", "grant",
   "group", "having", "in", "initially", "intersect", "into", "is", "lateral", "leading", "limit",
   "localtime", "localtimestamp", "not", "null", "offset", "on", "only", "or", "order", "placing",
   "primary", "references", "returning", "select", "session_user", "some", "symmetric", "table",
   "then", "to", "trailing", "true", "union", "unique", "user", "using", "variadic", "when",
   "where", "window", "with",
   "cross", "full", "inner", "join", "left", "natural", "right", "set", "tablesample", "values",
   "like"}

AS_LABEL_KEYWORDS == {"isnull", "notnull", "overlaps"}

WINDOW_CLAUSE_LEADS == {"partition", "order", "rows", "range", "groups"}

SqlNameTypes ==
  [name |-> RESERVED,
   alias |-> RESERVED \cup AS_LABEL_KEYWORDS,
   window |-> WINDOW_CLAUSE_LEADS]

-------------------------------------------------------------------------------
(* Small words. eat is an optional keyword of a hand-written rule; is is   *)
(* what `if (ctx.is("ident", words))` looks at.                            *)

is(words) == Ahead(Words(words))

isPunc(value) == Ahead({Punc(value)})

eat(text) == optional(kw(text))

eatIn(texts) == optional(kwIn(texts))

\* `if (ctx.eat(word)) ...`: a part that its first rule leads.
part(rules) == optional(seq(rules))

\* A list in parentheses that is not empty.
parens(rules) == seq(<<punc("(")>> \o rules \o <<punc(")")>>)

commaList(item) == sepBy(item, punc(","))

\* dispatch: an object keyed by the word that leads each rule.
dispatch(rules) == oneOf(rules)

phrase(words) == [i \in DOMAIN words |-> Word(words[i])]

-------------------------------------------------------------------------------
(* Names and values.                                                       *)

nameWord == Terminal({OfType("ident"), OfType("qident")}, {PlainWord, Entry("qident", "q")})

qualName == sepBy(nameWord, punc("."))

strValue == token("string")

INT == token("number")

\* One list of names in parentheses that may be empty, and one that may not.
columnList == delimited(punc("("), punc(")"), punc(","), nameWord)

optColumnList == optional(columnList)

parseColumnNames == parens(<<commaList(nameWord)>>)

optParenList(list) == Look(isPunc("("), parens(<<list>>), Nothing)

\* Any identifier, reserved or not, or a quoted one.
anyName == Terminal({OfType("ident"), OfType("qident")}, {PlainWord, Word("user"), Entry("qident", "q")})

Sign == {Entry("op", "+"), Entry("op", "-")}

startsCount == {<<OfType("number")>>} \cup {<<sign, OfType("number")>> : sign \in Sign}

parseSignedInt == seq(<<optional(tokenIn(Sign)), INT>>)

isWordAhead(lead, word) == {<<Word(lead), Word(word)>>}

parseIfNotExists ==
  Look({<<Word("if"), Word("not")>>}, kwseq(<<"if", "not", "exists">>), Nothing)

parseIfExists == Look(isWordAhead("if", "exists"), kwseq(<<"if", "exists">>), Nothing)

dropBehavior == optional(oneOf(<<kw("cascade"), kw("restrict")>>))

\* A statement that is only its semicolon, here where it is no token.
emptyStatementSlip == Nothing

emptyStatement == punc(";")

parseWithData == part(<<kw("with"), eat("no"), kw("data")>>)

-------------------------------------------------------------------------------
(* Expressions and queries inside a statement.                             *)

\* The infix and postfix groups, by binding power.
expressionTable ==
  <<[bp |-> 19, patterns |-> Ahead({Punc("::"), Punc("[")})],
    [bp |-> 17, patterns |-> is({"collate"})],
    [bp |-> 16, patterns |-> isWordAhead("at", "local") \cup isWordAhead("at", "time")],
    [bp |-> 12, patterns |-> Ahead({Operator}) \cup {<<Word("operator"), Punc("("), Operator>>}],
    [bp |-> 10, patterns |-> is({"like", "ilike", "between", "not", "in"}) \cup isWordAhead("similar", "to")],
    [bp |-> 9, patterns |-> Ahead({Entry("op", value) : value \in Comparisons})],
    [bp |-> 8, patterns |-> is({"is", "isnull", "notnull"})],
    [bp |-> 4, patterns |-> is({"and"})],
    [bp |-> 2, patterns |-> is({"or"})]>>

\* What the loop of parseExpression goes on with at a binding power.
loopAt(minBp) ==
  UNION {group.patterns : group \in {expressionTable[i] :
           i \in {n \in DOMAIN expressionTable : expressionTable[n].bp >= minBp}}}

bExprTable ==
  Ahead({Punc("::"), Punc("["), Operator, Word("is")} \cup {Entry("op", value) : value \in Comparisons})
    \cup {<<Word("operator"), Punc("("), Operator>>}

SQL_VALUE_FUNCTIONS ==
  {"current_date", "current_time", "current_timestamp", "localtime", "localtimestamp",
   "current_role", "current_user", "session_user", "user"}

atomFirst ==
  {OfType(type) : type \in {"number", "string", "nstring", "bitstring", "hexstring", "param", "ident", "qident"}}
    \cup Words({"true", "false", "null", "case", "exists", "cast", "array"} \cup SQL_VALUE_FUNCTIONS)
    \cup {Punc("(")}

prefixOps == {Entry("op", value) : value \in {"-", "+", "~", "@"}} \cup {Word("not")}

callTail ==
  {<<Word("within"), Word("group")>>, <<Word("ignore"), Word("nulls")>>,
   <<Word("respect"), Word("nulls")>>, <<Word("filter"), Punc("(")>>,
   <<Word("over"), Punc("(")>>, <<Word("over"), NameAhead>>}

startsOverlaps == {<<Word("overlaps"), Punc("(")>>, <<Word("overlaps"), Word("row"), Punc("(")>>}

nameOrCall ==
  seq(<<nameWord,
        Ends(Ahead({Punc("."), OfType("string")})),
        optional(seq(<<punc("("), punc(")"), Ends(callTail)>>))>>)

\* One of each kind of operand, with what its own rule looks for after it.
someAtom ==
  oneOf(<<token("number"),
          kw("null"),
          seq(<<punc("("), token("number"), punc(")"), Ends(startsOverlaps \cup isPunc("."))>>),
          nameOrCall>>)

\* An operand that is read at a binding power.
operand(minBp) == custom(atomFirst \cup prefixOps, seq(<<Ref("someAtom"), Ends(loopAt(minBp))>>))

expression == Ref("expression")

bExpression == Ref("bExpression")

\* An expression where a parenthesis has been taken for something else.
bareExpression == seq(<<nameOrCall, Ends(loopAt(0))>>)

parenExpr == parens(<<expression>>)

QUERY_WORDS == {"select", "with", "values", "table"}

queryFirst == Words(QUERY_WORDS) \cup {Punc("(")}

query == Ref("query")

parenQuery == parens(<<query>>)

\* A parenthesis that a query follows. Deeper nesting is scanned by parenRunIsQuery.
isSubqueryParen == {<<Punc("("), Word(word)>> : word \in QUERY_WORDS}

\* What may follow a select list; the words that go on with a query.
selectTail ==
  Ahead({Punc(",")} \cup Words({"as", "into", "from", "where", "group", "having", "window"}))
    \cup {<<OfType("alias")>>}

\* FORMAT JSON after a select list is no alias.
startsFormatJson == isWordAhead("format", "json")

QUERY_TAIL_WORDS == {"union", "intersect", "except", "order", "limit", "offset", "fetch", "for"}

nonEmptyList(item) == parens(<<item, Until(isPunc(")"), seq(<<punc(","), item>>))>>)

exprList == nonEmptyList(expression)

\* A named argument is known by the mark after its name.
parseCallArg(value) ==
  Look({<<OfType(type), mark>> : type \in {"ident", "qident"}, mark \in {Entry("op", "=>"), Punc(":=")}},
       seq(<<nameWord, oneOf(<<op("=>"), punc(":=")>>), value>>),
       value)

functionArg == Ref("functionArg")

anyFunctionArg ==
  custom(atomFirst \cup prefixOps \cup {Entry("op", "*")}, parseCallArg(oneOf(<<op("*"), expression>>)))

\* Arguments outside an expression: no quantifier, no ORDER BY. VARIADIC is last.
parseCallArgs ==
  Look(is({"variadic"}), seq(<<kw("variadic"), parseCallArg(expression)>>),
       seq(<<functionArg, part(<<punc(","), Ref("parseCallArgs")>>)>>))

parseCallArgList == parens(<<Look(isPunc(")"), Nothing, Ref("parseCallArgs"))>>)

-------------------------------------------------------------------------------
(* Types.                                                                  *)

typeArgs == delimited(punc("("), punc(")"), punc(","), token("number"))

multiWord(lead, tails) ==
  seq(<<kw(lead), Ends(isPunc(".")),
        Switch([i \in DOMAIN tails |-> Case({phrase(tails[i])}, kwseq(tails[i]))], Nothing),
        optional(typeArgs)>>)

ARGS_BEFORE_TAIL == {"timestamp", "time"}

zoneTails == <<<<"with", "time", "zone">>, <<"without", "time", "zone">>>>

\* The precision of timestamp and time comes before the words that follow.
timestampType ==
  LET tail(rest) == Switch([i \in 1..2 |-> Case({phrase(zoneTails[i])}, seq(<<kwseq(zoneTails[i]), rest>>))], Nothing)
  IN  seq(<<kwIn(ARGS_BEFORE_TAIL), Ends(isPunc(".")),
            Look(isPunc("("), seq(<<typeArgs, tail(Nothing)>>), tail(optional(typeArgs)))>>)

INTERVAL_TAILS ==
  <<<<"year", "to", "month">>, <<"day", "to", "hour">>, <<"day", "to", "minute">>,
    <<"day", "to", "second">>, <<"hour", "to", "minute">>, <<"hour", "to", "second">>,
    <<"minute", "to", "second">>, <<"year">>, <<"month">>, <<"day">>, <<"hour">>, <<"minute">>,
    <<"second">>>>

\* The types whose words are looked for together.
multiWordTypes ==
  <<<<"double", "precision">>, <<"character", "varying">>, <<"char", "varying">>,
    <<"national", "character", "varying">>, <<"national", "char", "varying">>,
    <<"national", "character">>, <<"national", "char">>, <<"bit", "varying">>,
    <<"timestamp", "with", "time", "zone">>, <<"timestamp", "without", "time", "zone">>,
    <<"time", "with", "time", "zone">>, <<"time", "without", "time", "zone">>>>

longTypeName ==
  Switch([i \in DOMAIN multiWordTypes |-> Case({phrase(multiWordTypes[i])}, kwseq(multiWordTypes[i]))], Croak)

MULTI_WORD_TYPES ==
  oneOf(<<multiWord("double", <<<<"precision">>>>),
          multiWord("character", <<<<"varying">>>>),
          multiWord("char", <<<<"varying">>>>),
          multiWord("national", <<<<"character", "varying">>, <<"char", "varying">>, <<"character">>, <<"char">>>>),
          multiWord("bit", <<<<"varying">>>>),
          multiWord("interval", INTERVAL_TAILS),
          Ref("timestampType"),
          seq(<<qualName, optional(typeArgs)>>)>>)

arraySuffix ==
  LET bound == seq(<<punc("["), optional(INT), punc("]")>>)
  IN
  Switch(<<Case(is({"array"}),
                seq(<<kw("array"),
                      Look(isPunc("["), seq(<<punc("["), INT, punc("]"), Ends(isPunc("["))>>), Nothing)>>)),
           Case(isPunc("["), seq(<<bound, While(isPunc("["), bound)>>))>>,
         Nothing)

setofAhead == {<<Word("setof"), NameAhead>>}

typeRef == Ref("typeRef")

-------------------------------------------------------------------------------
(* Options in parentheses, WITH (...).                                     *)

optionScalar ==
  oneOf(<<token("string"), token("number"),
          custom({Entry("op", "-"), Entry("op", "+")}, seq(<<tokenIn(Sign), INT>>)),
          kwIn({"true", "false"}), anyName>>)

optionValue ==
  oneOf(<<op("*"), parens(<<commaList(optionScalar)>>), optionScalar>>)

relationOption ==
  custom(nameWord.first,
         seq(<<anyName, part(<<punc("."), anyName>>),
               Look(Ahead({Entry("op", "=")}), seq(<<op("="), optionValue>>),
                    Look(Ahead({Punc(","), Punc(")")}), Nothing, optionValue))>>))

relationOptions == Ref("relationOptions")

CommonRules ==
  [someAtom |-> custom(atomFirst, someAtom),
   expression |-> operand(0),
   bExpression |-> custom(atomFirst \cup (prefixOps \ {Word("not")}), seq(<<Ref("someAtom"), Ends(bExprTable)>>)),
   functionArg |-> anyFunctionArg,
   query |-> custom(queryFirst,
                    seq(<<kw("select"), expression, EndsUnless(startsFormatJson, selectTail \cup is(QUERY_TAIL_WORDS))>>)),
   typeRef |-> custom(nameWord.first,
                      seq(<<Look(setofAhead, kw("setof"), Nothing), MULTI_WORD_TYPES, arraySuffix>>)),
   timestampType |-> timestampType,
   longTypeName |-> longTypeName,
   parseCallArgs |-> parseCallArgs,
   relationOptions |-> parens(<<commaList(relationOption)>>)]
================================================================================
