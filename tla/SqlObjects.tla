------------------------------ MODULE SqlObjects ------------------------------
(***************************************************************************)
(* What the statements of examples/sql-lite/grammar.ts name: the kinds of  *)
(* objects and how each is referred to, routines by their arguments, roles,*)
(* parameters of SET, and the option lists of foreign objects.             *)
(***************************************************************************)
EXTENDS SqlCommon

ROLE_KEYWORDS == {"current_user", "current_role", "session_user"}

parseRoleSpec == oneOf(<<kwIn(ROLE_KEYWORDS), nameWord>>)

parseWordOrString == oneOf(<<token("string"), nameWord>>)

stringConst == token("string")

sortOperator == Terminal({OfType("op")}, {Entry("op", value) : value \in {"+", "*", "<"}})

-------------------------------------------------------------------------------
(* Routines and their arguments.                                           *)

ARG_MODES == {"in", "out", "inout", "variadic"}

anyNames == {OfType("ident"), OfType("qident")}

\* The words that are a type together: no name and its type.
startsMultiWordType ==
  {phrase(multiWordTypes[i]) : i \in DOMAIN multiWordTypes}
    \cup {<<Word("interval")>> \o phrase(INTERVAL_TAILS[i]) : i \in DOMAIN INTERVAL_TAILS}

\* A mode is one when a word follows.
argMode(arg) ==
  Look({<<Word(mode), next>> : mode \in ARG_MODES, next \in anyNames}, seq(<<kwIn(ARG_MODES), arg>>), arg)

\* Two words are a name and its type, but for setof and the types of many words.
argNameAndType(default, unnamed) ==
  Switch(<<Case({<<Word("setof"), next>> : next \in anyNames}, seq(<<kw("setof"), qualName, default>>)),
           Case(startsMultiWordType, seq(<<Ref("longTypeName"), default>>)),
           Case({<<first, next>> : first, next \in anyNames}, seq(<<nameWord, typeRef, default>>))>>,
         unnamed)

argDefault == part(<<oneOf(<<kw("default"), op("=")>>), expression>>)

\* A type alone, that no word follows.
plainType ==
  seq(<<qualName, Look(isPunc("("), typeArgs, Nothing), While(isPunc("["), seq(<<punc("["), punc("]")>>))>>)

parseFunctionArg ==
  custom(anyNames, argMode(argNameAndType(argDefault, seq(<<plainType, part(<<op("="), expression>>)>>))))

refFunctionArg == custom(anyNames, argMode(argNameAndType(Nothing, plainType)))

functionArgs == delimited(punc("("), punc(")"), punc(","), Ref("functionArgument"))

refFunctionArgs == delimited(punc("("), punc(")"), punc(","), Ref("refFunctionArg"))

parseAggregateSignature(args) ==
  Look({<<Punc("("), Entry("op", "*")>>}, seq(<<punc("("), op("*"), punc(")")>>), args)

routineRef == custom(anyNames, seq(<<qualName, Look(isPunc("("), refFunctionArgs, Nothing)>>))

aggregateRef ==
  LET args == parens(<<Ref("refFunctionArg"),
                       While(isPunc(","), seq(<<punc(","), Ref("refFunctionArg")>>))>>)
  IN  custom(anyNames, seq(<<qualName, parseAggregateSignature(args)>>))

-------------------------------------------------------------------------------
(* Kinds of objects.                                                       *)

isNameAfter(words) == {phrase(words) \o <<NameAhead>>}

parseAnyOperator == seq(<<Until(Ahead({OfType("op")}), seq(<<nameWord, punc(".")>>)), sortOperator>>)

parseOperandTypes ==
  LET operandType == Look(is({"none"}), kw("none"), typeRef)
  IN  parens(<<operandType, punc(","), operandType>>)

parseOperatorRef == seq(<<parseAnyOperator, parseOperandTypes>>)

parseCastTypes == parens(<<typeRef, kw("as"), typeRef>>)

parseOnTableRef(domain) ==
  seq(<<nameWord, kw("on"),
        IF domain THEN Look(isNameAfter(<<"domain">>), kw("domain"), Nothing) ELSE Nothing,
        qualName>>)

OBJECT_REF_SHAPES ==
  [name |-> nameWord, qualName |-> qualName, routine |-> routineRef, aggregate |-> aggregateRef,
   operator |-> parseOperatorRef, cast |-> parseCastTypes,
   transform |-> seq(<<kw("for"), typeRef, kw("language"), nameWord>>),
   opClass |-> seq(<<qualName, kw("using"), nameWord>>),
   largeObject |-> seq(<<optional(tokenIn(Sign)), INT>>),
   onTable |-> parseOnTableRef(FALSE), constraint |-> parseOnTableRef(TRUE)]

\* Which statements take a kind: the label of SECURITY LABEL, the members of an
\* extension, and the actions that ALTER has for it.
objectKind(shape, label, member, alter, words) ==
  [shape |-> shape, label |-> label, member |-> member, alter |-> alter, words |-> words]

objectKinds(shape, label, member, alter, names) ==
  [i \in DOMAIN names |-> objectKind(shape, label, member, alter, names[i])]

ALTER_ALL == {"rename", "owner", "set"}

OBJECT_KINDS ==
  objectKinds("opClass", FALSE, TRUE, ALTER_ALL, <<<<"operator", "class">>, <<"operator", "family">>>>)
  \o objectKinds("operator", FALSE, TRUE, {"owner", "set"}, <<<<"operator">>>>)
  \o objectKinds("qualName", TRUE, TRUE, {},
       <<<<"table">>, <<"sequence">>, <<"view">>, <<"materialized", "view">>, <<"index">>,
         <<"foreign", "table">>, <<"type">>, <<"domain">>>>)
  \o objectKinds("qualName", TRUE, TRUE, ALTER_ALL,
       <<<<"collation">>, <<"conversion">>, <<"statistics">>, <<"text", "search", "dictionary">>,
         <<"text", "search", "configuration">>>>)
  \o objectKinds("qualName", TRUE, TRUE, {"rename", "set"},
       <<<<"text", "search", "parser">>, <<"text", "search", "template">>>>)
  \o objectKinds("qualName", TRUE, FALSE, {}, <<<<"column">>>>)
  \o objectKinds("name", TRUE, TRUE, {},
       <<<<"access", "method">>, <<"extension">>, <<"foreign", "data", "wrapper">>, <<"publication">>,
         <<"schema">>, <<"server">>, <<"database">>, <<"role">>, <<"subscription">>, <<"tablespace">>>>)
  \o objectKinds("name", TRUE, TRUE, {"rename", "owner"},
       <<<<"event", "trigger">>, <<"language">>, <<"procedural", "language">>>>)
  \o objectKinds("aggregate", TRUE, TRUE, {}, <<<<"aggregate">>>>)
  \o objectKinds("routine", TRUE, TRUE, {}, <<<<"function">>>>)
  \o objectKinds("routine", TRUE, TRUE, ALTER_ALL, <<<<"procedure">>, <<"routine">>>>)
  \o objectKinds("constraint", FALSE, FALSE, {}, <<<<"constraint">>>>)
  \o objectKinds("onTable", FALSE, FALSE, {}, <<<<"policy">>>>)
  \o objectKinds("onTable", FALSE, FALSE, {"rename"}, <<<<"rule">>, <<"trigger">>>>)
  \o objectKinds("transform", FALSE, TRUE, {}, <<<<"transform">>>>)
  \o objectKinds("largeObject", TRUE, FALSE, {"owner"}, <<<<"large", "object">>>>)
  \o objectKinds("cast", FALSE, TRUE, {}, <<<<"cast">>>>)

\* A word goes on with a kind that is complete when a name comes after it.
kindAhead(words) ==
  IF words[1] = "operator" /\ Len(words) > 1 THEN isNameAfter(words) ELSE {phrase(words)}

\* parseObjectKind and the reference of its shape, then the action of the kind.
objectRef(kinds, actions) ==
  Switch([i \in DOMAIN kinds |->
            Case(kindAhead(kinds[i].words),
                 seq(<<kwseq(kinds[i].words), OBJECT_REF_SHAPES[kinds[i].shape], actions[i]>>))],
         Croak)

parseObjectRef(kinds) == objectRef(kinds, [i \in DOMAIN kinds |-> Nothing])

COMMENT_OBJECTS == OBJECT_KINDS

LABEL_OBJECTS == SelectSeq(OBJECT_KINDS, LAMBDA kind : kind.label)

MEMBER_OBJECTS == SelectSeq(OBJECT_KINDS, LAMBDA kind : kind.member)

ALTER_OBJECTS == SelectSeq(OBJECT_KINDS, LAMBDA kind : kind.alter # {})

-------------------------------------------------------------------------------
(* SET and its parameters.                                                 *)

CONFIG_VALUE_WORDS ==
  {"cross", "full", "inner", "is", "join", "left", "like", "natural", "right", "set", "tablesample", "values"}

configName == qualName

bareConfigWord == oneOf(<<kwIn(CONFIG_VALUE_WORDS), nameWord>>)

configWord == oneOf(<<token("string"), bareConfigWord>>)

configNumber == seq(<<optional(tokenIn(Sign)), INT>>)

varValue ==
  oneOf(<<custom(Sign \cup INT.first, configNumber), token("string"), kwIn({"true", "false", "on"}), bareConfigWord>>)

zoneValue ==
  Switch(<<Case(is({"local", "default"}), kwIn({"local", "default"})),
           Case({<<Word("interval"), OfType("string")>>},
                seq(<<kw("interval"), token("string"),
                      Look({<<Word("hour"), Word("to"), Word("minute")>>}, kwseq(<<"hour", "to", "minute">>),
                           Look(is({"hour"}), kw("hour"), Nothing))>>))>>,
         oneOf(<<custom(Sign \cup INT.first, configNumber), token("string"), nameWord>>))

\* The token after the word at the cursor tells an assignment.
isGenericSet ==
  {<<word, mark>> : word \in anyNames,
     mark \in {Entry("op", "="), Punc("."), Word("to"), Word("from")}}

assignedValue ==
  oneOf(<<kwseq(<<"from", "current">>),
          seq(<<oneOf(<<op("="), kw("to")>>), Look(is({"default"}), kw("default"), commaList(varValue))>>)>>)

configAssignment == seq(<<configName, assignedValue>>)

\* The parameters that have a syntax of their own.
configCases ==
  <<Case(isWordAhead("time", "zone"), seq(<<kw("time"), kw("zone"), zoneValue>>)),
    Case(is({"schema"}), seq(<<kw("schema"), token("string")>>)),
    Case(is({"names"}), seq(<<kw("names"), optional(oneOf(<<token("string"), kw("default")>>))>>)),
    Case(is({"role"}), seq(<<kw("role"), configWord>>)),
    Case(isWordAhead("session", "authorization"),
         seq(<<kw("session"), kw("authorization"), Look(is({"default"}), kw("default"), configWord)>>)),
    Case(isWordAhead("xml", "option"), seq(<<kw("xml"), kw("option"), kwIn({"document", "content"})>>)),
    Case(isWordAhead("transaction", "snapshot"),
         seq(<<kw("transaction"), kw("snapshot"), token("string")>>))>>

parseConfigSet == Switch(<<Case(isGenericSet, configAssignment)>> \o configCases, Croak)

parseConfigTarget ==
  Switch(<<Case(is({"all"}), kw("all")),
           Case(isWordAhead("time", "zone"), kwseq(<<"time", "zone">>)),
           Case(isWordAhead("transaction", "isolation"), kwseq(<<"transaction", "isolation", "level">>)),
           Case(isWordAhead("session", "authorization"), kwseq(<<"session", "authorization">>))>>,
         configName)

-------------------------------------------------------------------------------
(* Foreign objects and text search.                                        *)

TEXT_SEARCH_KINDS == {"parser", "dictionary", "template", "configuration"}

parseTextSearchKind == seq(<<kwseq(<<"text", "search">>), kwIn(TEXT_SEARCH_KINDS)>>)

opClassWordAhead ==
  UNION {isNameAfter(<<"operator", word>>) : word \in {"class", "family"}}

optionName == anyName

parseGenericOptions == seq(<<kw("options"), parens(<<commaList(seq(<<optionName, stringConst>>))>>)>>)

optionalGenericOptions == Look(is({"options"}), parseGenericOptions, Nothing)

\* ADD, SET and DROP are names where a string follows them.
parseAlterGenericOptions ==
  LET actions == {"add", "set", "drop"}
      option == Switch(<<Case({<<Word(action), OfType("string")>> : action \in actions},
                              seq(<<kwIn(actions), stringConst>>)),
                         Case(is({"add", "set"}), seq(<<kwIn({"add", "set"}), optionName, stringConst>>)),
                         Case(is({"drop"}), seq(<<kw("drop"), optionName>>))>>,
                       seq(<<optionName, stringConst>>))
  IN  seq(<<kw("options"), parens(<<commaList(option)>>)>>)

isUserMappingAhead(follow) == {<<Word("user"), Word("mapping"), Word(word)>> : word \in follow}

parseUserMappingTarget ==
  seq(<<kw("for"), oneOf(<<kw("user"), parseRoleSpec>>), kw("server"), nameWord>>)

relationExpr ==
  custom({Word("only")} \cup anyNames,
         Look(is({"only"}),
              seq(<<kw("only"), Look(isPunc("("), parens(<<qualName>>), qualName)>>),
              seq(<<qualName, optional(op("*"))>>)))

ObjectRules ==
  [functionArgument |-> parseFunctionArg, refFunctionArg |-> refFunctionArg,
   commentObject |-> parseObjectRef(COMMENT_OBJECTS), labelObject |-> parseObjectRef(LABEL_OBJECTS),
   memberObject |-> parseObjectRef(MEMBER_OBJECTS), parseConfigSet |-> parseConfigSet]
================================================================================
