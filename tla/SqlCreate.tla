------------------------------- MODULE SqlCreate -------------------------------
(***************************************************************************)
(* CREATE of examples/sql-lite/grammar.ts but for what SqlTables has:      *)
(* databases, schemas with their elements, roles, views, routines,         *)
(* triggers, policies, publications, foreign objects, and the choice among *)
(* all of them by the words after CREATE.                                  *)
(***************************************************************************)
EXTENDS SqlTables

-------------------------------------------------------------------------------
(* Databases, schemas, extensions, tablespaces and roles.                  *)

DATABASE_ACTION_WORDS == {"rename", "set", "reset", "refresh"}

\* The words that go on with a database: any name but those of the other actions.
DatabaseNameTypes == [databaseOption |-> RESERVED \cup DATABASE_ACTION_WORDS]

isDatabaseOptionStart == {<<OfType("databaseOption")>>}

parseDatabaseOption ==
  Switch(<<Case(isWordAhead("owner", "to"), Croak),
           Case(isWordAhead("connection", "limit"),
                seq(<<kwseq(<<"connection", "limit">>), optional(op("=")), optionScalar>>))>>,
         seq(<<nameWord, part(<<punc("."), anyName>>), optional(op("=")), optionValue>>))

databaseOptions == While(isDatabaseOptionStart, Ref("databaseOption"))

createDatabaseRest == seq(<<kw("database"), nameWord, eat("with"), databaseOptions>>)

createExtensionRest ==
  LET options == <<Clause(is({"schema"}), seq(<<kw("schema"), nameWord>>), "again"),
                   Clause(is({"version"}), seq(<<kw("version"), parseWordOrString>>), "again"),
                   Clause(is({"cascade"}), kw("cascade"), "again")>>
  IN  seq(<<kw("extension"), parseIfNotExists, nameWord, eat("with"), Clauses(options)>>)

createTablespaceRest ==
  seq(<<kw("tablespace"), nameWord, part(<<kw("owner"), parseRoleSpec>>), kw("location"), token("string"),
        part(<<kw("with"), relationOptions>>)>>)

ROLE_FLAGS == {"superuser", "createdb", "createrole", "inherit", "login", "replication", "bypassrls"}

ROLE_FLAGS_OFF ==
  {"nosuperuser", "nocreatedb", "nocreaterole", "noinherit", "nologin", "noreplication", "nobypassrls"}

\* ALTER ROLE has no options about members.
parseRoleOption(alter) ==
  LET words(lead, rest) == Clause(is({lead}), seq(<<kw(lead)>> \o rest), "again")
      members ==
        <<words("in", <<oneOf(<<kw("role"), kw("group")>>), commaList(parseRoleSpec)>>),
          words("role", <<commaList(parseRoleSpec)>>), words("user", <<commaList(parseRoleSpec)>>),
          words("admin", <<commaList(parseRoleSpec)>>)>>
  IN  <<Clause(is(ROLE_FLAGS \cup ROLE_FLAGS_OFF), kwIn(ROLE_FLAGS \cup ROLE_FLAGS_OFF), "again"),
        words("connection", <<kw("limit"), parseSignedInt>>),
        words("encrypted", <<kw("password"), strValue>>),
        words("password", <<oneOf(<<kw("null"), strValue>>)>>),
        words("valid", <<kw("until"), strValue>>)>>
      \o (IF alter THEN <<>> ELSE members)

createRoleRest(lead) == seq(<<kw(lead), nameWord, eat("with"), Ref("roleOptions")>>)

-------------------------------------------------------------------------------
(* Views.                                                                  *)

CHECK_OPTION_WORDS == {"cascaded", "local", "check"}

parseCheckOption ==
  Look(is({"with"}), seq(<<kw("with"), eatIn(CHECK_OPTION_WORDS \ {"check"}), kw("check"), kw("option")>>), Nothing)

parseViewBody(kind) ==
  LET materialized == kind = "materialized"
  IN  seq(<<IF materialized THEN ifNotExistsTried ELSE Nothing, qualName,
            IF kind = "recursive" THEN parseColumnNames ELSE Look(isPunc("("), columnList, Nothing),
            IF materialized THEN part(<<kw("using"), nameWord>>) ELSE Nothing,
            part(<<kw("with"), relationOptions>>),
            IF materialized THEN part(<<kw("tablespace"), nameWord>>) ELSE Nothing,
            kw("as"), query,
            CASE kind = "materialized" -> parseWithData
              [] kind = "plain" -> parseCheckOption
              [] kind = "recursive" -> Nothing>>)

plainView == seq(<<kw("view"), Ref("viewBody")>>)

materializedView == seq(<<kwseq(<<"materialized", "view">>), Ref("materializedViewBody")>>)

parseRecursiveView == seq(<<kwseq(<<"recursive", "view">>), parseViewBody("recursive")>>)

-------------------------------------------------------------------------------
(* Functions, procedures and aggregates.                                   *)

functionReturns ==
  seq(<<kw("returns"),
        Switch(<<Case(is({"table"}), seq(<<kw("table"), compositeAttrs>>)),
                 Case(is({"setof"}), seq(<<kw("setof"), Ends(setofAhead), MULTI_WORD_TYPES, arraySuffix>>))>>,
               seq(<<MULTI_WORD_TYPES, arraySuffix>>))>>)

parseSecurityKind == oneOf(<<kw("definer"), kw("invoker")>>)

functionOption(words, rule) == Clause(is(words), rule, "again")

\* The clauses by the words that lead them: the name of one has no part in it.
FUNCTION_OPTIONS ==
  [language |-> functionOption({"language"}, seq(<<kw("language"), oneOf(<<strValue, nameWord>>)>>)),
   as |-> functionOption({"as"}, seq(<<kw("as"), strValue, part(<<punc(","), strValue>>)>>)),
   flag |-> functionOption({"immutable", "stable", "volatile", "leakproof", "strict"},
                           kwIn({"immutable", "stable", "volatile", "leakproof", "strict"})),
   notLeakproof |-> Clause(atNot("leakproof"), kwseq(<<"not", "leakproof">>), "again"),
   called |-> functionOption({"called"}, kwseq(<<"called", "on", "null", "input">>)),
   returnsNull |-> functionOption({"returns"}, kwseq(<<"returns", "null", "on", "null", "input">>)),
   external |-> functionOption({"external"}, seq(<<kwseq(<<"external", "security">>), parseSecurityKind>>)),
   security |-> functionOption({"security"}, seq(<<kw("security"), parseSecurityKind>>)),
   parallel |-> functionOption({"parallel"}, seq(<<kw("parallel"), kwIn({"unsafe", "restricted", "safe"})>>)),
   cost |-> functionOption({"cost", "rows"}, seq(<<kwIn({"cost", "rows"}), expression>>)),
   window |-> functionOption({"window"}, kw("window")),
   set |-> functionOption({"set"}, seq(<<kw("set"), Ref("parseConfigSet")>>))]

optionsOf(names) == [i \in DOMAIN names |-> FUNCTION_OPTIONS[names[i]]]

SHARED_OPTIONS == <<"flag", "called", "external", "security", "parallel", "set">>

\* NOT after COST or ROWS would go on with their expression, so it comes before.
parseFunctionOptions(names) ==
  LET clauses == optionsOf(names)
  IN  seq(<<Clauses(clauses \o optionsOf(<<"notLeakproof">>)),
            Look(is({"cost", "rows"}), seq(<<FUNCTION_OPTIONS.cost.rule, Clauses(clauses)>>), Nothing)>>)

\* In any order, as its comment has it.
documentedFunctionOptions ==
  Clauses(optionsOf(SHARED_OPTIONS \o <<"language", "as", "returnsNull", "window", "notLeakproof", "cost">>))

PROCEDURE_OPTIONS == <<"language", "as", "external", "security", "set">>

\* CASE and END are words that the framing of a script counts.
bodyExpression == Look(is({"case"}), seq(<<caseExpr, Ends(loopAt(0))>>), expression)

\* A routine's own body ends its statements; statementBody stands for one of them.
bodyLoop ==
  Until(is({"end"}),
        Switch(<<Case(isPunc(";"), emptyStatement),
                 Case(is({"return"}), seq(<<kw("return"), bodyExpression, punc(";")>>)),
                 Case(is({"begin"}), Croak)>>,
               seq(<<Ref("routineBodyStatement"), punc(";")>>)))

parseAtomicBody == seq(<<kwseq(<<"begin", "atomic">>), bodyLoop, kw("end")>>)

someStatement ==
  oneOf(<<kw("checkpoint"), seq(<<kw("listen"), nameWord>>), query>>)

parseRoutineBody ==
  Switch(<<Case(is({"return"}), seq(<<kw("return"), expression>>)), Case(is({"begin"}), parseAtomicBody)>>, Nothing)

\* RETURNS NULL ON NULL INPUT is looked for after a return type only: without one,
\* the return type is what RETURNS would lead.
parseFunctionBody ==
  seq(<<qualName, functionArgs,
        Look(is({"returns"}),
             seq(<<functionReturns, Ref("functionOptions")>>),
             Ref("untypedFunctionOptions")),
        Ref("parseRoutineBody")>>)

parseProcedureBody == seq(<<qualName, functionArgs, Clauses(optionsOf(PROCEDURE_OPTIONS)), Ref("parseRoutineBody")>>)

aggregateValue ==
  seq(<<op("="),
        Look(Ahead({OfType("string"), OfType("number")}),
             seq(<<oneOf(<<token("string"), token("number")>>), Ends(loopAt(0))>>), typeRef)>>)

parseAggregateOptions(first) ==
  parens(<<first, While(isPunc(","), seq(<<punc(","), nameWord, Look(Ahead({Entry("op", "=")}), aggregateValue, Nothing)>>))>>)

\* A word and its value after the parenthesis are the old form, with no arguments.
parseAggregateBody ==
  seq(<<qualName,
        Look({<<Punc("("), OfType("ident"), Entry("op", "=")>>},
             parseAggregateOptions(seq(<<identifierLike, aggregateValue>>)),
             seq(<<parseAggregateSignature(refFunctionArgs),
                   parseAggregateOptions(seq(<<nameWord, Look(Ahead({Entry("op", "=")}), aggregateValue, Nothing)>>))>>))>>)

-------------------------------------------------------------------------------
(* Triggers, languages and policies.                                       *)

parseTriggerEvent ==
  oneOf(<<kwIn({"insert", "delete", "truncate"}),
          seq(<<kw("update"), part(<<kw("of"), sepBy(nameWord, punc(","))>>)>>)>>)

triggerEvents == seq(<<parseTriggerEvent, While(is({"or"}), seq(<<kw("or"), parseTriggerEvent>>))>>)

parseTriggerReferencing ==
  LET transition == seq(<<kwIn({"old", "new"}), kw("table"), eat("as"), nameWord>>)
  IN  part(<<kw("referencing"), transition, While(is({"old", "new"}), transition)>>)

routineKind == oneOf(<<kw("function"), kw("procedure")>>)

parseTriggerTail ==
  seq(<<part(<<kw("when"), parenExpr>>), kw("execute"), routineKind, qualName,
        Look({<<Punc("("), Punc(")")>>}, seq(<<punc("("), punc(")")>>), exprList)>>)

parseTriggerBody ==
  seq(<<nameWord, oneOf(<<kw("before"), kw("after"), kwseq(<<"instead", "of">>)>>), triggerEvents,
        kw("on"), qualName, parseTriggerReferencing,
        part(<<kw("for"), eat("each"), oneOf(<<kw("row"), kw("statement")>>)>>), Ref("parseTriggerTail")>>)

constraintTrigger ==
  seq(<<kwseq(<<"constraint", "trigger">>), nameWord, kw("after"), triggerEvents, kw("on"), qualName,
        part(<<kw("from"), qualName>>), Ref("attrsIndex"), kwseq(<<"for", "each", "row">>),
        Ref("parseTriggerTail")>>)

parseLanguageBody ==
  LET validator == Look(is({"no"}), kwseq(<<"no", "validator">>), Nothing)
  IN  seq(<<nameWord,
            part(<<kw("handler"), qualName, part(<<kw("inline"), qualName>>),
                   Look(is({"validator"}), seq(<<kw("validator"), qualName>>), validator)>>)>>)

language == seq(<<kw("language"), Ref("parseLanguageBody")>>)

createEventTriggerRest ==
  LET filter == seq(<<nameWord, kw("in"), parens(<<commaList(stringConst)>>)>>)
  IN  seq(<<kwseq(<<"event", "trigger">>), nameWord, kw("on"), nameWord,
            part(<<kw("when"), filter, While(is({"and"}), seq(<<kw("and"), filter>>))>>),
            kw("execute"), routineKind, qualName, punc("("), punc(")")>>)

POLICY_COMMANDS == {"all", "select", "insert", "update", "delete"}

parsePolicyClauses ==
  <<seq(<<kw("to"), commaList(parseRoleSpec)>>), seq(<<kw("using"), parenExpr>>),
    seq(<<kwseq(<<"with", "check">>), parenExpr>>)>>

optionals(rules) == seq([i \in DOMAIN rules |-> optional(rules[i])])

createPolicyRest ==
  seq(<<kw("policy"), nameWord, kw("on"), qualName, part(<<kw("as"), kwIn({"permissive", "restrictive"})>>),
        part(<<kw("for"), kwIn(POLICY_COMMANDS)>>), optionals(parsePolicyClauses)>>)

-------------------------------------------------------------------------------
(* Publications and subscriptions.                                         *)

parseOptDefinition == part(<<kw("with"), relationOptions>>)

publicationTable ==
  seq(<<relationExpr, Look(isPunc("("), parseColumnNames, Nothing), part(<<kw("where"), parenExpr>>)>>)

publicationSchema == oneOf(<<kw("current_schema"), nameWord>>)

tablesInSchema == seq(<<kwseq(<<"tables", "in", "schema">>), publicationSchema, Ref("publicationSchemas")>>)

\* A table or a schema that no word leads is of the kind of the one before it.
publicationObjects(bare) ==
  Look(isPunc(","),
       seq(<<punc(","),
             Switch(<<Case(is({"table"}), seq(<<kw("table"), publicationTable, Ref("publicationTables")>>)),
                      Case(isWordAhead("tables", "in"), Ref("tablesInSchema"))>>, bare)>>),
       Nothing)

parsePublicationObjects ==
  Look(is({"table"}), seq(<<kw("table"), publicationTable, Ref("publicationTables")>>), Ref("tablesInSchema"))

createPublicationRest ==
  seq(<<kw("publication"), nameWord,
        part(<<kw("for"), Look(is({"all"}), kwseq(<<"all", "tables">>), parsePublicationObjects)>>),
        parseOptDefinition>>)

publicationNames == sepBy(nameWord, punc(","))

publicationList == seq(<<publicationNames, parseOptDefinition>>)

createSubscriptionRest ==
  seq(<<kw("subscription"), nameWord, kw("connection"), token("string"), kw("publication"), publicationList>>)

-------------------------------------------------------------------------------
(* Definitions: casts, collations, operators and their like.               *)

parseDefinitionArg ==
  Switch(<<Case(Ahead({OfType("string")}), token("string")),
           Case(startsCount, parseSignedInt),
           Case(Ahead({OfType("op")}), sortOperator),
           Case({<<Word("operator"), Punc("(")>>}, seq(<<kw("operator"), parens(<<parseAnyOperator>>)>>)),
           Case(is({"none"}), kw("none")),
           Case(is(RESERVED), Terminal(Words(RESERVED), Words({"false", "user"})))>>,
         typeRef)

parseDefinition == parens(<<commaList(seq(<<optionName, part(<<op("="), Ref("parseDefinitionArg")>>)>>))>>)

definition == Ref("parseDefinition")

createCastRest ==
  seq(<<kw("cast"), parseCastTypes,
        oneOf(<<kwseq(<<"without", "function">>),
                seq(<<kw("with"), oneOf(<<kw("inout"), seq(<<kw("function"), routineRef>>)>>)>>)>>),
        part(<<kw("as"), oneOf(<<kw("assignment"), kw("implicit")>>)>>)>>)

createCollationRest ==
  seq(<<kw("collation"), parseIfNotExists, qualName, Look(is({"from"}), seq(<<kw("from"), qualName>>), definition)>>)

createConversionRest ==
  seq(<<eat("default"), kw("conversion"), qualName, kw("for"), stringConst, kw("to"), stringConst,
        kw("from"), qualName>>)

\* Any other expression than a column or a call must have parentheses.
parseStatsParam == Look(isPunc("("), parenExpr, bareExpression)

createStatisticsRest ==
  LET name == Switch(<<Case({<<Word("if"), Word("not")>>}, seq(<<kwseq(<<"if", "not", "exists">>), qualName>>)),
                       Case({<<NameAhead>>}, qualName)>>, Nothing)
  IN  seq(<<kw("statistics"), name, optParenList(commaList(nameWord)), kw("on"), commaList(parseStatsParam),
            kw("from"), commaList(qualName)>>)

createAccessMethodRest ==
  seq(<<kwseq(<<"access", "method">>), nameWord, kw("type"), oneOf(<<kw("table"), kw("index")>>),
        kw("handler"), qualName>>)

createTextSearchRest == seq(<<parseTextSearchKind, qualName, definition>>)

parseOpClassItem ==
  oneOf(<<seq(<<kw("operator"), INT, parseAnyOperator, Look(isPunc("("), parseOperandTypes, Nothing),
                part(<<kw("for"), oneOf(<<kw("search"), seq(<<kwseq(<<"order", "by">>), qualName>>)>>)>>)>>),
          seq(<<kw("function"), INT, optParenList(commaList(typeRef)), routineRef>>),
          seq(<<kw("storage"), typeRef>>)>>)

createOperatorRest ==
  LET sub(word) == isNameAfter(<<"operator", word>>)
  IN  Switch(<<Case(sub("family"), seq(<<kwseq(<<"operator", "family">>), qualName, kw("using"), nameWord>>)),
               Case(sub("class"),
                    seq(<<kwseq(<<"operator", "class">>), qualName, eat("default"), kwseq(<<"for", "type">>), typeRef,
                          kw("using"), nameWord, part(<<kw("family"), qualName>>), kw("as"),
                          commaList(Ref("parseOpClassItem"))>>))>>,
             seq(<<kw("operator"), parseAnyOperator, definition>>))

-------------------------------------------------------------------------------
(* Foreign objects.                                                        *)

parseFdwFunctions ==
  <<Clause(is({"no"}), seq(<<kw("no"), kwIn({"handler", "validator"})>>), "again"),
    Clause(is({"handler", "validator"}), seq(<<kwIn({"handler", "validator"}), qualName>>), "again")>>

createForeignDataWrapperRest ==
  seq(<<kwseq(<<"foreign", "data", "wrapper">>), nameWord, Clauses(parseFdwFunctions), optionalGenericOptions>>)

serverVersion == seq(<<kw("version"), oneOf(<<kw("null"), token("string")>>)>>)

createServerRest ==
  seq(<<kw("server"), parseIfNotExists, nameWord, part(<<kw("type"), stringConst>>), optional(serverVersion),
        kwseq(<<"foreign", "data", "wrapper">>), nameWord, optionalGenericOptions>>)

createUserMappingRest ==
  seq(<<kwseq(<<"user", "mapping">>), Look(is({"if"}), kwseq(<<"if", "not", "exists">>), Nothing),
        parseUserMappingTarget, optionalGenericOptions>>)

createForeignTableRest ==
  seq(<<kwseq(<<"foreign", "table">>), parseIfNotExists, qualName,
        Look(is({"partition"}), parsePartitionOf,
             seq(<<delimited(punc("("), punc(")"), punc(","), tableItem), parseInherits>>)),
        kw("server"), nameWord, optionalGenericOptions>>)

-------------------------------------------------------------------------------
(* CREATE.                                                                 *)

PLAIN_CREATE ==
  <<Ref("createTableRest"), Ref("createIndexRest"), Ref("createTypeRest"), Ref("createSequenceRest"),
    Ref("createDomainRest"), createDatabaseRest, Ref("createSchemaRest"), createExtensionRest,
    createTablespaceRest, createRoleRest("role"),
    custom({Word("user")}, Look(isUserMappingAhead({"for", "if"}), createUserMappingRest, createRoleRest("user"))),
    createRoleRest("group"), createPolicyRest, createPublicationRest, createSubscriptionRest, createCastRest,
    createCollationRest, createConversionRest, createStatisticsRest, createEventTriggerRest,
    createAccessMethodRest, createTextSearchRest, custom({Word("operator")}, createOperatorRest),
    custom({Word("foreign")},
           Look(isWordAhead("foreign", "table"), createForeignTableRest, createForeignDataWrapperRest)),
    createServerRest>>

triggerCreate == seq(<<kw("trigger"), Ref("parseTriggerBody")>>)

REPLACEABLE_CREATE ==
  <<plainView, materializedView, seq(<<kw("function"), Ref("parseFunctionBody")>>),
    seq(<<kw("procedure"), parseProcedureBody>>), seq(<<kw("aggregate"), parseAggregateBody>>), triggerCreate,
    language, seq(<<kw("trusted"), eat("procedural"), language>>), seq(<<kw("procedural"), language>>)>>

TEMP_WORDS == {"temp", "temporary"}

\* The words before TABLE or VIEW, and what may follow them.
createWithPrefix(orReplace) ==
  LET views == <<plainView, parseRecursiveView>>
      targets == oneOf(IF orReplace THEN views ELSE <<Ref("createTableRest")>> \o views)
  IN  <<seq(<<kwIn({"global", "local"}), kwIn(TEMP_WORDS), targets>>), seq(<<kwIn(TEMP_WORDS), targets>>)>>

createUnmappedTarget(orReplace) ==
  createWithPrefix(orReplace) \o <<parseRecursiveView>> \o (IF orReplace THEN <<>> ELSE <<constraintTrigger>>)

createStmt ==
  seq(<<kw("create"),
        Look(is({"or"}),
             seq(<<kwseq(<<"or", "replace">>), oneOf(createUnmappedTarget(TRUE) \o REPLACEABLE_CREATE)>>),
             oneOf(<<seq(<<kw("unlogged"), oneOf(<<Ref("createTableRest"), materializedView>>)>>)>>
                   \o createUnmappedTarget(FALSE) \o REPLACEABLE_CREATE \o PLAIN_CREATE))>>)

\* The elements of a schema, with no semicolon between them.
parseSchemaElement ==
  LET tables == <<Ref("createTableRest"), Ref("createIndexRest"), Ref("createSequenceRest")>>
      replaceable == <<plainView, triggerCreate>>
  IN  oneOf(<<custom({Word("grant")}, Ref("grantRest")),
              seq(<<kw("create"),
                    Look(is({"or"}),
                         seq(<<kwseq(<<"or", "replace">>), oneOf(createUnmappedTarget(TRUE) \o replaceable)>>),
                         oneOf(<<seq(<<kw("unlogged"), Ref("createTableRest")>>)>>
                               \o createUnmappedTarget(FALSE) \o replaceable \o tables))>>)>>)

createSchemaRest ==
  LET owner == seq(<<kw("authorization"), parseRoleSpec>>)
      named == Look(is({"authorization"}), owner,
                    seq(<<nameWord, Look(is({"authorization"}), owner, Nothing)>>))
  IN  seq(<<kw("schema"),
            Look({<<Word("if"), Word("not")>>}, seq(<<kwseq(<<"if", "not", "exists">>), named, Ends(is({"create", "grant"}))>>),
                 seq(<<named, While(is({"create", "grant"}), Ref("parseSchemaElement"))>>))>>)

CreateRules ==
  [databaseOption |-> parseDatabaseOption, roleOptions |-> Clauses(parseRoleOption(FALSE)),
   viewBody |-> parseViewBody("plain"), materializedViewBody |-> parseViewBody("materialized"),
   functionOptions |-> parseFunctionOptions(SHARED_OPTIONS \o <<"language", "as", "returnsNull", "window">>),
   untypedFunctionOptions |-> parseFunctionOptions(SHARED_OPTIONS \o <<"language", "as", "window">>),
   routineBodyStatement |-> someStatement, parseRoutineBody |-> parseRoutineBody,
   documentedFunctionOptions |-> documentedFunctionOptions,
   parseFunctionBody |-> parseFunctionBody, parseTriggerBody |-> parseTriggerBody,
   parseTriggerTail |-> parseTriggerTail, parseLanguageBody |-> parseLanguageBody,
   tablesInSchema |-> tablesInSchema,
   publicationTables |-> publicationObjects(seq(<<publicationTable, Ref("publicationTables")>>)),
   publicationSchemas |-> publicationObjects(seq(<<publicationSchema, Ref("publicationSchemas")>>)),
   parseDefinitionArg |-> parseDefinitionArg, parseDefinition |-> parseDefinition,
   parseOpClassItem |-> parseOpClassItem, parseSchemaElement |-> parseSchemaElement,
   createSchemaRest |-> createSchemaRest, createStmt |-> createStmt]
================================================================================
