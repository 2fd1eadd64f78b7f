------------------------------ MODULE SqlUtility ------------------------------
(***************************************************************************)
(* The utility statements of examples/sql-lite/grammar.ts, DROP and its    *)
(* like, and the roots: a statement and a script of statements. A query or *)
(* a statement that another one takes is as in SqlCommon.                  *)
(***************************************************************************)
EXTENDS SqlObjects

-------------------------------------------------------------------------------
(* DROP, TRUNCATE, REFRESH, COMMENT, SECURITY LABEL, IMPORT.               *)

parseDropNames(item) == seq(<<parseIfExists, commaList(item)>>)

listDrop(lead, name, concurrently, behavior) ==
  seq(<<kwseq(lead), IF concurrently THEN eat("concurrently") ELSE Nothing, parseDropNames(name),
        IF behavior THEN dropBehavior ELSE Nothing>>)

routineDrop(lead, ref) == seq(<<kw(lead), parseDropNames(ref), dropBehavior>>)

onTableDrop(lead) == seq(<<kw(lead), parseIfExists, nameWord, kw("on"), qualName, dropBehavior>>)

dropDatabase ==
  seq(<<kw("database"), parseIfExists, nameWord,
        Look(is({"with"}) \cup isPunc("("),
             seq(<<eat("with"), parens(<<commaList(kw("force"))>>)>>), Nothing)>>)

dropUserMappingRest ==
  seq(<<kwseq(<<"user", "mapping">>), Look(is({"if"}), kwseq(<<"if", "exists">>), Nothing),
        parseUserMappingTarget>>)

dropOperator ==
  Look(opClassWordAhead,
       seq(<<kw("operator"), kwIn({"class", "family"}), parseIfExists, qualName, kw("using"), nameWord, dropBehavior>>),
       seq(<<kw("operator"), parseDropNames(custom({OfType("op")} \cup anyNames, parseOperatorRef)), dropBehavior>>))

DROP_TARGETS ==
  dispatch(
    <<listDrop(<<"table">>, qualName, TRUE, TRUE), listDrop(<<"view">>, qualName, TRUE, TRUE),
      listDrop(<<"index">>, qualName, TRUE, TRUE), listDrop(<<"type">>, qualName, TRUE, TRUE),
      listDrop(<<"sequence">>, qualName, TRUE, TRUE), listDrop(<<"schema">>, qualName, TRUE, TRUE),
      listDrop(<<"materialized", "view">>, qualName, FALSE, TRUE),
      routineDrop("function", routineRef), routineDrop("procedure", routineRef),
      routineDrop("aggregate", aggregateRef), onTableDrop("trigger"),
      listDrop(<<"domain">>, qualName, FALSE, TRUE), listDrop(<<"extension">>, nameWord, FALSE, TRUE),
      dropDatabase,
      seq(<<kwseq(<<"owned", "by">>), commaList(parseRoleSpec), dropBehavior>>),
      listDrop(<<"role">>, nameWord, FALSE, FALSE),
      custom({Word("user")}, Look(isUserMappingAhead({"for", "if"}), dropUserMappingRest,
                                  listDrop(<<"user">>, nameWord, FALSE, FALSE))),
      seq(<<kw("tablespace"), parseIfExists, nameWord>>), onTableDrop("policy"),
      listDrop(<<"publication">>, nameWord, FALSE, TRUE),
      seq(<<kw("subscription"), parseIfExists, nameWord, dropBehavior>>),
      listDrop(<<"collation">>, qualName, FALSE, TRUE), listDrop(<<"conversion">>, qualName, FALSE, TRUE),
      listDrop(<<"statistics">>, qualName, FALSE, TRUE),
      listDrop(<<"event", "trigger">>, nameWord, FALSE, TRUE),
      listDrop(<<"language">>, nameWord, FALSE, TRUE),
      listDrop(<<"procedural", "language">>, nameWord, FALSE, TRUE),
      listDrop(<<"access", "method">>, nameWord, FALSE, TRUE),
      seq(<<parseTextSearchKind, parseDropNames(qualName), dropBehavior>>),
      seq(<<kw("cast"), parseIfExists, parseCastTypes, dropBehavior>>),
      custom({Word("operator")}, dropOperator),
      custom({Word("foreign")},
             Look(isWordAhead("foreign", "table"), listDrop(<<"foreign", "table">>, qualName, FALSE, TRUE),
                  listDrop(<<"foreign", "data", "wrapper">>, nameWord, FALSE, TRUE))),
      listDrop(<<"server">>, nameWord, FALSE, TRUE)>>)

dropStmt == seq(<<kw("drop"), Ref("DROP_TARGETS")>>)

truncateStmt ==
  seq(<<kw("truncate"), eat("table"), commaList(relationExpr),
        part(<<oneOf(<<kw("restart"), kw("continue")>>), kw("identity")>>), dropBehavior>>)

refreshStmt ==
  seq(<<kwseq(<<"refresh", "materialized", "view">>), eat("concurrently"), qualName, parseWithData>>)

commentText == oneOf(<<token("string"), kw("null")>>)

commentStmt == seq(<<kw("comment"), kw("on"), Ref("commentObject"), kw("is"), commentText>>)

securityLabelStmt ==
  seq(<<kwseq(<<"security", "label">>), part(<<kw("for"), parseWordOrString>>), kw("on"),
        Ref("labelObject"), kw("is"), commentText>>)

importForeignSchemaStmt ==
  seq(<<kwseq(<<"import", "foreign", "schema">>), nameWord,
        Look(is({"limit", "except"}),
             seq(<<oneOf(<<kwseq(<<"limit", "to">>), kw("except")>>), parens(<<commaList(relationExpr)>>)>>),
             Nothing),
        kwseq(<<"from", "server">>), nameWord, kw("into"), nameWord, optionalGenericOptions>>)

-------------------------------------------------------------------------------
(* GRANT, REVOKE, default privileges, REASSIGN OWNED.                      *)

PRIVILEGE_WORDS ==
  {"select", "insert", "update", "delete", "truncate", "references", "trigger", "usage", "create",
   "connect", "temporary", "temp", "execute", "maintain", "set"}

GRANT_KINDS ==
  objectKinds("qualName", TRUE, TRUE, {},
       <<<<"table">>, <<"sequence">>, <<"domain">>, <<"parameter">>, <<"type">>>>)
  \o objectKinds("name", TRUE, TRUE, {},
       <<<<"foreign", "data", "wrapper">>, <<"foreign", "server">>, <<"database">>, <<"language">>,
         <<"schema">>, <<"tablespace">>>>)
  \o objectKinds("routine", TRUE, TRUE, {}, <<<<"function">>, <<"procedure">>, <<"routine">>>>)
  \o objectKinds("largeObject", TRUE, TRUE, {}, <<<<"large", "object">>>>)

ALL_IN_SCHEMA == {"tables", "sequences", "functions", "procedures", "routines"}

DEFAULT_PRIVILEGE_OBJECTS == {"tables", "functions", "routines", "sequences", "types", "schemas"}

parsePrivilege ==
  Look(isWordAhead("alter", "system"), kwseq(<<"alter", "system">>),
       seq(<<oneOf(<<kwIn(PRIVILEGE_WORDS), nameWord>>), Look(isPunc("("), columnList, Nothing)>>))

allPrivileges == seq(<<kw("all"), eat("privileges"), Look(isPunc("("), columnList, Nothing)>>)

parsePrivileges == Look(is({"all"}), allPrivileges, commaList(parsePrivilege))

\* The word of a kind is the name of a table where no name follows it.
parseGrantObject ==
  LET kindCase(kind) ==
        Case(IF kind.words[1] \in RESERVED \/ Len(kind.words) > 1 THEN {phrase(kind.words)}
             ELSE isNameAfter(kind.words),
             seq(<<kwseq(kind.words), commaList(OBJECT_REF_SHAPES[kind.shape])>>))
  IN  Switch(<<Case({<<Word("all"), Word(plural)>> : plural \in ALL_IN_SCHEMA},
                    seq(<<kw("all"), kwIn(ALL_IN_SCHEMA), kw("in"), kw("schema"), commaList(nameWord)>>))>>
               \o [i \in DOMAIN GRANT_KINDS |-> kindCase(GRANT_KINDS[i])],
             commaList(qualName))

parseGrantee == seq(<<eat("group"), oneOf(<<kw("public"), parseRoleSpec>>)>>)

parseGrantedBy == Look(is({"granted"}), seq(<<kwseq(<<"granted", "by">>), parseRoleSpec>>), Nothing)

ROLE_GRANT_OPTIONS == {"admin", "inherit", "set"}

parseRoleGrantOption == seq(<<kwIn(ROLE_GRANT_OPTIONS), kwIn({"option", "true", "false"})>>)

\* What follows the privileges: ON an object, or roles that are granted.
onObject(granteeKw, tail) ==
  seq(<<kw("on"), Ref("parseGrantObject"), kw(granteeKw), commaList(parseGrantee), tail>>)

toRoles(granteeKw, tail) == seq(<<kw(granteeKw), commaList(parseRoleSpec), tail>>)

parseGrantBody(granteeKw, on, objectTail, roleTail) ==
  CASE on = "required" -> seq(<<parsePrivileges, onObject(granteeKw, objectTail)>>)
    [] on = "refused" -> seq(<<commaList(parsePrivilege), toRoles(granteeKw, roleTail)>>)
    [] on = "optional" ->
         Look(is({"all"}), seq(<<allPrivileges, onObject(granteeKw, objectTail)>>),
              seq(<<commaList(parsePrivilege),
                    Look(is({"on"}), onObject(granteeKw, objectTail), toRoles(granteeKw, roleTail))>>))

revokeRest ==
  LET body(on) == parseGrantBody("from", on, Nothing, Nothing)
      optionFor(words) == seq(<<kwIn(words), kwseq(<<"option", "for">>)>>)
  IN  seq(<<kw("revoke"),
            Switch(<<Case(isWordAhead("grant", "option"), seq(<<optionFor({"grant"}), body("required")>>)),
                     Case(UNION {isWordAhead(word, "option") : word \in ROLE_GRANT_OPTIONS},
                          seq(<<optionFor(ROLE_GRANT_OPTIONS), body("refused")>>))>>,
                   body("optional")),
            parseGrantedBy, dropBehavior>>)

grantRest ==
  seq(<<kw("grant"),
        parseGrantBody("to", "optional", part(<<kw("with"), kwseq(<<"grant", "option">>)>>),
                       part(<<kw("with"), commaList(parseRoleGrantOption)>>)),
        parseGrantedBy>>)

grantStmt == oneOf(<<custom({Word("grant")}, Ref("grantRest")), custom({Word("revoke")}, Ref("revokeRest"))>>)

alterDefaultPrivilegesRest ==
  LET objects(granteeKw) == seq(<<kw("on"), kwIn(DEFAULT_PRIVILEGE_OBJECTS), kw(granteeKw), commaList(parseGrantee)>>)
  IN  seq(<<kwseq(<<"default", "privileges">>),
            Clauses(<<Clause(is({"for"}), seq(<<kw("for"), kwIn({"role", "user"}), commaList(parseRoleSpec)>>), "again"),
                      Clause(is({"in"}), seq(<<kwseq(<<"in", "schema">>), commaList(nameWord)>>), "again")>>),
            oneOf(<<seq(<<kw("revoke"),
                          Look(isWordAhead("grant", "option"), kwseq(<<"grant", "option", "for">>), Nothing),
                          parsePrivileges, objects("from"), dropBehavior>>),
                    seq(<<kw("grant"), parsePrivileges, objects("to"),
                          part(<<kw("with"), kwseq(<<"grant", "option">>)>>)>>)>>)>>)

reassignStmt ==
  seq(<<kwseq(<<"reassign", "owned", "by">>), commaList(parseRoleSpec), kw("to"), parseRoleSpec>>)

-------------------------------------------------------------------------------
(* Transactions and the session.                                           *)

TRANSACTION_MODE_LEADS == {"isolation", "read", "not", "deferrable"}

parseTransactionMode ==
  Switch(<<Case(is({"isolation"}),
                seq(<<kwseq(<<"isolation", "level">>),
                      Switch(<<Case(is({"serializable"}), kw("serializable")),
                               Case(is({"repeatable"}), kwseq(<<"repeatable", "read">>)),
                               Case(isWordAhead("read", "committed"), kwseq(<<"read", "committed">>))>>,
                             kwseq(<<"read", "uncommitted">>))>>)),
           Case(isWordAhead("read", "only"), kwseq(<<"read", "only">>)),
           Case(is({"read"}), kwseq(<<"read", "write">>)),
           Case(is({"not"}), kwseq(<<"not", "deferrable">>))>>,
         kw("deferrable"))

\* The comma between two modes may be left out.
parseTransactionModes ==
  While(is(TRANSACTION_MODE_LEADS),
        seq(<<parseTransactionMode, While(isPunc(","), seq(<<punc(","), parseTransactionMode>>))>>))

parseTransactionModeList == seq(<<parseTransactionMode, optional(punc(",")), parseTransactionModes>>)

parseAndChain == part(<<kw("and"), eat("no"), kw("chain")>>)

workOrTransaction == optional(oneOf(<<kw("work"), kw("transaction")>>))

transactionStmt ==
  LET prepared == seq(<<kw("prepared"), token("string")>>)
      ended == seq(<<workOrTransaction, parseAndChain>>)
      toSavepoint == seq(<<kw("to"), eat("savepoint"), nameWord>>)
  IN  oneOf(<<seq(<<kw("begin"), workOrTransaction, parseTransactionModes>>),
              seq(<<kwseq(<<"start", "transaction">>), parseTransactionModes>>),
              seq(<<kw("commit"), Look(is({"prepared"}), prepared, ended)>>),
              seq(<<kw("end"), ended>>),
              seq(<<kw("abort"), ended>>),
              seq(<<kw("rollback"),
                    Look(is({"prepared"}), prepared,
                         seq(<<workOrTransaction, Look(is({"to"}), toSavepoint, parseAndChain)>>))>>),
              seq(<<kw("savepoint"), nameWord>>),
              seq(<<kw("release"), eat("savepoint"), nameWord>>)>>)

parseSetConstraints ==
  seq(<<kw("constraints"), Look(is({"all"}), kw("all"), commaList(qualName)),
        kwIn({"deferred", "immediate"})>>)

isSessionCharacteristics == {<<Word("session"), Word("characteristics"), Word("as")>>}

sessionCharacteristics ==
  seq(<<kwseq(<<"session", "characteristics", "as", "transaction">>), parseTransactionModeList>>)

\* parseSetRest: modes of the transaction, or a parameter.
setRestCases ==
  <<Case(isSessionCharacteristics, sessionCharacteristics), Case(isGenericSet, configAssignment)>>
    \o configCases \o <<Case(is({"transaction"}), seq(<<kw("transaction"), parseTransactionModeList>>))>>

parseSetRest == Switch(setRestCases, Croak)

setStmt ==
  seq(<<kw("set"),
        Switch(setRestCases \o
                 <<Case(is({"constraints"}), parseSetConstraints),
                   Case(is({"session", "local"}), seq(<<kwIn({"session", "local"}), Ref("parseSetRest")>>))>>,
               Croak)>>)

sessionStmt ==
  oneOf(<<seq(<<kw("show"), parseConfigTarget>>), seq(<<kw("reset"), parseConfigTarget>>),
          custom({Word("set")}, Ref("setStmt"))>>)

doStmt ==
  seq(<<kw("do"),
        Clauses(<<Clause(is({"language"}), seq(<<kw("language"), parseWordOrString>>), "again"),
                  Clause(Ahead({OfType("string")}), token("string"), "again")>>)>>)

deallocateStmt == seq(<<kw("deallocate"), eat("prepare"), oneOf(<<kw("all"), nameWord>>)>>)

listenStmt == seq(<<kw("listen"), nameWord>>)

notifyStmt == seq(<<kw("notify"), nameWord, part(<<punc(","), token("string")>>)>>)

unlistenStmt == seq(<<kw("unlisten"), oneOf(<<op("*"), nameWord>>)>>)

loadStmt == seq(<<kw("load"), token("string")>>)

DISCARD_TARGETS == {"all", "plans", "sequences", "temp", "temporary"}

discardStmt == seq(<<kw("discard"), kwIn(DISCARD_TARGETS)>>)

-------------------------------------------------------------------------------
(* Statements that hold a statement, maintenance, locks.                   *)

DML_LEADS == {"with", "insert", "update", "delete", "merge"} \cup QUERY_WORDS

dmlFirst == Words(DML_LEADS) \cup {Punc("(")}

parenthesisedQuery == seq(<<parenQuery, Ends(is(QUERY_TAIL_WORDS))>>)

\* A query, with parentheses or without, stands for the statements that one takes.
preparable == custom(dmlFirst, oneOf(<<custom(Words(QUERY_WORDS), query), parenthesisedQuery>>))

prepareStmt ==
  seq(<<kw("prepare"),
        Look({<<Word("transaction"), OfType("string")>>}, seq(<<kw("transaction"), token("string")>>),
             seq(<<nameWord, optParenList(commaList(typeRef)), kw("as"), preparable>>))>>)

executeStmt == seq(<<kw("execute"), nameWord, optParenList(commaList(expression))>>)

ANALYZE_WORDS == {"analyze", "analyse"}

\* Flags before the parenthesised options came: each may be there once, in order.
legacyFlags(flags) == seq([i \in DOMAIN flags |-> eatIn(flags[i])])

maintenanceTarget == custom(anyNames, seq(<<qualName, optParenList(commaList(nameWord))>>))

statementEnd == {<<Punc(";")>>, <<Eof>>}

maintenanceTail(flags) ==
  seq(<<Look(isPunc("("), relationOptions, legacyFlags(flags)),
        Look(statementEnd, Nothing, commaList(maintenanceTarget))>>)

analyzeStmt == seq(<<kwIn(ANALYZE_WORDS), maintenanceTail(<<{"verbose"}>>)>>)

vacuumStmt ==
  seq(<<kw("vacuum"), maintenanceTail(<<{"full"}, {"freeze"}, {"verbose"}, ANALYZE_WORDS>>)>>)

checkpointStmt == kw("checkpoint")

\* CLUSTER index ON table, where no options in parentheses came.
clusterStmt ==
  LET target == seq(<<qualName, part(<<kw("using"), nameWord>>)>>)
      onTable == {<<name, Word("on")>> : name \in anyNames}
  IN  seq(<<kw("cluster"),
            Look(isPunc("("), seq(<<relationOptions, Look(statementEnd, Nothing, target)>>),
                 seq(<<eat("verbose"),
                       Switch(<<Case(statementEnd, Nothing),
                                Case(onTable, seq(<<nameWord, kw("on"), qualName>>))>>, target)>>))>>)

reindexStmt ==
  LET target(words, name) == seq(<<kwIn(words), eat("concurrently"), name>>)
  IN  seq(<<kw("reindex"), Look(isPunc("("), relationOptions, Nothing),
            oneOf(<<target({"index", "table"}, qualName), target({"schema"}, nameWord),
                    target({"database", "system"}, Look(statementEnd, Nothing, nameWord))>>)>>)

\* CREATE is read as the statement it is, and refused afterwards if it has no query.
explainable ==
  oneOf(<<custom({Word("execute")}, executeStmt), custom({Word("declare")}, Ref("declareCursorStmt")),
          custom({Word("create")}, Ref("createStmt")), query>>)

explainFlags == someOf(<<kwIn(ANALYZE_WORDS), kw("verbose")>>)

opensQuery == {<<Punc("("), Word(word)>> : word \in QUERY_WORDS} \cup {<<Punc("("), Punc("(")>>}

explainStmt ==
  LET statementOrQuery == Look(isPunc("("), parenthesisedQuery, explainable)
  IN  seq(<<kw("explain"),
            Switch(<<Case(opensQuery, parenthesisedQuery),
                     Case(isPunc("("), seq(<<relationOptions, statementOrQuery>>)),
                     Case(is(ANALYZE_WORDS \cup {"verbose"}), seq(<<explainFlags, statementOrQuery>>))>>,
                   explainable)>>)

parseLockMode ==
  oneOf(<<seq(<<kwIn({"access", "row"}), kwIn({"share", "exclusive"})>>), kw("exclusive"),
          seq(<<kw("share"),
                Switch(<<Case(is({"update"}), kwseq(<<"update", "exclusive">>)),
                         Case(is({"row"}), kwseq(<<"row", "exclusive">>))>>, Nothing)>>)>>)

lockStmt ==
  seq(<<kw("lock"), eat("table"), commaList(relationExpr),
        part(<<kw("in"), parseLockMode, kw("mode")>>), eat("nowait")>>)

callStmt == seq(<<kw("call"), qualName, parseCallArgList>>)

-------------------------------------------------------------------------------
(* Cursors and COPY.                                                       *)

cursorOptions ==
  Clauses(<<Clause(is({"binary"}), kw("binary"), "again"),
            Clause(is({"asensitive", "insensitive"}), kwIn({"asensitive", "insensitive"}), "again"),
            Clause(is({"scroll", "no"}), seq(<<eat("no"), kw("scroll")>>), "again")>>)

declareCursorStmt ==
  seq(<<kw("declare"), nameWord, cursorOptions, kw("cursor"),
        Look(is({"with", "without"}), seq(<<kwIn({"with", "without"}), kw("hold")>>), Nothing),
        kw("for"), preparable>>)

signedCount == parseSignedInt

DIRECTION_WORDS == {"next", "prior", "first", "last", "absolute", "relative", "forward", "backward"}

\* A direction is one when more of the statement follows.
cursorDirection ==
  LET follows(words) == {<<Word(word), More>> : word \in words}
      counted == {"absolute", "relative"}
      open == {"forward", "backward"}
  IN  Switch(<<Case(startsCount, signedCount),
               Case(is({"all"}), kw("all")),
               Case(follows(counted), seq(<<kwIn(counted), signedCount>>)),
               Case(follows(open),
                    seq(<<kwIn(open), Switch(<<Case(is({"all"}), kw("all")), Case(startsCount, signedCount)>>, Nothing)>>)),
               Case(follows(DIRECTION_WORDS), kwIn(DIRECTION_WORDS \ (counted \cup open)))>>,
             Nothing)

cursorFetchStmt(lead) == seq(<<kw(lead), cursorDirection, eatIn({"from", "in"}), nameWord>>)

closeStmt == seq(<<kw("close"), oneOf(<<kw("all"), nameWord>>)>>)

copyLocation(client) ==
  oneOf(<<token("string"), seq(<<kw("program"), token("string")>>), kw(client)>>)

LEGACY_COPY_WORDS ==
  {"binary", "freeze", "delimiter", "null", "csv", "header", "quote", "escape", "force", "encoding"}

copyColumns == Look(Ahead({Entry("op", "*")}), op("*"), commaList(nameWord))

legacyCopyOption ==
  oneOf(<<kwIn({"binary", "csv", "freeze", "header"}),
          seq(<<kw("force"),
                oneOf(<<seq(<<kw("quote"), copyColumns>>), seq(<<kwseq(<<"not", "null">>), copyColumns>>),
                        seq(<<kw("null"), copyColumns>>)>>)>>),
          seq(<<kw("encoding"), token("string")>>),
          seq(<<kwIn({"delimiter", "null", "quote", "escape"}), eat("as"), token("string")>>)>>)

\* Only the table of COPY FROM has a WHERE, and only a table the old DELIMITERS.
copyStmt ==
  LET delimiters == Look(is({"using", "delimiters"}), seq(<<eat("using"), kw("delimiters"), token("string")>>), Nothing)
      options == seq(<<eat("with"),
                       Look(isPunc("("), relationOptions,
                            While(is(LEGACY_COPY_WORDS), Ref("legacyCopyOption")))>>)
      ofTable == seq(<<qualName, optParenList(commaList(nameWord)),
                       oneOf(<<seq(<<kw("from"), copyLocation("stdin"), delimiters, options,
                                     part(<<kw("where"), Ref("copyCondition")>>)>>),
                               seq(<<kw("to"), copyLocation("stdout"), delimiters, options>>)>>)>>)
  IN  seq(<<kw("copy"),
            Switch(<<Case(isNameAfter(<<"binary">>), seq(<<kw("binary"), ofTable>>)),
                     Case(isPunc("("), seq(<<parens(<<preparable>>), kw("to"), copyLocation("stdout"), options>>))>>,
                   ofTable)>>)

-------------------------------------------------------------------------------
(* The roots.                                                              *)

ddlStmt ==
  oneOf(<<custom({Word("create")}, Ref("createStmt")), custom({Word("alter")}, Ref("alterStmt")), dropStmt,
          truncateStmt, commentStmt, securityLabelStmt, refreshStmt, importForeignSchemaStmt>>)

utilityStmt ==
  oneOf(<<grantStmt, transactionStmt, sessionStmt, doStmt, deallocateStmt, prepareStmt, executeStmt,
          explainStmt, analyzeStmt, vacuumStmt, clusterStmt, reindexStmt, checkpointStmt, loadStmt,
          discardStmt, listenStmt, notifyStmt, unlistenStmt, lockStmt, callStmt, declareCursorStmt,
          cursorFetchStmt("fetch"), cursorFetchStmt("move"), closeStmt, copyStmt, reassignStmt>>)

statementBody == oneOf(<<ddlStmt, utilityStmt, custom(dmlFirst, Ref("dmlStatement"))>>)

\* A statement may be empty. At the end of the text it needs no semicolon: a text
\* of one statementBody.
statement ==
  custom({Punc(";")} \cup {pattern[1] : pattern \in First(statementBody)},
         Look(isPunc(";"), emptyStatement, seq(<<Ref("statementBody"), punc(";")>>)))

script == many(Ref("statement"))

UtilityRules ==
  [DROP_TARGETS |-> DROP_TARGETS, declareCursorStmt |-> declareCursorStmt, executeStmt |-> executeStmt,
   parseGrantObject |-> parseGrantObject, grantRest |-> grantRest, revokeRest |-> revokeRest, setStmt |-> setStmt, parseSetRest |-> parseSetRest,
   legacyCopyOption |-> legacyCopyOption, alterDefaultPrivilegesRest |-> alterDefaultPrivilegesRest,
   statementBody |-> statementBody, statement |-> statement, script |-> script]
================================================================================
