---------------------------- MODULE SqlExpressions ----------------------------
(***************************************************************************)
(* Expressions of examples/sql-lite/grammar.ts: the operands, the calls    *)
(* with a syntax of their own, the functions of XML and of JSON, and the   *)
(* groups of the Pratt table. What an operator takes is read by parseRhs at*)
(* a binding power, a rule rhs of its own for each: it goes on with the    *)
(* groups that bind at least as tight.                                     *)
(*                                                                         *)
(* A call is known by its name and a parenthesis; the precision of a typed *)
(* literal and the word operator with an operator in parentheses are left  *)
(* out.                                                                    *)
(***************************************************************************)
EXTENDS SqlCommon

orderByClause == custom({Word("order")}, Ref("orderByClause"))

oneWord(words) == kwIn(words)

xmlLabel == anyName

list(item) == seq(<<item, While(isPunc(","), seq(<<punc(","), item>>))>>)

more(item) == While(isPunc(","), seq(<<punc(","), item>>))

-------------------------------------------------------------------------------
(* Calls with a syntax of their own. The parenthesis is open.              *)

parseExtract == seq(<<oneOf(<<token("string"), nameWord>>), kw("from"), expression>>)

\* The operands are full expressions, and the first takes the IN.
parsePositionSlip == seq(<<expression, kw("in"), expression>>)

parsePosition == seq(<<bExpression, kw("in"), expression>>)

parseTrim ==
  seq(<<eatIn({"leading", "trailing", "both"}),
        Look(is({"from"}), seq(<<kw("from"), expression>>),
             seq(<<expression, part(<<kw("from"), expression>>)>>))>>)

parseRowItems(allowEmpty) ==
  IF allowEmpty THEN Look(isPunc(")"), Nothing, list(expression)) ELSE list(expression)

parseOverlaps ==
  seq(<<kw("overlaps"),
        Look(is({"row"}), seq(<<kw("row"), punc("("), parseRowItems(TRUE)>>),
             seq(<<punc("("), parseRowItems(FALSE)>>)),
        punc(")")>>)

parseRow ==
  seq(<<kw("row"), punc("("), parseRowItems(TRUE), punc(")"),
        Look(startsOverlaps, parseOverlaps, Nothing)>>)

parseSubstring ==
  seq(<<expression,
        Switch(<<Case(is({"similar"}), seq(<<kw("similar"), expression, kw("escape"), expression>>)),
                 Case(is({"from", "for"}),
                      someOf(<<seq(<<kw("from"), expression>>), seq(<<kw("for"), expression>>)>>))>>,
               more(functionArg))>>)

parseOverlay ==
  seq(<<kw("placing"), expression, kw("from"), expression, part(<<kw("for"), expression>>)>>)

NORMAL_FORMS == {"nfc", "nfd", "nfkc", "nfkd"}

parseNormalize == seq(<<expression, part(<<punc(","), oneWord(NORMAL_FORMS)>>)>>)

SPECIAL_CALLS ==
  [extract |-> parseExtract, position |-> parsePosition, trim |-> parseTrim,
   substring |-> parseSubstring, normalize |-> parseNormalize]

-------------------------------------------------------------------------------
(* XML.                                                                    *)

startsXmlCall(word) == {<<Word(word), Punc("(")>>}

parseXmlNamedValues == list(seq(<<expression, part(<<kw("as"), xmlLabel>>)>>))

parseXmlOption == oneWord({"document", "content"})

\* The operand stands alone: no operator may follow it. BY needs REF or VALUE.
parseXmlPassing ==
  LET mechanism == Look({<<Word("by"), Word("ref")>>, <<Word("by"), Word("value")>>},
                        seq(<<kw("by"), oneWord({"ref", "value"})>>), Nothing)
  IN  seq(<<kw("passing"), mechanism, Ref("someAtom"), mechanism>>)

parseXmlElement ==
  LET content == seq(<<expression, more(expression)>>)
  IN  seq(<<kw("name"), xmlLabel,
            part(<<punc(","),
                   Look(startsXmlCall("xmlattributes"),
                        seq(<<kw("xmlattributes"), punc("("), parseXmlNamedValues, punc(")"),
                              part(<<punc(","), content>>)>>),
                        content)>>)>>)

parseXmlPi == seq(<<kw("name"), xmlLabel, part(<<punc(","), expression>>)>>)

noValueOr(rule) == Look(isWordAhead("no", "value"), kwseq(<<"no", "value">>), rule)

parseXmlRoot ==
  seq(<<expression, punc(","), kw("version"), noValueOr(expression),
        part(<<punc(","), kw("standalone"), noValueOr(oneWord({"yes", "no"}))>>)>>)

parseXmlParse ==
  seq(<<parseXmlOption, expression, part(<<oneWord({"preserve", "strip"}), kw("whitespace")>>)>>)

parseXmlSerialize ==
  seq(<<parseXmlOption, expression, kw("as"), typeRef,
        Switch(<<Case(is({"indent"}), kw("indent")), Case(is({"no"}), kwseq(<<"no", "indent">>))>>,
               Nothing)>>)

parseXmlExists == seq(<<Ref("someAtom"), parseXmlPassing>>)

XML_CALLS ==
  [xmlconcat |-> list(expression), xmlelement |-> parseXmlElement,
   xmlforest |-> parseXmlNamedValues, xmlpi |-> parseXmlPi, xmlroot |-> parseXmlRoot,
   xmlparse |-> parseXmlParse, xmlserialize |-> parseXmlSerialize,
   xmlexists |-> parseXmlExists]

parseXmlNamespace ==
  Look(is({"default"}), seq(<<kw("default"), bExpression>>),
       seq(<<bExpression, kw("as"), xmlLabel>>))

\* Any other word here is an option that nobody knows, and is refused.
parseXmlTableColumn ==
  seq(<<nameWord,
        Look(is({"for"}), kwseq(<<"for", "ordinality">>),
             seq(<<typeRef,
                   Clauses(<<Clause(is({"path"}), seq(<<kw("path"), bExpression>>), "refused"),
                             Clause(is({"default"}), seq(<<kw("default"), bExpression>>), "refused"),
                             Clause({<<NameAhead>>}, Croak, "again"),
                             Clause(is({"not", "null"}), seq(<<eat("not"), kw("null")>>), "refused")>>)>>))>>)

parseXmlTable ==
  seq(<<kw("xmltable"), punc("("),
        Look(startsXmlCall("xmlnamespaces"),
             seq(<<kw("xmlnamespaces"), parens(<<list(parseXmlNamespace)>>), punc(",")>>), Nothing),
        Ref("someAtom"), parseXmlPassing, kw("columns"), list(Ref("parseXmlTableColumn")), punc(")"),
        Ref("parseAliasClause")>>)

-------------------------------------------------------------------------------
(* JSON.                                                                   *)

\* The clauses of a call, in the order in which each function reads its own.
jsonFormat == seq(<<kw("format"), kw("json"), part(<<kw("encoding"), nameWord>>)>>)

parseJsonFormat == optional(jsonFormat)

parseJsonValue == seq(<<expression, parseJsonFormat>>)

jsonReturning == seq(<<kw("returning"), typeRef, parseJsonFormat>>)

parseJsonReturning == optional(jsonReturning)

jsonUniqueKeys == seq(<<oneWord({"with", "without"}), kw("unique"), eat("keys")>>)

jsonOnNull == seq(<<oneWord({"null", "absent"}), kw("on"), kw("null")>>)

parseJsonConstructorTail(object) ==
  seq(<<optional(jsonOnNull), IF object THEN optional(jsonUniqueKeys) ELSE Nothing, parseJsonReturning>>)

atJsonKeySeparator == is({"value"}) \cup isPunc(":")

finishJsonKeyValue == seq(<<oneOf(<<kw("value"), punc(":")>>), parseJsonValue>>)

JSON_BEHAVIOR_WORDS == {"error", "null", "true", "false", "unknown", "empty", "default"}

parseJsonBehavior ==
  oneOf(<<seq(<<kw("default"), expression>>), seq(<<kw("empty"), eatIn({"array", "object"})>>),
          oneWord(JSON_BEHAVIOR_WORDS \ {"default", "empty"})>>)

jsonBehaviors(onEmpty) ==
  seq(<<parseJsonBehavior, kw("on"),
        IF onEmpty
        THEN oneOf(<<kw("error"), seq(<<kw("empty"), part(<<parseJsonBehavior, kw("on"), kw("error")>>)>>)>>)
        ELSE kw("error")>>)

parseJsonBehaviors(onEmpty) == optional(jsonBehaviors(onEmpty))

jsonPassing == seq(<<kw("passing"), list(seq(<<parseJsonValue, kw("as"), xmlLabel>>))>>)

parseJsonPassing == optional(jsonPassing)

jsonWrapper ==
  seq(<<oneOf(<<kw("without"), seq(<<kw("with"), eatIn({"conditional", "unconditional"})>>)>>),
        eat("array"), kw("wrapper")>>)

jsonQuotes == seq(<<oneWord({"keep", "omit"}), kw("quotes"), part(<<kw("on"), kw("scalar"), kw("string")>>)>>)

\* The arguments of an ordinary call go on after the first: ORDER BY ends them.
restOfCall == seq(<<more(functionArg), optional(orderByClause)>>)

takeJsonObject ==
  Switch(<<Case(is({"returning"}), jsonReturning), Case(isPunc(")"), Nothing)>>,
         seq(<<functionArg,
               Look(atJsonKeySeparator,
                    seq(<<finishJsonKeyValue, more(seq(<<expression, finishJsonKeyValue>>)),
                          parseJsonConstructorTail(TRUE)>>),
                    restOfCall)>>))

JSON_ARRAY_CLAUSE_WORDS == {"format", "null", "absent", "returning"}

takeJsonArray ==
  Switch(<<Case(is(QUERY_WORDS), seq(<<query, parseJsonFormat, parseJsonReturning>>)),
           Case(is({"returning"}), jsonReturning),
           Case(isPunc(")"), Nothing)>>,
         seq(<<functionArg,
               Look(is(JSON_ARRAY_CLAUSE_WORDS),
                    someOf(<<seq(<<jsonFormat, more(parseJsonValue)>>), jsonOnNull, jsonReturning>>),
                    restOfCall)>>))

takeJsonObjectAgg ==
  seq(<<functionArg,
        Look(atJsonKeySeparator, seq(<<finishJsonKeyValue, parseJsonConstructorTail(TRUE)>>), restOfCall)>>)

\* ORDER BY comes after FORMAT, or with the arguments.
takeJsonArrayAgg ==
  seq(<<functionArg,
        Look(is(JSON_ARRAY_CLAUSE_WORDS),
             someOf(<<seq(<<jsonFormat, optional(orderByClause)>>), jsonOnNull, jsonReturning>>),
             seq(<<more(functionArg),
                   part(<<orderByClause,
                          Look(is({"null", "absent", "returning"}), someOf(<<jsonOnNull, jsonReturning>>),
                               Nothing)>>)>>))>>)

JSON_PATH_CALL_WORDS ==
  [jsonValue |-> {"passing", "returning"} \cup JSON_BEHAVIOR_WORDS,
   jsonQuery |-> {"passing", "returning", "with", "without", "keep", "omit"} \cup JSON_BEHAVIOR_WORDS,
   jsonExists |-> {"passing"} \cup JSON_BEHAVIOR_WORDS]

takeJsonPathCall(kind) ==
  LET clauses == CASE kind = "jsonExists" -> <<jsonPassing, jsonBehaviors(FALSE)>>
                   [] kind = "jsonValue" -> <<jsonPassing, jsonReturning, jsonBehaviors(TRUE)>>
                   [] kind = "jsonQuery" ->
                        <<jsonPassing, jsonReturning, jsonWrapper, jsonQuotes, jsonBehaviors(TRUE)>>
  IN  seq(<<functionArg,
            Look(is({"format"}),
                 seq(<<jsonFormat, punc(","), expression>> \o [i \in DOMAIN clauses |-> optional(clauses[i])]),
                 seq(<<punc(","), functionArg,
                       Look(is(JSON_PATH_CALL_WORDS[kind]), someOf(clauses), restOfCall)>>))>>)

takeJsonParse ==
  seq(<<functionArg,
        Look(is({"format", "with", "without"}), someOf(<<jsonFormat, jsonUniqueKeys>>), restOfCall)>>)

takeJsonSerialize ==
  seq(<<functionArg,
        Look(is({"format", "returning"}), someOf(<<jsonFormat, jsonReturning>>), restOfCall)>>)

JSON_CALLS ==
  [json |-> takeJsonParse, json_object |-> takeJsonObject, json_array |-> takeJsonArray,
   json_objectagg |-> takeJsonObjectAgg, json_arrayagg |-> takeJsonArrayAgg,
   json_value |-> takeJsonPathCall("jsonValue"), json_query |-> takeJsonPathCall("jsonQuery"),
   json_exists |-> takeJsonPathCall("jsonExists"), json_serialize |-> takeJsonSerialize]

parseJsonColumnPath == part(<<kw("path"), token("string")>>)

parseJsonTableColumns == parens(<<list(Ref("parseJsonTableColumn"))>>)

\* Columns nest; here those inside are plain ones.
parseJsonTableColumn ==
  Look({<<Word("nested"), OfType("string")>>, <<Word("nested"), Word("path")>>},
       seq(<<kw("nested"), eat("path"), token("string"), part(<<kw("as"), nameWord>>),
             kw("columns"), parens(<<nameWord, typeRef>>)>>),
       seq(<<nameWord,
             Look(is({"for"}), kwseq(<<"for", "ordinality">>),
                  seq(<<typeRef,
                        Look(is({"exists"}),
                             seq(<<kw("exists"), parseJsonColumnPath, parseJsonBehaviors(FALSE)>>),
                             seq(<<parseJsonFormat, parseJsonColumnPath, optional(jsonWrapper),
                                   optional(jsonQuotes), parseJsonBehaviors(TRUE)>>))>>))>>))

jsonTableTail ==
  seq(<<part(<<kw("as"), nameWord>>), parseJsonPassing, kw("columns"), parseJsonTableColumns,
        parseJsonBehaviors(FALSE)>>)

\* What is no table of this kind is an ordinary call.
parseJsonTableCall ==
  parens(<<functionArg,
           Look(is({"format"}), seq(<<jsonFormat, punc(","), expression, jsonTableTail>>),
                part(<<punc(","), functionArg,
                       Look(is({"as", "passing", "columns"}), jsonTableTail, more(functionArg))>>))>>)

-------------------------------------------------------------------------------
(* What follows a call.                                                    *)

parseFrameBound ==
  oneOf(<<seq(<<kw("unbounded"), oneWord({"preceding", "following"})>>),
          kwseq(<<"current", "row">>),
          seq(<<expression, oneWord({"preceding", "following"})>>)>>)

frameExclusion ==
  oneOf(<<kwseq(<<"current", "row">>), kw("group"), kw("ties"), kwseq(<<"no", "others">>)>>)

parseFrame ==
  seq(<<oneWord({"rows", "range", "groups"}),
        Look(is({"between"}), seq(<<kw("between"), parseFrameBound, kw("and"), parseFrameBound>>),
             parseFrameBound),
        part(<<kw("exclude"), frameExclusion>>)>>)

overSpecRule ==
  Look(isPunc("("),
       parens(<<Look({<<OfType("window")>>}, nameWord, Nothing),
                part(<<kw("partition"), kw("by"), commaList(expression)>>),
                optional(orderByClause), optional(parseFrame)>>),
       nameWord)

applyFilterAndOver ==
  seq(<<Look({<<Word("filter"), Punc("(")>>},
             seq(<<kw("filter"), parens(<<kw("where"), expression>>)>>), Nothing),
        Look({<<Word("over"), Punc("(")>>, <<Word("over"), NameAhead>>},
             seq(<<kw("over"), Ref("overSpecRule")>>), Nothing)>>)

applyCallModifiers ==
  seq(<<Look({<<Word("within"), Word("group")>>},
             seq(<<kw("within"), kw("group"), parens(<<orderByClause>>)>>), Nothing),
        Look({<<Word("ignore"), Word("nulls")>>, <<Word("respect"), Word("nulls")>>},
             seq(<<oneWord({"ignore", "respect"}), kw("nulls")>>), Nothing),
        applyFilterAndOver>>)

-------------------------------------------------------------------------------
(* Operands.                                                               *)

\* The words of an interval may come after the string.
parseIntervalLiteral ==
  seq(<<token("string"),
        Switch([i \in DOMAIN INTERVAL_TAILS |->
                  Case({phrase(INTERVAL_TAILS[i])}, kwseq(INTERVAL_TAILS[i]))], Nothing),
        Look(isPunc("("), parens(<<token("number")>>), Nothing),
        Ends(is({"year", "month", "day", "hour", "minute", "second", "to"}))>>)

startsMultiWordTypedLiteral ==
  {phrase(multiWordTypes[i]) \o <<OfType("string")>> : i \in DOMAIN multiWordTypes}

\* A call that its name tells from others.
callCases(calls, words) ==
  [i \in DOMAIN words |->
     Case({<<Word(words[i]), Punc("(")>>}, seq(<<kw(words[i]), parens(<<calls[words[i]]>>)>>))]

ordinaryCall ==
  Switch(<<Case(is({"distinct", "all"}),
                seq(<<oneWord({"distinct", "all"}), parseCallArg(expression), more(parseCallArg(expression)),
                      optional(orderByClause)>>)),
           Case(isPunc(")"), Nothing)>>,
         seq(<<Ref("parseCallArgs"), optional(orderByClause)>>))

subscriptBounds ==
  LET upper == seq(<<punc(":"), Look(isPunc("]"), Nothing, expression)>>)
  IN  seq(<<punc("["), Look(isPunc(":"), upper, seq(<<expression, optional(upper)>>)), punc("]")>>)

\* Fields after an operand that is no name. A subscript is read here or by the
\* loop of the expression, the same way: here by the loop.
parseIndirection ==
  While(isPunc("."), seq(<<punc("."), oneOf(<<op("*"), nameWord>>)>>))

\* The last part may be a star, and nothing comes after it.
plainName ==
  seq(<<nameWord,
        Look(isPunc("."), seq(<<punc("."), oneOf(<<op("*"), Ref("namePart")>>)>>), Ref("afterName"))>>)

afterName ==
  Switch(<<Case(isPunc("("), seq(<<parens(<<ordinaryCall>>), applyCallModifiers>>)),
           Case(Ahead({OfType("string")}), token("string"))>>,
         Nothing)

namePart ==
  seq(<<nameWord,
        Look(isPunc("."), seq(<<punc("."), oneOf(<<op("*"), nameWord>>)>>), Ref("afterName"))>>)

columnRef ==
  Switch(<<Case({<<Word("interval"), OfType("string")>>}, seq(<<kw("interval"), parseIntervalLiteral>>)),
           Case(startsMultiWordTypedLiteral, seq(<<Ref("longTypeName"), token("string")>>)),
           Case({<<Word("collation"), Word("for"), Punc("(")>>}, seq(<<kw("collation"), kw("for"), parenExpr>>)),
           Case({<<Word("row"), Punc("(")>>}, parseRow)>>
           \o callCases(SPECIAL_CALLS, <<"extract", "position", "trim", "substring", "normalize">>)
           \o callCases(XML_CALLS, <<"xmlconcat", "xmlelement", "xmlforest", "xmlpi", "xmlroot",
                                     "xmlparse", "xmlserialize", "xmlexists">>)
           \o callCases(JSON_CALLS, <<"json", "json_object", "json_array", "json_objectagg", "json_arrayagg",
                                      "json_value", "json_query", "json_exists", "json_serialize">>)
           \o <<Case({<<Word("overlay"), Punc("(")>>},
                     seq(<<kw("overlay"), parens(<<functionArg, Look(is({"placing"}), parseOverlay, restOfCall)>>)>>))>>,
         plainName)

caseExpr ==
  seq(<<kw("case"),
        Look(is({"when"}), Nothing, expression),
        seq(<<kw("when"), expression, kw("then"), expression>>),
        While(is({"when"}), seq(<<kw("when"), expression, kw("then"), expression>>)),
        part(<<kw("else"), expression>>),
        kw("end")>>)

existsExpr == seq(<<kw("exists"), parenQuery>>)

subqueryExpr == parenQuery

parenOrSubquery ==
  custom({Punc("(")},
         Look(isSubqueryParen, seq(<<subqueryExpr, parseIndirection>>),
              seq(<<punc("("), expression, more(expression), punc(")"),
                    Look(startsOverlaps, parseOverlaps, parseIndirection)>>)))

castExpr == seq(<<kw("cast"), parens(<<expression, kw("as"), typeRef>>)>>)

parseArrayBody ==
  LET arrayElements == delimited(punc("["), punc("]"), punc(","), expression)
  IN  Look({<<Punc("["), Punc("[")>>},
           seq(<<punc("["), arrayElements, more(arrayElements), punc("]")>>),
           arrayElements)

arrayExpr == seq(<<kw("array"), Look(isPunc("("), parenQuery, parseArrayBody)>>)

PRECISION_FUNCTIONS == {"current_time", "current_timestamp", "localtime", "localtimestamp"}

sqlValueFunction ==
  oneOf(<<seq(<<kwIn(PRECISION_FUNCTIONS), Look(isPunc("("), parens(<<token("number")>>), Nothing)>>),
          kwIn(SQL_VALUE_FUNCTIONS \ PRECISION_FUNCTIONS)>>)

atom ==
  oneOf(<<token("number"),
          custom({OfType("string"), OfType("nstring")}, oneOf(<<token("string"), token("nstring")>>)),
          token("bitstring"), token("hexstring"), kwIn({"true", "false"}), kw("null"),
          token("param"), caseExpr, existsExpr, castExpr, arrayExpr, sqlValueFunction,
          parenOrSubquery, custom({OfType("ident"), OfType("qident")}, Ref("columnRef"))>>)

-------------------------------------------------------------------------------
(* The groups of the table: what each reads once its operand is there.     *)

QUANTIFIERS == {"any", "all", "some"}

quantifiedTail == seq(<<kwIn(QUANTIFIERS), Look(isSubqueryParen, subqueryExpr, parenExpr)>>)

escapeTail == part(<<kw("escape"), Ref("rhs11")>>)

betweenTail ==
  seq(<<eatIn({"symmetric", "asymmetric"}), Ref("rhs11"), kw("and"), Ref("rhs11")>>)

inTail == Look(isSubqueryParen, parenQuery, exprList)

likeTail == Look(is(QUANTIFIERS), quantifiedTail, seq(<<Ref("rhs11"), escapeTail>>))

similarTail == seq(<<kw("similar"), kw("to"), Ref("rhs11"), escapeTail>>)

notTail ==
  seq(<<kw("not"),
        oneOf(<<seq(<<kwIn({"like", "ilike"}), likeTail>>), similarTail,
                seq(<<kw("between"), betweenTail>>), seq(<<kw("in"), inTail>>)>>)>>)

isTail ==
  seq(<<kw("is"), eat("not"),
        oneOf(<<seq(<<kw("distinct"), kw("from"), Ref("rhs9")>>),
                seq(<<kw("json"), eatIn({"value", "scalar", "array", "object"}),
                      part(<<oneWord({"with", "without"}), kw("unique"), eat("keys")>>)>>),
                kw("document"),
                seq(<<kwIn(NORMAL_FORMS), kw("normalized")>>), kw("normalized"),
                kwIn({"true", "false", "unknown"}),
                kw("null")>>)>>)

atTimeZonePostfix ==
  Look(isWordAhead("at", "local"), kwseq(<<"at", "local">>),
       seq(<<kw("at"), kw("time"), kw("zone"), Ref("rhs17")>>))

castPostfix == seq(<<punc("::"), typeRef>>)

collatePostfix == seq(<<kw("collate"), qualName>>)

arithInfix == seq(<<tokenIn({Entry("op", "+"), Entry("op", "||")}), Look(is(QUANTIFIERS), quantifiedTail, Ref("rhs13"))>>)

comparison == seq(<<tokenIn({Entry("op", "="), Entry("op", "<")}),
                    Look(is(QUANTIFIERS), quantifiedTail,
                         seq(<<Ref("rhs10"), Ends(Ahead({Entry("op", value) : value \in Comparisons}))>>))>>)

groups ==
  <<castPostfix, subscriptBounds, collatePostfix, custom({Word("at")}, atTimeZonePostfix), arithInfix,
    seq(<<kwIn({"like", "ilike"}), likeTail>>), similarTail, seq(<<kw("between"), betweenTail>>),
    notTail, seq(<<kw("in"), inTail>>), comparison, isTail, kwIn({"isnull", "notnull"}),
    seq(<<kw("and"), Ref("rhs5")>>), seq(<<kw("or"), Ref("rhs3")>>)>>

bGroups ==
  <<castPostfix, subscriptBounds, seq(<<tokenIn({Entry("op", "+"), Entry("op", "=")}), Ref("someAtom"), Ends(bExprTable)>>),
    seq(<<kw("is"), eat("not"), oneOf(<<kw("document"), seq(<<kw("distinct"), kw("from"), Ref("someAtom"), Ends(bExprTable)>>)>>)>>)>>

\* An operand with at most one prefix, at most one group, and then what the
\* loop looks for.
expressionRule ==
  seq(<<Switch(<<Case(Ahead(prefixOps), seq(<<tokenIn(prefixOps), Ref("someAtom")>>))>>, Ref("atom")),
        Look(loopAt(0), Ref("groups"), Nothing), Ends(loopAt(0))>>)

bExprRule == seq(<<Ref("someAtom"), Look(bExprTable, Ref("bGroups"), Nothing), Ends(bExprTable)>>)

ExpressionRules ==
  [parseXmlTable |-> parseXmlTable, parseJsonTableCall |-> parseJsonTableCall, atom |-> atom, groups |-> oneOf(groups), bGroups |-> oneOf(bGroups),
   rhs3 |-> operand(3), rhs5 |-> operand(5), rhs9 |-> operand(9), rhs10 |-> operand(10),
   rhs11 |-> operand(11), rhs13 |-> operand(13), rhs17 |-> operand(17), columnRef |-> columnRef, namePart |-> namePart, afterName |-> afterName,
   overSpecRule |-> overSpecRule, expressionRule |-> expressionRule, bExprRule |-> bExprRule,
   parseXmlTableColumn |-> parseXmlTableColumn, parseJsonTableColumn |-> parseJsonTableColumn]
================================================================================
