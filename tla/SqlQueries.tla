------------------------------ MODULE SqlQueries ------------------------------
(***************************************************************************)
(* Queries and the statements that change rows, of examples/sql-lite/      *)
(* grammar.ts: SELECT and what it reads from, WITH, INSERT, UPDATE, DELETE *)
(* and MERGE.                                                              *)
(*                                                                         *)
(* A table inside another rule is a name and then what the table rule looks*)
(* for after one (someTable); so is one operand of a set operation. A FROM *)
(* item with two parentheses or more is left out: parenRunIsQuery reads    *)
(* ahead without a limit there.                                            *)
(***************************************************************************)
EXTENDS SqlExpressions, SqlObjects

eq == op("=")

aliasAhead == {<<OfType("alias")>>}

\* A name after AS, or one that is no label of its own, and what may follow it.
aliased(rest) ==
  Switch(<<Case(is({"as"}), seq(<<kw("as"), nameWord, rest>>)), Case(aliasAhead, seq(<<nameWord, rest>>))>>, Nothing)

asAlias == aliased(Nothing)

-------------------------------------------------------------------------------
(* Assignments.                                                            *)

insertValue == oneOf(<<kw("default"), expression>>)

setTarget ==
  seq(<<nameWord,
        While(Ahead({Punc("."), Punc("[")}),
              Look(isPunc("."), seq(<<punc("."), nameWord>>), Ref("subscriptBounds")))>>)

insertColumnList == parens(<<commaList(Ref("setTarget"))>>)

singleAssignment == seq(<<Ref("setTarget"), eq, insertValue>>)

multiAssignment ==
  LET values == commaList(insertValue)
  IN  custom({Punc("(")},
             seq(<<parens(<<commaList(Ref("setTarget"))>>), eq,
                   Switch(<<Case(isSubqueryParen, parenQuery),
                            Case({<<Word("row"), Punc("(")>>},
                                 seq(<<kw("row"), punc("("), Look(isPunc(")"), Nothing, values), punc(")")>>))>>,
                          parens(<<values>>))>>))

assignment == oneOf(<<multiAssignment, singleAssignment>>)

setAssignments == seq(<<kw("set"), commaList(Ref("assignment"))>>)

whereClause == seq(<<kw("where"), expression>>)

whereOrCurrent ==
  seq(<<kw("where"),
        Look({<<Word("current"), Word("of")>>}, seq(<<kwseq(<<"current", "of">>), nameWord>>), expression)>>)

-------------------------------------------------------------------------------
(* Clauses of a query.                                                     *)

\* A group in parentheses or an expression; one that opens with a parenthesis is
\* taken for a group.
parseGroupingElement ==
  Look(isPunc("("),
       seq(<<punc("("), Look(isPunc(")"), Nothing, commaList(expression)), punc(")")>>),
       bareExpression)

parseGroupingList == parens(<<parseGroupingElement, While(isPunc(","), seq(<<punc(","), parseGroupingElement>>))>>)

groupByItem ==
  Switch(<<Case({<<Punc("("), Punc(")")>>}, seq(<<punc("("), punc(")")>>)),
           Case({<<Word("rollup"), Punc("(")>>, <<Word("cube"), Punc("(")>>},
                seq(<<kwIn({"rollup", "cube"}), parseGroupingList>>)),
           Case({<<Word("grouping"), Word("sets")>>}, seq(<<kwseq(<<"grouping", "sets">>), parseGroupingList>>))>>,
         expression)

groupByClause ==
  seq(<<kw("group"), kw("by"), optional(oneOf(<<kw("distinct"), kw("all")>>)),
        sepBy(custom(atomFirst \cup prefixOps, Ref("groupByItem")), punc(","))>>)

havingClause == seq(<<kw("having"), expression>>)

namedWindowDef == seq(<<nameWord, kw("as"), Ref("overSpecRule")>>)

windowClause == seq(<<kw("window"), commaList(namedWindowDef)>>)

sortOrder == oneOf(<<kw("asc"), kw("desc"), seq(<<kw("using"), sortOperator>>)>>)

orderItem ==
  seq(<<expression, optional(sortOrder), part(<<kw("nulls"), oneOf(<<kw("first"), kw("last")>>)>>)>>)

orderByItems == seq(<<kw("order"), kw("by"), commaList(orderItem)>>)

\* One lock after another, or FOR READ ONLY alone.
lock ==
  seq(<<kw("for"),
        Switch(<<Case(is({"update"}), kw("update")), Case(is({"share"}), kw("share")),
                 Case(is({"no"}), kwseq(<<"no", "key", "update">>)), Case(is({"key"}), kwseq(<<"key", "share">>))>>,
               Croak),
        part(<<kw("of"), commaList(qualName)>>),
        Switch(<<Case(is({"nowait"}), kw("nowait")), Case(is({"skip"}), kwseq(<<"skip", "locked">>))>>, Nothing)>>)

lockingClauseSlip ==
  Look(is({"for"}), kwseq(<<"for", "read", "only">>), seq(<<lock, While(is({"for"}), lock)>>))

lockingClause ==
  Look({<<Word("for"), Word("read")>>}, kwseq(<<"for", "read", "only">>), seq(<<lock, While(is({"for"}), lock)>>))

parseLimitClause ==
  Look(is({"limit"}), seq(<<kw("limit"), Look(is({"all"}), kw("all"), expression)>>),
       seq(<<kw("fetch"), kwIn({"first", "next"}),
             Look(is({"row", "rows"}), Nothing, expression), kwIn({"row", "rows"}),
             Look(is({"with"}), kwseq(<<"with", "ties">>), kw("only"))>>))

offsetClause == seq(<<kw("offset"), expression, eatIn({"row", "rows"})>>)

\* LIMIT and OFFSET come in either order, once each; FOR before or after them.
limits(after) ==
  Switch(<<Case(is({"offset"}),
                seq(<<offsetClause, Look(is({"limit", "fetch"}), Ref("parseLimitClause"), Nothing), after>>)),
           Case(is({"limit", "fetch"}),
                seq(<<Ref("parseLimitClause"), Look(is({"offset"}), offsetClause, Nothing), after>>))>>,
         Nothing)

parseQueryTail ==
  seq(<<Look(is({"order"}), orderByClause, Nothing),
        Look(is({"for"}), seq(<<Ref("lockingClause"), limits(Nothing)>>),
             limits(Look(is({"for"}), Ref("lockingClause"), Nothing)))>>)

selectItem == oneOf(<<op("*"), seq(<<expression, asAlias>>)>>)

returningClause == seq(<<kw("returning"), commaList(Ref("selectItem"))>>)

-------------------------------------------------------------------------------
(* FROM.                                                                   *)

parseTableSample ==
  seq(<<kw("tablesample"), nameWord, parens(<<commaList(expression)>>), part(<<kw("repeatable"), parenExpr>>)>>)

aliasColumns == commaList(nameWord)

parseAliasClause == aliased(optParenList(aliasColumns))

columnDefinition == seq(<<nameWord, typeRef, part(<<kw("collate"), qualName>>)>>)

parseColumnDefinitions == parens(<<commaList(columnDefinition)>>)

atBareColumnDefinitions == {<<Word("as"), Punc("(")>>}

\* A list after the name of a function is of names where the first is followed by
\* a comma or the end, of columns with types otherwise.
parseFuncAliasClause ==
  LET columns == {<<Punc("("), NameAhead, mark>> : mark \in {Punc(","), Punc(")")}}
      after == Switch(<<Case(columns, parens(<<aliasColumns>>)), Case(isPunc("("), parseColumnDefinitions)>>, Nothing)
  IN  Switch(<<Case(atBareColumnDefinitions, seq(<<kw("as"), parseColumnDefinitions>>)),
               Case(is({"as"}), seq(<<kw("as"), nameWord, after>>)),
               Case(aliasAhead, seq(<<nameWord, after>>))>>, Nothing)

tableTail == seq(<<parseAliasClause, Look(is({"tablesample"}), parseTableSample, Nothing)>>)

parseFromCallArgs == parseCallArgList

eatOrdinality == Look(isWordAhead("with", "ordinality"), kwseq(<<"with", "ordinality">>), Nothing)

startsRowsFrom == {<<Word("rows"), Word("from"), Punc("(")>>}

parseFromCall == seq(<<qualName, parseFromCallArgs>>)

parseRowsFrom ==
  seq(<<kwseq(<<"rows", "from">>),
        parens(<<commaList(seq(<<parseFromCall, part(<<kw("as"), parseColumnDefinitions>>)>>))>>),
        eatOrdinality, Ref("parseFuncAliasClause")>>)

parseParenSubquery == seq(<<parenQuery, parseAliasClause>>)

\* A parenthesis opens a query or a join.
parenFromItem ==
  Switch(<<Case(isSubqueryParen, parseParenSubquery),
           Case({<<Punc("("), NameAhead>>, <<Punc("("), Word("lateral")>>, <<Punc("("), Word("only")>>},
                seq(<<parens(<<Ref("someTable"), Ref("join")>>), parseAliasClause>>))>>,
         Croak)

fromFunctions ==
  <<Case(startsRowsFrom, Ref("parseRowsFrom")),
    Case(startsXmlCall("xmltable"), Ref("parseXmlTable")),
    Case({<<Word("json_table"), Punc("(")>>},
         seq(<<kw("json_table"), Ref("parseJsonTableCall"), parseAliasClause>>))>>

calledTail == seq(<<parseFromCallArgs, eatOrdinality, Ref("parseFuncAliasClause")>>)

tableRef ==
  Switch(<<Case(is({"lateral"}),
                seq(<<kw("lateral"),
                      Look(isPunc("("), parseParenSubquery,
                           Switch(fromFunctions, seq(<<qualName, calledTail>>)))>>)),
           Case(is({"only"}),
                seq(<<kw("only"), Look(isPunc("("), parens(<<qualName>>), qualName), tableTail>>)),
           Case(isPunc("("), Ref("parenFromItem"))>>
           \o fromFunctions,
         seq(<<qualName, Look(isPunc("("), calledTail, seq(<<optional(op("*")), tableTail>>))>>))

\* A table inside another rule.
someTable ==
  custom({Punc("(")} \cup nameWord.first,
         seq(<<nameWord, Ends(Ahead({Punc("."), Punc("("), Entry("op", "*"), Word("as"), Word("tablesample")}) \cup aliasAhead)>>))

JOIN_LEADS == {"join", "inner", "left", "right", "full", "cross", "natural"}

outerJoin == seq(<<kwIn({"left", "right", "full"}), eat("outer")>>)

\* What a join takes on its right may be joined itself before its condition comes.
innerJoin == seq(<<kw("join"), Ref("someTable"), Ends(is(JOIN_LEADS)), kw("on"), expression>>)

join ==
  LET qualified == seq(<<While(is(JOIN_LEADS), Ref("innerJoin")),
                         Look(is({"on"}), seq(<<kw("on"), expression>>),
                              seq(<<kw("using"), columnList, part(<<kw("as"), nameWord>>)>>))>>)
  IN  Switch(<<Case(is({"natural"}),
                    seq(<<kw("natural"), Switch(<<Case(is({"inner"}), kw("inner")),
                                                  Case(is({"left", "right", "full"}), outerJoin)>>, Nothing),
                          kw("join"), Ref("someTable")>>)),
               Case(is({"cross"}), seq(<<kwseq(<<"cross", "join">>), Ref("someTable")>>)),
               Case(is({"inner"}), seq(<<kwseq(<<"inner", "join">>), Ref("someTable"), qualified>>)),
               Case(is({"left", "right", "full"}), seq(<<outerJoin, kw("join"), Ref("someTable"), qualified>>))>>,
             seq(<<kw("join"), Ref("someTable"), qualified>>))

parseJoins == While(is(JOIN_LEADS), Ref("join"))

joinTail == seq(<<Ref("tableRef"), parseJoins>>)

\* FROM of another rule.
someFrom == commaList(seq(<<Ref("someTable"), Ends(is(JOIN_LEADS))>>))

fromClause == seq(<<kw("from"), someFrom>>)

-------------------------------------------------------------------------------
(* SELECT.                                                                 *)

TABLE_STORAGE_WORDS == {"temp", "temporary", "unlogged"}

startsIntoTarget == {NameAhead, Word("table")}

intoClause ==
  LET scoped == {<<Word(scope), Word(temp), target>> :
                   scope \in {"global", "local"}, temp \in {"temp", "temporary"}, target \in startsIntoTarget}
      stored == {<<Word(storage), target>> : storage \in TABLE_STORAGE_WORDS, target \in startsIntoTarget}
  IN  seq(<<kw("into"),
            Switch(<<Case(scoped, seq(<<kwIn({"global", "local"}), kwIn({"temp", "temporary"})>>)),
                     Case(stored, kwIn(TABLE_STORAGE_WORDS))>>, Nothing),
            eat("table"), qualName>>)

TARGET_LIST_FOLLOW_WORDS ==
  {"into", "from", "where", "group", "having", "window", "on", "returning", "with"} \cup QUERY_TAIL_WORDS

selectItems == commaList(Ref("selectItem"))

\* A select list may be empty, not after DISTINCT.
selectHead ==
  Switch(<<Case(is({"distinct"}),
                seq(<<kw("distinct"), Look(is({"on"}), seq(<<kw("on"), exprList>>), Nothing), selectItems>>)),
           Case(is({"all"}), seq(<<kw("all"), Ref("selectAll")>>))>>,
         Ref("selectAll"))

selectAll ==
  Look(Ahead({Eof, Punc(";"), Punc(")")} \cup Words(TARGET_LIST_FOLLOW_WORDS)), Nothing, selectItems)

selectCore ==
  seq(<<kw("select"), Ref("selectHead"), optional(custom({Word("into")}, Ref("intoClause"))), optional(fromClause),
        optional(whereClause), optional(groupByClause), optional(havingClause), optional(windowClause)>>)

valuesQuery == seq(<<kw("values"), commaList(exprList)>>)

tableQuery ==
  seq(<<kw("table"),
        Look(is({"only"}), seq(<<kw("only"), Look(isPunc("("), parens(<<qualName>>), qualName)>>),
             seq(<<qualName, optional(op("*"))>>))>>)

\* An operand that is any query, without its parentheses.
selectTermSlip == oneOf(<<selectCore, valuesQuery, query>>)

selectTerm ==
  oneOf(<<selectCore, valuesQuery, custom({Word("table")}, tableQuery), parenQuery>>)

\* A later operand of a set operation.
someTerm == seq(<<kw("select"), expression, Ends(selectTail)>>)

eatSetOp(words) == seq(<<kwIn(words), eatIn({"all", "distinct"})>>)

parseSetOpLevel(words, operandRule) ==
  While(is(words), seq(<<eatSetOp(words), operandRule>>))

INTERSECT_WORDS == {"intersect"}

UNION_EXCEPT_WORDS == {"union", "except"}

\* INTERSECT binds tighter.
setOpQuery ==
  LET intersects == parseSetOpLevel(INTERSECT_WORDS, Ref("someTerm"))
  IN  seq(<<Ref("selectTerm"), intersects,
            parseSetOpLevel(UNION_EXCEPT_WORDS, seq(<<Ref("someTerm"), intersects>>)),
            Ref("parseQueryTail")>>)

-------------------------------------------------------------------------------
(* WITH.                                                                   *)

cteBody ==
  dispatch(<<kwseq(<<"insert", "into", "x", "default", "values">>), Ref("deleteStmt"), query>>)

cteMaterialized == oneOf(<<kw("materialized"), kwseq(<<"not", "materialized">>)>>)

cteSearch ==
  seq(<<kw("search"), oneOf(<<kw("depth"), kw("breadth")>>), kw("first"), kw("by"), commaList(nameWord),
        kw("set"), nameWord>>)

cycleMarkValue ==
  oneOf(<<token("number"), token("string"), token("bitstring"), token("hexstring"), kwIn({"true", "false"}), kw("null")>>)

cteCycle ==
  seq(<<kw("cycle"), commaList(nameWord), kw("set"), nameWord,
        part(<<kw("to"), cycleMarkValue, kw("default"), cycleMarkValue>>), kw("using"), nameWord>>)

cte ==
  seq(<<nameWord, optColumnList, kw("as"), optional(cteMaterialized), parens(<<Ref("cteBody")>>),
        optional(cteSearch), optional(cteCycle)>>)

withPrefix == seq(<<kw("with"), eat("recursive"), commaList(Ref("cte"))>>)

queryRule == seq(<<Look(is({"with"}), Ref("withPrefix"), Nothing), Ref("setOpQuery")>>)

-------------------------------------------------------------------------------
(* INSERT.                                                                 *)

insertValuesRow == nonEmptyList(insertValue)

valuesSource == seq(<<kw("values"), commaList(insertValuesRow)>>)

insertSource ==
  Look(is({"values"}), valuesSource,
       seq(<<Look({<<Punc("(")>>}, parenQuery, custom(Words(QUERY_WORDS), query))>>))

defaultValues == kwseq(<<"default", "values">>)

overridingClause == seq(<<kw("overriding"), oneOf(<<kw("system"), kw("user")>>), kw("value")>>)

\* A parenthesis after the table is a list of columns or, tried after it, a query.
insertRest ==
  Look(is({"default"}), defaultValues,
       seq(<<optional(attempt(insertColumnList)), optional(overridingClause), insertSource>>))

conflictConstraint == seq(<<kw("on"), kw("constraint"), nameWord>>)

conflictInference ==
  seq(<<parens(<<sepBy(custom(atomFirst \cup prefixOps, Ref("partitionKey")), punc(","))>>), optional(whereClause)>>)

onConflict ==
  seq(<<kw("on"), kw("conflict"), optional(oneOf(<<conflictInference, conflictConstraint>>)), kw("do"),
        oneOf(<<kw("nothing"), seq(<<kw("update"), setAssignments, optional(whereClause)>>)>>)>>)

insertStmt ==
  seq(<<kw("insert"), kw("into"), qualName, part(<<kw("as"), nameWord>>), Ref("insertRest"),
        optional(onConflict), optional(returningClause)>>)

-------------------------------------------------------------------------------
(* UPDATE, DELETE and MERGE.                                               *)

updateStmt ==
  seq(<<kw("update"), relationExpr, asAlias, setAssignments, optional(fromClause), optional(whereOrCurrent),
        optional(returningClause)>>)

deleteStmt ==
  seq(<<kw("delete"), kw("from"), relationExpr, asAlias, part(<<kw("using"), someFrom>>),
        optional(whereOrCurrent), optional(returningClause)>>)

mergeUpdate == seq(<<kw("update"), setAssignments>>)

mergeInsert ==
  seq(<<kw("insert"),
        Look(is({"default"}), defaultValues,
             seq(<<optional(insertColumnList), optional(overridingClause), kw("values"), insertValuesRow>>))>>)

doNothing == kwseq(<<"do", "nothing">>)

\* What a clause may do goes with what it matches.
mergeWhen ==
  LET guard == seq(<<part(<<kw("and"), expression>>), kw("then")>>)
      onMatch == seq(<<guard, oneOf(<<doNothing, mergeUpdate, kw("delete")>>)>>)
      onMiss == seq(<<guard, oneOf(<<doNothing, mergeInsert>>)>>)
  IN  seq(<<kw("when"),
            Look(is({"not"}),
                 seq(<<kwseq(<<"not", "matched">>),
                       Look(is({"by"}),
                            seq(<<kw("by"), Look(is({"source"}), seq(<<kw("source"), onMatch>>),
                                                 seq(<<kw("target"), onMiss>>))>>),
                            onMiss)>>),
                 seq(<<kw("matched"), onMatch>>))>>)

mergeStmt ==
  seq(<<kwseq(<<"merge", "into">>), relationExpr, asAlias, kw("using"), Ref("someTable"), parseJoins,
        kw("on"), expression, Ref("mergeWhen"), many(custom({Word("when")}, Ref("mergeWhen"))),
        optional(returningClause)>>)

dmlStatement ==
  seq(<<Look(is({"with"}), Ref("withPrefix"), Nothing),
        Switch(<<Case(is({"insert"}), Ref("insertStmt")), Case(is({"update"}), Ref("updateStmt")),
                 Case(is({"delete"}), Ref("deleteStmt")), Case(is({"merge"}), Ref("mergeStmt"))>>,
               Ref("setOpQuery"))>>)

QueryRules ==
  [subscriptBounds |-> custom({Punc("[")}, subscriptBounds), setTarget |-> setTarget, assignment |-> assignment,
   groupByItem |-> groupByItem, orderByClause |-> orderByItems, lockingClause |-> lockingClause,
   parseLimitClause |-> parseLimitClause, parseQueryTail |-> parseQueryTail, selectItem |-> selectItem,
   parseAliasClause |-> parseAliasClause, parseFuncAliasClause |-> parseFuncAliasClause,
   parseRowsFrom |-> parseRowsFrom, parenFromItem |-> parenFromItem, tableRef |-> tableRef,
   someTable |-> someTable, join |-> join, innerJoin |-> innerJoin, joinTail |-> joinTail, intoClause |-> intoClause,
   selectHead |-> selectHead, selectAll |-> selectAll, selectTerm |-> selectTerm, someTerm |-> someTerm,
   setOpQuery |-> setOpQuery, queryRule |-> queryRule, cteBody |-> cteBody, cte |-> cte, withPrefix |-> withPrefix,
   insertRest |-> insertRest, insertStmt |-> insertStmt, updateStmt |-> updateStmt, deleteStmt |-> deleteStmt,
   mergeStmt |-> mergeStmt, mergeWhen |-> mergeWhen, dmlStatement |-> dmlStatement]
================================================================================
