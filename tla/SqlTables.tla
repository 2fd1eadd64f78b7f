------------------------------- MODULE SqlTables -------------------------------
(***************************************************************************)
(* Tables, indexes, types, sequences and domains of examples/sql-lite/     *)
(* grammar.ts: CREATE and, for tables, ALTER, with the constraints that    *)
(* both have. A list of columns that recovers from errors is read here     *)
(* without one.                                                            *)
(***************************************************************************)
EXTENDS SqlQueries

-------------------------------------------------------------------------------
(* Constraints.                                                            *)

REF_ACTIONS ==
  <<kwseq(<<"no", "action">>), kw("restrict"), kw("cascade")>>

setActionTarget == oneOf(<<kw("null"), kw("default")>>)

\* ON DELETE SET ... may name columns. After both of the actions ON is no longer
\* looked for.
parseForeignKeyTail ==
  LET onDelete ==
        seq(<<kw("delete"),
              dispatch(REF_ACTIONS \o <<seq(<<kw("set"), setActionTarget, Look(isPunc("("), parseColumnNames, Nothing)>>)>>)>>)
      onUpdate == seq(<<kw("update"), dispatch(REF_ACTIONS \o <<seq(<<kw("set"), setActionTarget, Ends(isPunc("("))>>)>>)>>)
      then(other) == Look(is({"on"}), seq(<<kw("on"), other>>), Nothing)
  IN  seq(<<part(<<kw("match"), oneOf(<<kw("full"), kw("partial"), kw("simple")>>)>>),
            Look(is({"on"}),
                 seq(<<kw("on"), oneOf(<<seq(<<onDelete, then(onUpdate)>>), seq(<<onUpdate, then(onDelete)>>)>>)>>),
                 Nothing)>>)

atNot(word) == {<<Word("not"), Word(word)>>}

\* A property that a constraint of this kind cannot have is read and refused.
parseConstraintAttrs(level, type) ==
  LET timing ==
        <<Clause(atNot("deferrable") \cup is({"deferrable"}),
                 Look(is({"not"}), kwseq(<<"not", "deferrable">>), kw("deferrable")), "refused"),
          Clause(is({"initially"}), seq(<<kw("initially"), oneOf(<<kw("deferred"), kw("immediate")>>)>>), "refused")>>
      table ==
        <<Clause(atNot("valid"),
                 IF type \in {"check", "foreign"} THEN kwseq(<<"not", "valid">>) ELSE Croak, "again"),
          Clause(is({"no"}), IF type = "check" THEN kwseq(<<"no", "inherit">>) ELSE Croak, "again")>>
  IN  Clauses(IF level = "table" THEN table \o timing ELSE timing)

nullsTreatment == seq(<<kw("nulls"), eat("not"), kw("distinct")>>)

parseNullsTreatment == Look(is({"nulls"}), nullsTreatment, Nothing)

parseIndexParams(level) ==
  seq(<<IF level = "table" THEN part(<<kw("include"), parseColumnNames>>) ELSE Nothing,
        part(<<kw("with"), relationOptions>>),
        Look(is({"using"}), seq(<<kwseq(<<"using", "index", "tablespace">>), nameWord>>), Nothing)>>)

parseGeneratedWhen == Look(is({"always"}), kw("always"), kwseq(<<"by", "default">>))

indexConstraint(columns, level, type) ==
  <<seq(<<kwseq(<<"primary", "key">>), columns, Ref("indexParams" \o level), Ref("attrs" \o type)>>),
    seq(<<kw("unique"), parseNullsTreatment, columns, Ref("indexParams" \o level), Ref("attrs" \o type)>>)>>

COLUMN_CONSTRAINT_ELEMS ==
  <<kwseq(<<"not", "null">>), kw("null"), seq(<<kw("default"), bExpression>>)>>
  \o indexConstraint(Nothing, "Column", "Column")
  \o <<seq(<<kw("references"), qualName, optColumnList, Ref("parseForeignKeyTail"), Ref("attrsColumn")>>),
       seq(<<kw("check"), parenExpr, Look(is({"no"}), kwseq(<<"no", "inherit">>), Nothing)>>),
       seq(<<kw("generated"),
             Look(is({"always"}),
                  seq(<<kw("always"), kw("as"),
                        Look(is({"identity"}), Ref("identity"), seq(<<parenExpr, oneOf(<<kw("stored"), kw("virtual")>>)>>))>>),
                  seq(<<kwseq(<<"by", "default", "as">>), Ref("identity")>>))>>)>>

COLUMN_CONSTRAINTS ==
  COLUMN_CONSTRAINT_ELEMS
  \o <<seq(<<kw("collate"), qualName>>),
       seq(<<kw("constraint"), nameWord, Ref("columnConstraintElem")>>)>>

columnConstraint == Ref("columnConstraint")

TABLE_CONSTRAINTS ==
  indexConstraint(columnList, "Table", "Index")
  \o <<seq(<<kw("check"), parenExpr, Ref("attrsCheck")>>),
       seq(<<kwseq(<<"foreign", "key">>), columnList, kw("references"), qualName, optColumnList,
             Ref("parseForeignKeyTail"), Ref("attrsForeign")>>)>>

tableConstraintBody == Ref("tableConstraintBody")

exclusionElement == seq(<<expression, kw("with"), token("op")>>)

atExcludeConstraint == {<<Word("exclude"), Word("using")>>, <<Word("exclude"), Punc("(")>>}

excludeBody == Ref("excludeBody")

excludeConstraint ==
  seq(<<kw("exclude"), part(<<kw("using"), nameWord>>), parens(<<commaList(exclusionElement)>>),
        Ref("indexParamsTable"), part(<<kw("where"), parenExpr>>), Ref("attrsIndex")>>)

constraintBody == oneOf(<<tableConstraintBody, excludeBody>>)

namedConstraint == seq(<<kw("constraint"), nameWord, constraintBody>>)

tableConstraint == oneOf(<<namedConstraint, tableConstraintBody>>)

-------------------------------------------------------------------------------
(* Columns.                                                                *)

STORAGE_MODES == {"plain", "external", "extended", "main"}

parseStorageMode == oneOf(<<kw("default"), kwIn(STORAGE_MODES)>>)

parseCompressionMethod == oneOf(<<kw("default"), nameWord>>)

columnRest ==
  seq(<<typeRef, part(<<kw("storage"), parseStorageMode>>), part(<<kw("compression"), parseCompressionMethod>>),
        Look(is({"options"}), parseGenericOptions, Nothing), many(columnConstraint)>>)

columnDef == custom(nameWord.first, seq(<<nameWord, Ref("columnRest")>>))

columnOptions ==
  custom(nameWord.first,
         seq(<<nameWord, Look(is({"with"}), kwseq(<<"with", "options">>), Nothing), many(columnConstraint)>>))

\* exclude is a column, too, by the token after it.
excludeOr(rest) ==
  custom({Word("exclude")}, Look(atExcludeConstraint, excludeBody, seq(<<kw("exclude"), rest>>)))

likeProperty ==
  kwIn({"comments", "compression", "constraints", "defaults", "identity", "generated", "indexes", "statistics",
        "storage", "all"})

likeBody ==
  custom({Word("like")},
         seq(<<kw("like"), qualName,
               While(is({"including", "excluding"}), seq(<<kwIn({"including", "excluding"}), likeProperty>>))>>))

tableItem == oneOf(<<tableConstraint, likeBody, excludeOr(Ref("columnRest")), columnDef>>)

partitionItem == oneOf(<<tableConstraint, excludeOr(kwseq(<<"with", "options">>)), columnOptions>>)

-------------------------------------------------------------------------------
(* CREATE TABLE.                                                           *)

onCommitAction == oneOf(<<kwseq(<<"preserve", "rows">>), kwseq(<<"delete", "rows">>), kw("drop")>>)

storageClauses ==
  <<seq(<<kw("using"), nameWord>>),
    oneOf(<<seq(<<kw("with"), relationOptions>>), kwseq(<<"without", "oids">>)>>),
    seq(<<kwseq(<<"on", "commit">>), onCommitAction>>),
    seq(<<kw("tablespace"), nameWord>>)>>

parseStorageClauses == seq([i \in DOMAIN storageClauses |-> optional(storageClauses[i])])

PARTITION_STRATEGIES == {"range", "list", "hash"}

\* What stands without parentheses is a name or a call, with the class after it.
partitionKey ==
  LET opclass == Look({<<NameAhead>>}, qualName, Nothing)
  IN  custom(atomFirst \cup prefixOps,
             Look(isPunc("("), seq(<<parenExpr, part(<<kw("collate"), qualName>>), opclass>>),
                  seq(<<bareExpression, opclass>>)))

parsePartitionBy ==
  Look(is({"partition"}),
       seq(<<kwseq(<<"partition", "by">>), kwIn(PARTITION_STRATEGIES), parens(<<commaList(Ref("partitionKey"))>>)>>),
       Nothing)

rangeDatums == parens(<<commaList(expression)>>)

\* Here the names of the two options do not matter.
hashBound == relationOptions

parsePartitionBound ==
  Look(is({"default"}), kw("default"),
       seq(<<kwseq(<<"for", "values">>),
             oneOf(<<seq(<<kw("in"), rangeDatums>>),
                     seq(<<kw("from"), rangeDatums, kw("to"), rangeDatums>>),
                     seq(<<kw("with"), hashBound>>)>>)>>))

parseTypedItems == Look(isPunc("("), parens(<<commaList(partitionItem)>>), Nothing)

parseInherits == part(<<kw("inherits"), parens(<<commaList(qualName)>>)>>)

parseTableClauses == seq(<<parseInherits, parsePartitionBy, parseStorageClauses>>)

parseCtasQuery == seq(<<kw("as"), oneOf(<<query, Ref("executeStmt")>>), parseWithData>>)

ctasColumns == attempt(seq(<<columnList, parseStorageClauses, parseCtasQuery>>))

parsePartitionOf == seq(<<kwseq(<<"partition", "of">>), qualName, parseTypedItems, parsePartitionBound>>)

ifNotExistsTried == optional(attempt(kwseq(<<"if", "not", "exists">>)))

createTableRest ==
  seq(<<kw("table"), ifNotExistsTried, qualName,
        Switch(<<Case(UNION {First(storageClauses[i]) : i \in DOMAIN storageClauses},
                      seq(<<someOf(storageClauses), parseCtasQuery>>)),
                 Case(is({"as"}), parseCtasQuery),
                 Case(is({"partition"}), seq(<<parsePartitionOf, parsePartitionBy, parseStorageClauses>>)),
                 Case(is({"of"}), seq(<<kw("of"), qualName, parseTypedItems, parsePartitionBy, parseStorageClauses>>))>>,
               oneOf(<<ctasColumns,
                       seq(<<delimited(punc("("), punc(")"), punc(","), tableItem), parseTableClauses>>)>>))>>)

-------------------------------------------------------------------------------
(* CREATE INDEX, TYPE, SEQUENCE and DOMAIN.                                *)

nullsPosition == oneOf(<<kw("first"), kw("last")>>)

isNullsOrder == isWordAhead("nulls", "first") \cup isWordAhead("nulls", "last")

\* A name after the expression is the class of the operator, but NULLS FIRST.
indexColumn ==
  LET nulls == part(<<kw("nulls"), nullsPosition>>)
      opclass == seq(<<qualName, Look(isPunc("("), relationOptions, Nothing), eatIn({"asc", "desc"}), nulls>>)
  IN  custom(atomFirst \cup prefixOps,
             seq(<<expression,
                   Switch(<<Case(isNullsOrder, seq(<<kw("nulls"), nullsPosition>>)),
                            Case({<<NameAhead>>}, opclass)>>,
                          part(<<kwIn({"asc", "desc"}), nulls>>))>>))

indexColumns == delimited(punc("("), punc(")"), punc(","), Ref("indexColumn"))

createIndexRest ==
  seq(<<eat("unique"), kw("index"), eat("concurrently"), ifNotExistsTried, optional(attempt(nameWord)),
        kw("on"), relationExpr, part(<<kw("using"), nameWord>>), indexColumns,
        part(<<kw("include"), columnList>>), optional(nullsTreatment), part(<<kw("with"), relationOptions>>),
        part(<<kw("tablespace"), nameWord>>), part(<<kw("where"), expression>>)>>)

enumValues == delimited(punc("("), punc(")"), punc(","), token("string"))

compositeAttrs == delimited(punc("("), punc(")"), punc(","), seq(<<nameWord, typeRef>>))

parseRangeOptions == parens(<<commaList(seq(<<nameWord, op("="), qualName>>))>>)

createTypeRest ==
  seq(<<kw("type"), qualName,
        Switch(<<Case(isPunc("("), Ref("parseDefinition")), Case(Ahead({Eof, Punc(";")}), Nothing)>>,
               seq(<<kw("as"),
                     Switch(<<Case(is({"enum"}), seq(<<kw("enum"), enumValues>>)),
                              Case(is({"range"}), seq(<<kw("range"), parseRangeOptions>>))>>,
                            compositeAttrs)>>))>>)

parseRestartValue ==
  seq(<<kw("restart"),
        Switch(<<Case(is({"with"}), seq(<<kw("with"), expression>>)),
                 Case(Ahead({OfType("number")} \cup Sign),
                      seq(<<optional(tokenIn(Sign)), token("number"), Ends(loopAt(0))>>))>>, Nothing)>>)

sequenceOption(words, rest) == Clause(is(words), seq(<<kwIn(words), rest>>), "again")

noSequenceOption(word) == Clause(isWordAhead("no", word), kwseq(<<"no", word>>), "again")

SEQUENCE_OPTIONS ==
  <<sequenceOption({"as"}, typeRef),
    sequenceOption({"increment"}, seq(<<eat("by"), expression>>)),
    sequenceOption({"minvalue", "maxvalue", "cache"}, expression),
    sequenceOption({"start"}, seq(<<eat("with"), expression>>)),
    Clause(is({"restart"}), parseRestartValue, "again"),
    Clause(is({"cycle"}), kw("cycle"), "again"),
    noSequenceOption("minvalue"), noSequenceOption("maxvalue"), noSequenceOption("cycle"),
    Clause(is({"owned"}), seq(<<kwseq(<<"owned", "by">>), oneOf(<<kw("none"), qualName>>)>>), "again")>>

sequenceName == Clause(is({"sequence"}), seq(<<kwseq(<<"sequence", "name">>), qualName>>), "again")

parseSequenceOptions == Clauses(SEQUENCE_OPTIONS)

parseIdentityOptions == Look(isPunc("("), parens(<<Clauses(<<sequenceName>> \o SEQUENCE_OPTIONS)>>), Nothing)

identity == seq(<<kw("identity"), parseIdentityOptions>>)

createSequenceRest == seq(<<kw("sequence"), ifNotExistsTried, qualName, Ref("parseSequenceOptions")>>)

domainChecks == <<kwseq(<<"not", "null">>), kw("null"), seq(<<kw("check"), parenExpr>>)>>

parseDomainConstraints ==
  Clauses(<<Clause(is({"constraint"}), seq(<<kw("constraint"), nameWord, oneOf(domainChecks)>>), "again"),
            Clause(is({"not", "null", "check"}), oneOf(domainChecks), "again"),
            Clause(is({"default"}), seq(<<kw("default"), bExpression>>), "again"),
            Clause(is({"collate"}), seq(<<kw("collate"), qualName>>), "again")>>)

createDomainRest == seq(<<kw("domain"), qualName, eat("as"), typeRef, parseDomainConstraints>>)

-------------------------------------------------------------------------------
(* ALTER TABLE.                                                            *)

parseAddColumn == seq(<<parseIfNotExists, columnDef>>)

parseOwnerTo == seq(<<kwseq(<<"owner", "to">>), parseRoleSpec>>)

parseDropConstraint == seq(<<parseIfExists, nameWord, dropBehavior>>)

parseValidateConstraint == seq(<<kwseq(<<"validate", "constraint">>), nameWord>>)

parseTriggerTarget == seq(<<kw("trigger"), oneOf(<<kw("all"), kw("user"), nameWord>>)>>)

parseRowSecurity == kwseq(<<"row", "level", "security">>)

parseSetDataType == seq(<<typeRef, part(<<kw("collate"), qualName>>), part(<<kw("using"), expression>>)>>)

parseTrailingIfExists == Look(is({"if"}), kwseq(<<"if", "exists">>), Nothing)

isIdentitySetWord ==
  Words({"generated", "sequence", "as", "increment", "minvalue", "maxvalue", "start", "restart", "cache",
         "cycle", "no", "owned"})

\* Options that a sequence of its own may have and a column may not are refused.
identityOption ==
  Switch(<<Case(is({"generated"}), seq(<<kw("generated"), parseGeneratedWhen>>)),
           Case(is({"as", "restart", "owned", "sequence"}), Croak),
           Case(is({"increment"}), seq(<<kw("increment"), eat("by"), expression>>)),
           Case(is({"minvalue", "maxvalue", "cache"}), seq(<<kwIn({"minvalue", "maxvalue", "cache"}), expression>>)),
           Case(is({"start"}), seq(<<kw("start"), eat("with"), expression>>)),
           Case(is({"cycle"}), kw("cycle"))>>,
         seq(<<kw("no"), kwIn({"minvalue", "maxvalue", "cycle"})>>))

setIdentity == seq(<<kw("set"), identityOption>>)

\* The word that led here is the first of the actions.
parseAlterIdentity(first) ==
  seq(<<first, While(is({"restart", "set"}), Look(is({"restart"}), parseRestartValue, setIdentity))>>)

parseResetOptions == seq(<<kw("reset"), parens(<<commaList(seq(<<anyName, part(<<punc("."), anyName>>)>>))>>)>>)

ALTER_COLUMN_ACTIONS ==
  <<seq(<<kw("type"), parseSetDataType>>),
    custom({Word("set")},
           Look({<<Word("set"), word>> : word \in isIdentitySetWord}, parseAlterIdentity(setIdentity),
                seq(<<kw("set"),
                      oneOf(<<relationOptions, seq(<<kw("default"), expression>>), kwseq(<<"not", "null">>),
                              seq(<<kw("data"), kw("type"), parseSetDataType>>),
                              seq(<<kw("expression"), kw("as"), parenExpr>>),
                              seq(<<kw("statistics"), oneOf(<<kw("default"), custom(Sign \cup INT.first, parseSignedInt)>>)>>),
                              seq(<<kw("storage"), parseStorageMode>>),
                              seq(<<kw("compression"), parseCompressionMethod>>)>>)>>))),
    parseResetOptions,
    seq(<<kw("drop"),
          oneOf(<<kw("default"), kwseq(<<"not", "null">>),
                  seq(<<kwIn({"expression", "identity"}), parseTrailingIfExists>>)>>)>>),
    seq(<<kwseq(<<"add", "generated">>), parseGeneratedWhen, kw("as"), identity>>),
    custom({Word("restart")}, parseAlterIdentity(parseRestartValue)),
    parseAlterGenericOptions>>

addAction ==
  seq(<<kw("add"),
        Switch(<<Case(is({"column"}), seq(<<kw("column"), parseAddColumn>>)),
                 Case(is({"constraint"}), namedConstraint),
                 Case(is({"primary", "unique", "check", "foreign"}), tableConstraintBody),
                 Case(atExcludeConstraint, excludeBody)>>,
               parseAddColumn)>>)

dropAction ==
  seq(<<kw("drop"),
        Look(is({"constraint"}), seq(<<kw("constraint"), parseDropConstraint>>),
             seq(<<eat("column"), parseIfExists, nameWord, dropBehavior>>))>>)

alterColumn ==
  seq(<<kw("alter"),
        Look(is({"constraint"}), seq(<<kw("constraint"), nameWord, Ref("attrsIndex")>>),
             seq(<<eat("column"), nameWord, Ref("alterColumnAction")>>))>>)

renameAction ==
  seq(<<kw("rename"),
        Switch(<<Case(is({"to"}), seq(<<kw("to"), nameWord>>)),
                 Case(is({"constraint"}), seq(<<kw("constraint"), nameWord, kw("to"), nameWord>>))>>,
               seq(<<eat("column"), nameWord, kw("to"), nameWord>>))>>)

replicaIdentity ==
  seq(<<kwseq(<<"replica", "identity">>),
        oneOf(<<kw("full"), kw("nothing"), seq(<<kwseq(<<"using", "index">>), nameWord>>), kw("default")>>)>>)

setAction ==
  seq(<<kw("set"),
        oneOf(<<relationOptions, seq(<<kw("tablespace"), nameWord>>), kw("logged"), kw("unlogged"),
                seq(<<kwseq(<<"access", "method">>), oneOf(<<kw("default"), nameWord>>)>>),
                seq(<<kw("without"), oneOf(<<kw("oids"), kw("cluster")>>)>>)>>)>>)

enableAction ==
  seq(<<kw("enable"),
        oneOf(<<seq(<<kwIn({"replica", "always"}), kwIn({"rule", "trigger"}), nameWord>>),
                seq(<<kw("rule"), nameWord>>), parseRowSecurity, parseTriggerTarget>>)>>)

disableAction ==
  seq(<<kw("disable"), oneOf(<<seq(<<kw("rule"), nameWord>>), parseRowSecurity, parseTriggerTarget>>)>>)

ALTER_ACTIONS ==
  <<addAction, dropAction, alterColumn, parseOwnerTo, replicaIdentity, setAction, parseResetOptions,
    parseValidateConstraint, enableAction, disableAction, seq(<<kw("force"), parseRowSecurity>>),
    seq(<<kw("no"), oneOf(<<seq(<<kw("force"), parseRowSecurity>>), seq(<<kw("inherit"), qualName>>)>>)>>),
    seq(<<kw("inherit"), qualName>>), seq(<<kw("of"), qualName>>), kwseq(<<"not", "of">>),
    seq(<<kwseq(<<"cluster", "on">>), nameWord>>), parseAlterGenericOptions>>

parseTo == seq(<<kw("to"), nameWord>>)

parseRenameTo == seq(<<kw("rename"), parseTo>>)

parseSetSchema == seq(<<kw("schema"), nameWord>>)

parseSetSchemaAction == seq(<<kw("set"), parseSetSchema>>)

\* The actions that stand alone; a comma goes on after any other.
SOLO_ALTER_ACTIONS ==
  <<Case(is({"rename"}), renameAction),
    Case(isWordAhead("set", "schema"), parseSetSchemaAction),
    Case(is({"attach"}), seq(<<kwseq(<<"attach", "partition">>), qualName, parsePartitionBound>>)),
    Case(is({"detach"}), seq(<<kwseq(<<"detach", "partition">>), qualName, eatIn({"concurrently", "finalize"})>>))>>

parseActionList(solo, action) == Switch(solo, seq(<<action, While(isPunc(","), seq(<<punc(","), action>>))>>))

alterAllInTablespaceRest ==
  seq(<<kwseq(<<"all", "in", "tablespace">>), nameWord,
        Look(is({"owned"}), seq(<<kwseq(<<"owned", "by">>), commaList(parseRoleSpec)>>), Nothing),
        kwseq(<<"set", "tablespace">>), nameWord, eat("nowait")>>)

alterTableRest ==
  seq(<<kw("table"),
        Look(is({"all"}), Ref("alterAllInTablespaceRest"),
             seq(<<parseIfExists, relationExpr, parseActionList(SOLO_ALTER_ACTIONS, Ref("alterAction"))>>))>>)

TableRules ==
  [partitionKey |-> partitionKey, indexColumn |-> indexColumn, columnRest |-> columnRest,
   parseForeignKeyTail |-> parseForeignKeyTail, identity |-> identity,
   indexParamsColumn |-> parseIndexParams("column"), indexParamsTable |-> parseIndexParams("table"),
   attrsColumn |-> parseConstraintAttrs("column", "index"), attrsIndex |-> parseConstraintAttrs("table", "index"),
   attrsCheck |-> parseConstraintAttrs("table", "check"), attrsForeign |-> parseConstraintAttrs("table", "foreign"),
   columnConstraintElem |-> dispatch(COLUMN_CONSTRAINT_ELEMS), columnConstraint |-> dispatch(COLUMN_CONSTRAINTS),
   tableConstraintBody |-> dispatch(TABLE_CONSTRAINTS), excludeBody |-> excludeConstraint,
   createTableRest |-> createTableRest, createIndexRest |-> createIndexRest, createTypeRest |-> createTypeRest,
   createSequenceRest |-> createSequenceRest, parseSequenceOptions |-> parseSequenceOptions,
   createDomainRest |-> createDomainRest, alterColumnAction |-> dispatch(ALTER_COLUMN_ACTIONS),
   alterAction |-> dispatch(ALTER_ACTIONS), alterAllInTablespaceRest |-> alterAllInTablespaceRest,
   alterTableRest |-> alterTableRest]
================================================================================
