------------------------------- MODULE SqlAlter -------------------------------
(***************************************************************************)
(* ALTER of examples/sql-lite/grammar.ts but for ALTER TABLE, which is in  *)
(* SqlTables: what each kind of object can be changed to, and the choice   *)
(* among the kinds.                                                        *)
(***************************************************************************)
EXTENDS SqlCreate

-------------------------------------------------------------------------------
(* Schemas, domains, types, indexes, views and sequences.                  *)

SCHEMA_ACTIONS == dispatch(<<parseRenameTo, parseOwnerTo>>)

notNull == kwseq(<<"not", "null">>)

DOMAIN_ACTIONS ==
  dispatch(
    <<seq(<<kw("set"), oneOf(<<seq(<<kw("default"), expression>>), notNull, parseSetSchema>>)>>),
      seq(<<kw("drop"), oneOf(<<kw("default"), notNull, seq(<<kw("constraint"), parseDropConstraint>>)>>)>>),
      seq(<<kw("add"), part(<<kw("constraint"), nameWord>>), kw("check"), parenExpr,
            Look(is({"not"}), kwseq(<<"not", "valid">>), Nothing)>>),
      seq(<<kw("rename"), Look(is({"constraint"}), seq(<<kw("constraint"), nameWord, kw("to"), nameWord>>), parseTo)>>),
      parseOwnerTo, parseValidateConstraint>>)

TYPE_ACTIONS ==
  dispatch(
    <<seq(<<kwseq(<<"add", "value">>), Look(is({"if"}), kwseq(<<"if", "not", "exists">>), Nothing), strValue,
            part(<<kwIn({"before", "after"}), strValue>>)>>),
      seq(<<kw("rename"), Look(is({"value"}), seq(<<kw("value"), strValue, kw("to"), strValue>>), parseTo)>>),
      parseOwnerTo, parseSetSchemaAction>>)

parseSetTablespace == seq(<<kw("tablespace"), nameWord>>)

INDEX_ACTIONS ==
  dispatch(
    <<seq(<<kw("alter"), eat("column"), INT, kwseq(<<"set", "statistics">>),
            Look(is({"default"}), kw("default"), parseSignedInt)>>),
      seq(<<kw("set"), Look(isPunc("("), relationOptions, parseSetTablespace)>>),
      parseResetOptions>>)

SOLO_INDEX_ACTIONS ==
  <<Case(is({"rename"}), parseRenameTo),
    Case(is({"attach"}), seq(<<kwseq(<<"attach", "partition">>), qualName>>))>>

alterIndexRest ==
  seq(<<kw("index"),
        Look(is({"all"}), Ref("alterAllInTablespaceRest"),
             seq(<<parseIfExists, qualName, parseActionList(SOLO_INDEX_ACTIONS, INDEX_ACTIONS)>>))>>)

MATERIALIZED_VIEW_ACTIONS ==
  <<parseOwnerTo, seq(<<kw("set"), Look(isPunc("("), relationOptions, parseSetTablespace)>>), parseResetOptions>>

VIEW_ACTIONS ==
  <<parseOwnerTo, seq(<<kw("set"), relationOptions>>), parseResetOptions,
    seq(<<kw("alter"), eat("column"), nameWord,
          oneOf(<<seq(<<kwseq(<<"set", "default">>), expression>>), kwseq(<<"drop", "default">>)>>)>>)>>

\* TO is looked for before a column.
renameViewAction ==
  seq(<<kw("rename"), Look(is({"to"}), seq(<<kw("to"), nameWord>>), seq(<<eat("column"), nameWord, kw("to"), nameWord>>))>>)

SOLO_VIEW_ACTIONS ==
  <<Case(is({"rename"}), renameViewAction), Case(isWordAhead("set", "schema"), parseSetSchemaAction)>>

alterViewRest(actions) == seq(<<parseIfExists, qualName, parseActionList(SOLO_VIEW_ACTIONS, dispatch(actions))>>)

alterMaterializedView ==
  seq(<<kwseq(<<"materialized", "view">>),
        Look(is({"all"}), Ref("alterAllInTablespaceRest"), alterViewRest(MATERIALIZED_VIEW_ACTIONS))>>)

\* At least one option; SET is not one of them.
alterSequenceRest ==
  seq(<<kw("sequence"), parseIfExists, qualName,
        oneOf(<<parseRenameTo, parseOwnerTo, parseSetSchemaAction,
                custom({pattern[1] : pattern \in UNION {SEQUENCE_OPTIONS[i].patterns : i \in DOMAIN SEQUENCE_OPTIONS}},
                       Ref("someSequenceOptions"))>>)>>)

\* One clause, and any more.
someClauses(clauses) ==
  seq(<<Switch([i \in DOMAIN clauses |-> Case(clauses[i].patterns, clauses[i].rule)], Croak), Clauses(clauses)>>)

-------------------------------------------------------------------------------
(* Functions, aggregates, extensions.                                      *)

\* NOT after COST or ROWS goes on with their expression: see parseFunctionOptions.
ALTER_FUNCTION_OPTIONS == optionsOf(SHARED_OPTIONS \o <<"returnsNull", "notLeakproof">>)

costOptions == seq(<<FUNCTION_OPTIONS.cost.rule, Clauses(optionsOf(SHARED_OPTIONS \o <<"returnsNull">>))>>)

FUNCTION_ACTIONS ==
  Switch(<<Case(is({"rename"}), parseRenameTo), Case(is({"owner"}), parseOwnerTo),
           Case(isNameAfter(<<"set", "schema">>), parseSetSchemaAction),
           Case(is({"cost", "rows"}), costOptions)>>,
         someClauses(ALTER_FUNCTION_OPTIONS))

AGGREGATE_ACTIONS == dispatch(<<parseRenameTo, parseOwnerTo, parseSetSchemaAction>>)

EXTENSION_ACTIONS ==
  dispatch(<<seq(<<kw("add"), Ref("memberObject")>>), seq(<<kw("drop"), Ref("memberObject")>>), parseSetSchemaAction,
             seq(<<kw("update"), part(<<kw("to"), parseWordOrString>>)>>)>>)

ALTER_OBJECT_ACTIONS == [rename |-> parseRenameTo, owner |-> parseOwnerTo, set |-> parseSetSchemaAction]

alterAction(kind) ==
  LET verbs == SelectSeq(<<"rename", "owner", "set">>, LAMBDA verb : verb \in kind.alter)
  IN  oneOf([i \in DOMAIN verbs |-> ALTER_OBJECT_ACTIONS[verbs[i]]])

alterObjectRest ==
  objectRef(ALTER_OBJECTS, [i \in DOMAIN ALTER_OBJECTS |-> alterAction(ALTER_OBJECTS[i])])

-------------------------------------------------------------------------------
(* Roles, databases, tablespaces, policies, publications, subscriptions.   *)

parseAlterConfig ==
  <<seq(<<kw("set"), Ref("parseConfigSet")>>), seq(<<kw("reset"), parseConfigTarget>>)>>

roleOfDatabase == seq(<<kw("in"), kw("database"), nameWord, oneOf(parseAlterConfig)>>)

\* ALL and IN DATABASE have parameters only.
alterRoleRest(lead) ==
  seq(<<kw(lead),
        Look(is({"all"}), seq(<<kw("all"), oneOf(<<roleOfDatabase>> \o parseAlterConfig)>>),
             seq(<<parseRoleSpec,
                   Switch(<<Case(is({"in"}), roleOfDatabase),
                            Case(is({"set", "reset"}), oneOf(parseAlterConfig)),
                            Case(is({"rename"}), parseRenameTo)>>,
                          seq(<<eat("with"), Ref("alterRoleOptions")>>))>>))>>)

renameOwner == <<Case(is({"rename"}), parseRenameTo), Case(is({"owner"}), parseOwnerTo)>>

\* owner is an option of a database, too, and tablespace a parameter.
alterDatabaseRest ==
  LET marks == {Entry("op", "="), Word("to"), Word("from")}
  IN  seq(<<kw("database"), nameWord,
            Switch(<<Case(is({"rename"}), parseRenameTo), Case(isWordAhead("owner", "to"), parseOwnerTo),
                     Case({<<Word("set"), Word("tablespace"), mark>> : mark \in marks},
                          seq(<<kwseq(<<"set", "tablespace">>), assignedValue>>)),
                     Case(isWordAhead("set", "tablespace"), seq(<<kw("set"), parseSetTablespace>>)),
                     Case(is({"set", "reset"}), oneOf(parseAlterConfig)),
                     Case(is({"refresh"}), kwseq(<<"refresh", "collation", "version">>))>>,
                   seq(<<eat("with"), databaseOptions>>))>>)

alterTablespaceRest ==
  seq(<<kw("tablespace"), nameWord,
        Switch(renameOwner \o <<Case(is({"set"}), seq(<<kw("set"), relationOptions>>)),
                                Case(is({"reset"}), parseResetOptions)>>, Croak)>>)

alterPolicyRest ==
  LET head == seq(<<nameWord, kw("on"), qualName>>)
  IN  seq(<<kw("policy"),
            Look(isWordAhead("if", "exists"), seq(<<kwseq(<<"if", "exists">>), head, parseRenameTo>>),
                 seq(<<head, Look(is({"rename"}), parseRenameTo, optionals(parsePolicyClauses))>>))>>)

PUBLICATION_ACTIONS ==
  dispatch(<<seq(<<kwIn({"add", "drop"}), parsePublicationObjects>>),
             seq(<<kw("set"), Look(isPunc("("), relationOptions, parsePublicationObjects)>>),
             parseRenameTo, parseOwnerTo>>)

SUBSCRIPTION_ACTIONS ==
  dispatch(<<seq(<<kw("connection"), token("string")>>),
             seq(<<kw("set"), Look(isPunc("("), relationOptions, seq(<<kw("publication"), publicationList>>))>>),
             seq(<<kwIn({"add", "drop"}), kw("publication"), publicationList>>),
             seq(<<kwseq(<<"refresh", "publication">>), parseOptDefinition>>),
             kw("enable"), kw("disable"), seq(<<kw("skip"), relationOptions>>), parseRenameTo, parseOwnerTo>>)

-------------------------------------------------------------------------------
(* Foreign objects.                                                        *)

\* Functions, options, or both.
alterForeignDataWrapperRest ==
  seq(<<kwseq(<<"foreign", "data", "wrapper">>), nameWord,
        Switch(renameOwner \o <<Case(is({"options"}), parseAlterGenericOptions)>>,
               seq(<<someClauses(parseFdwFunctions), Look(is({"options"}), parseAlterGenericOptions, Nothing)>>))>>)

alterServerRest ==
  seq(<<kw("server"), nameWord,
        Switch(renameOwner \o
                 <<Case(is({"version"}),
                        seq(<<serverVersion, Look(is({"options"}), parseAlterGenericOptions, Nothing)>>))>>,
               parseAlterGenericOptions)>>)

alterUserMappingRest == seq(<<kwseq(<<"user", "mapping">>), parseUserMappingTarget, parseAlterGenericOptions>>)

\* As ALTER TABLE, but a partition is not attached, nor a constraint renamed.
FOREIGN_TABLE_ACTIONS ==
  <<Case(isWordAhead("rename", "constraint"), Croak), Case(is({"rename"}), renameViewAction),
    Case(isWordAhead("set", "schema"), parseSetSchemaAction)>>

alterForeignTableRest ==
  seq(<<kwseq(<<"foreign", "table">>), parseIfExists, relationExpr,
        parseActionList(FOREIGN_TABLE_ACTIONS, Ref("alterAction"))>>)

-------------------------------------------------------------------------------
(* ALTER.                                                                  *)

ALTER_TARGETS ==
  <<Ref("alterTableRest"), seq(<<kw("schema"), nameWord, SCHEMA_ACTIONS>>),
    seq(<<kw("domain"), qualName, DOMAIN_ACTIONS>>), seq(<<kw("type"), qualName, TYPE_ACTIONS>>), alterIndexRest,
    seq(<<kw("function"), routineRef, Ref("functionAction")>>), seq(<<kw("aggregate"), aggregateRef, AGGREGATE_ACTIONS>>),
    seq(<<kw("view"), alterViewRest(VIEW_ACTIONS)>>), alterMaterializedView, alterSequenceRest,
    seq(<<kw("extension"), nameWord, EXTENSION_ACTIONS>>), Ref("alterDefaultPrivilegesRest"), alterRoleRest("role"),
    custom({Word("user")}, Look(isUserMappingAhead({"for"}), alterUserMappingRest, alterRoleRest("user"))),
    alterDatabaseRest, alterTablespaceRest, alterPolicyRest,
    seq(<<kw("publication"), nameWord, PUBLICATION_ACTIONS>>), seq(<<kw("subscription"), nameWord, SUBSCRIPTION_ACTIONS>>),
    custom({Word("foreign")},
           Look(isWordAhead("foreign", "table"), alterForeignTableRest, alterForeignDataWrapperRest)),
    alterServerRest,
    custom({Word(ALTER_OBJECTS[i].words[1]) : i \in DOMAIN ALTER_OBJECTS}, Ref("alterObjectRest"))>>

alterStmt == seq(<<kw("alter"), dispatch(ALTER_TARGETS)>>)

AlterRules ==
  [someSequenceOptions |-> someClauses(SEQUENCE_OPTIONS), functionAction |-> FUNCTION_ACTIONS,
   alterRoleOptions |-> Clauses(parseRoleOption(TRUE)), alterObjectRest |-> alterObjectRest, alterStmt |-> alterStmt]
================================================================================
