-------------------------------- MODULE MCSql --------------------------------
(***************************************************************************)
(* The grammar of examples/sql-lite/grammar.ts as the rules of Derivation, *)
(* and the scripts of its statements.                                      *)
(***************************************************************************)
EXTENDS Lookahead, SqlScripts

SqlRules ==
  CommonRules @@ ObjectRules @@ ExpressionRules @@ QueryRules @@ TableRules
    @@ CreateRules @@ AlterRules @@ UtilityRules @@ ScriptRules

SqlRule(name) == LET grammar == SqlRules IN grammar[name]

SqlFirst(r) == LET grammar == SqlRules IN FirstIn(grammar, r)

SqlNames == SqlNameTypes @@ DatabaseNameTypes

\* The rules whose texts three tokens ahead decide: the statements that read and write
\* data, with all their queries, and the shorter ones of those that define it.
ReadRoots ==
  {"dmlStatement", "copyStmt", "setStmt", "queryRule", "joinTail", "parseXmlTable",
   "parseJsonTableCall", "bExprRule", "parseConfigSet", "createIndexRest", "createTypeRest",
   "createDomainRest", "viewBody", "materializedViewBody", "tableConstraintBody",
   "parseTriggerBody", "alterDefaultPrivilegesRest"}

\* The script, and the rules that a statement meets only as a frontier: a deep
\* expression, a query, a table of a FROM list or a statement of a body; and those above.
SqlRoots ==
  {"script", "statementBody", "memberObject", "expressionRule"} \cup ReadRoots

\* The options of CREATE FUNCTION in any order, as the documentation has them.
OptionRoots == {"documentedFunctionOptions"}

-------------------------------------------------------------------------------
\* Three tokens ahead always settle which way the parser takes a text of these rules,
\* whatever comes before them: no clause, list or name of any length, and no nesting,
\* leads it astray. Looked at where such a text begins.
TextsArePredicted == \A root \in ReadRoots : todo = Text(root) => ReadableBy(root, 3)
================================================================================
