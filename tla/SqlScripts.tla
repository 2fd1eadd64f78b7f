------------------------------ MODULE SqlScripts ------------------------------
(***************************************************************************)
(* The statements of examples/sql-lite/grammar.ts whose words the framing  *)
(* of a script goes by: COPY, and CREATE FUNCTION or PROCEDURE.            *)
(***************************************************************************)
EXTENDS SqlAlter, SqlUtility

\* The condition of COPY FROM, with the operator that has the word FROM.
copyCondition == seq(<<Ref("someAtom"), Look(is({"is"}), isTail, Nothing), Ends(loopAt(0))>>)

createRoutine ==
  seq(<<kw("create"), part(<<kw("or"), kw("replace")>>),
        oneOf(<<seq(<<kw("function"), Ref("parseFunctionBody")>>), seq(<<kw("procedure"), parseProcedureBody>>)>>)>>)

ScriptRules == [copyCondition |-> copyCondition, copyStmt |-> copyStmt, createRoutine |-> createRoutine]
================================================================================
