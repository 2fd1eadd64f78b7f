\* COPY of a table named copy: the lexer takes no word behind that name for a
\* keyword.
SPECIFICATION ScriptSpec
INVARIANT RowsFollowTheirCopy
CONSTANTS
  Reserved <- RESERVED
  NameTypes <- SqlNames
  Grammar <- SqlRule
  FirstOf <- SqlFirst
  Roots = {}
  MaxClauses = 2
  MaxTodo = 40
  FramedRoots = {"copyStmt"}
  Names = {"copy"}
  BodyLoop <- bodyLoop
  MaxBlocks = 3
