\* Every text of the SQL grammar, two clauses of each loop: the parser reads it
\* as it was derived.
SPECIFICATION ScriptSpec
INVARIANTS
  BranchIsTaken
  NothingIsSwallowed
  ChoicesAreDisjoint
  BodiesStayWhole
  RowsFollowTheirCopy
  SplitsAlike
  FramesAlike
  RowsAreSplit
  TextsArePredicted
PROPERTY Advances
CONSTANTS
  Reserved <- RESERVED
  NameTypes <- SqlNames
  Grammar <- SqlRule
  FirstOf <- SqlFirst
  Roots <- SqlRoots
  MaxClauses = 2
  MaxTodo = 40
  FramedRoots = {"copyStmt", "createRoutine"}
  Names = {"stdin"}
  BodyLoop <- bodyLoop
  MaxBlocks = 3
