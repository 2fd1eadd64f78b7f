\* The options of CREATE FUNCTION in any order: COST or ROWS before NOT LEAKPROOF.
SPECIFICATION ScriptSpec
INVARIANT NothingIsSwallowed
CONSTANTS
  Reserved <- RESERVED
  NameTypes <- SqlNames
  Grammar <- SqlRule
  FirstOf <- SqlFirst
  Roots <- OptionRoots
  MaxClauses = 2
  MaxTodo = 40
  FramedRoots = {}
  Names = {}
  BodyLoop <- bodyLoop
  MaxBlocks = 3
