\* Texts of four sorts of token each against a table with every kind of group.
SPECIFICATION Spec
INVARIANTS
  TightestWins
  NoOtherReading
  ReadsOn
  OnlyChainsAreRefused
CONSTANTS
  prefix <- MCPrefixes
  infix <- MCInfixes
  postfix <- MCPostfixes
  atom <- MCAtoms
  Texts <- MCTexts
  MaxText = 6
  MaxChain = 7
