SPECIFICATION RunSpec
CONSTANTS
  key = key
  open = open
  close = close
  sep = sep
  ws = ws
  bad = bad
  Tokens = {key, open, close, sep}
  Bad = bad
  Trivia = {}
  SyncSkip = {sep}
  SyncKeep = {key}
  Texts <- MCTexts
  MaxText = 4
  Propagate = TRUE
  PreferFarthest = TRUE
  Collect = TRUE
  MaxDepth = 1
  MaxAhead = 0
  MaxErrors = 7
  First = {key}
  Until = {close}
  Open = open
  Close = close
  Separator = sep
  Grammars <- MCGrammars
  Forms = {"repeat", "expressions"}
  Stricts = {FALSE}
  MaxTries = 1
INVARIANTS RunTypeOK RepeatCollects CleanMeansParsed BranchesAreClosed
PROPERTY Finishes
