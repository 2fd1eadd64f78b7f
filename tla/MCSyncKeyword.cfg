SPECIFICATION RunSpec
CONSTANTS
  key = key
  open = open
  close = close
  sep = sep
  ws = ws
  bad = bad
  Tokens = {key, open, close, sep}
  Bad = bad
  Trivia = {}
  SyncSkip = {sep}
  SyncKeep = {key}
  Texts <- MCTexts
  MaxText = 4
  Propagate = TRUE
  PreferFarthest = TRUE
  Collect = TRUE
  MaxDepth = 1
  MaxAhead = 0
  MaxErrors = 9
  First = {key}
  Until = {}
  Open = open
  Close = close
  Separator = sep
  Grammars <- MCGrammars
  Forms = {"expressions"}
  Stricts = {FALSE}
  MaxTries = 0
PROPERTY ResumesOnKeep
