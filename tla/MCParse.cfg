SPECIFICATION RunSpec
CONSTANTS
  key = key
  open = open
  close = close
  sep = sep
  ws = ws
  bad = bad
  Tokens = {key, open, close, sep, ws}
  Bad = bad
  Trivia = {ws}
  SyncSkip = {sep}
  SyncKeep = {key}
  Texts <- MCTexts
  MaxText = 3
  Propagate = FALSE
  PreferFarthest = TRUE
  Collect = FALSE
  MaxDepth = 2
  MaxAhead = 0
  MaxErrors = 0
  First = {key}
  Until = {close}
  Open = open
  Close = close
  Separator = sep
  Grammars <- MCGrammars
  Forms = {"repeat", "expressions", "rule", "value"}
  Stricts = {FALSE, TRUE}
  MaxTries = 2
INVARIANT ThrowsDeepest
PROPERTY CursorSpec
