SPECIFICATION Spec
CONSTANTS
  word = word
  ws = ws
  semi = semi
  brace = brace
  bad = bad
  Tokens = {ws, semi, brace}
  Bad = bad
  Trivia = {ws}
  SyncSkip = {semi}
  SyncKeep = {brace}
  Texts <- MCTexts
  MaxText = 3
  Propagate = TRUE
  PreferFarthest = TRUE
  Collect = TRUE
  MaxDepth = 2
  MaxAhead = 2
  MaxErrors = 2
INVARIANTS TypeOK HeadIsNextToken LastSigAnchors LookaheadIsExact BufferIsDrained LexerErrorsSurface
PROPERTIES CursorSpec RecordedIsDeepest LoopsReturn
