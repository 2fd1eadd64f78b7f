SPECIFICATION Spec
CONSTANTS
  a = a
  b = b
  nl = nl
  eq = eq
  slash = slash
  apos = apos
  tick = tick
  dollar = dollar
  brace = brace
  ecarb = ecarb
  zero = zero
  dot = dot
  e = e
  minus = minus
  under = under
  x = x
  star = star
  at_ = at_
  bslash = bslash
  lbr = lbr
  rbr = rbr
  Chars <- MCChars
  NewLine = nl
  Nothing = Nothing
  Modes <- MCModes
  Default = "default"
  Mode <- MCMode
  Transitions <- MCTransitions
  TriviaTypes = {"comment", "block"}
  Inherited <- MCInherited
  Texts <- MCTexts
INVARIANTS LexTypeOK PlacesAreTrue ItemsTileText LongestEntryWins ContextIsOfTokens
           NumbersAreLongest OperatorsAreLongest StringsReadBack DelimitersPair
PROPERTY FeedSpec
