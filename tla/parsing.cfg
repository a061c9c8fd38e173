SPECIFICATION Spec
CONSTANTS
  Sizes <- MCSizes
  Conditionals = FALSE
  Places <- MCPlaces
  Alphabet <- MCAlphabet
  MostTokens = 2
  Characters <- MCCharacters
INVARIANTS
  ExpressionsReadBack
  StatementsReadBack
  DeclarationsReadBack
  Halts
  TokensAreLongest
CHECK_DEADLOCK FALSE
