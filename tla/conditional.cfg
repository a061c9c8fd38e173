SPECIFICATION Spec
CONSTANTS
  Sizes <- MCConditional
  Conditionals = TRUE
  Places <- MCPlaces
  Alphabet <- MCAlphabet
  MostTokens = 0
  Characters <- MCCharacters
INVARIANTS
  ConditionalsReadBack
CHECK_DEADLOCK FALSE
