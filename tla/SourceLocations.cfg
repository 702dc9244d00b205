CONSTANTS
  Path = {p1, p2}
  Text <- ShortTexts
  None = None
SPECIFICATION Spec
INVARIANTS
  NeverStale
  TranslatesExactly
  ConvertsInOwnText
