CONSTANTS
  Id = {r1}
  Made = {"definition", "inlay", "completion", "fmt", "specFile", "other"}
  MaxChanges = 2
SPECIFICATION FairSpec
INVARIANTS
  NeverRegisteredTwice
  OneAnswer
PROPERTIES
  FormattingAnswered
  FeaturesFollow
CHECK_DEADLOCK FALSE
