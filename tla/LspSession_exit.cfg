CONSTANTS
  Id = {r1}
  Made = {"definition", "inlay", "completion", "fmt", "specFile", "other"}
  MaxChanges = 0
SPECIFICATION FairSpec
PROPERTY
  ExitEnds
CHECK_DEADLOCK FALSE
