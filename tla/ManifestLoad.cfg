CONSTANTS
  a = a
  b = b
  c = c
  Pkg = {a, b, c}
  Root = a
  Declarable <- Anything
  Layouts = {"absent", "nomanifest", "bad", "ok"}
  MaxEdits = 1
  PlainName = {"a"}
  Depth = 2
  Nesting = 1
  Components = 3
SPECIFICATION FairSpec
INVARIANTS
  EachPackageOnce
  LoadsTheClosure
  RacyLoadIsNoticed
  FilesFindTheirPackage
PROPERTY
  Terminates
CHECK_DEADLOCK FALSE
