CONSTANTS
  a = a
  b = b
  c = c
  Pkg = {a, b, c}
  Declarable <- Layered
  Dev <- LibraryTests
  Git = {c}
  Visited = {a, b}
  Layouts = {"absent","bad","ok"}
  MaxEdits = 2
  NoProject = NoProject
SPECIFICATION FairSpec
INVARIANTS
  OneProjectPerRoot
  PendingKeysLive
  StaleIsNoticed
PROPERTIES
  ImplementsTable
  ReloadConverges
