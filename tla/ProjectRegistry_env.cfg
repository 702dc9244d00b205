CONSTANTS
  a = a
  b = b
  c = c
  Pkg = {a, b}
  Declarable <- OneWay
  Dev = {}
  Git = {}
  Visited = {a, b}
  Layouts = {"ok"}
  MaxEdits = 0
  NoProject = NoProject
SPECIFICATION Spec
INVARIANT
  EnvKnowsFile
