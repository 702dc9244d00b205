CONSTANTS
  Params = {"x", "y"}
  Locals = {"a", "b"}
  Width = 2
  Expr <- MCExpr
  MaxHeight = 2
  Statements <- MCStatements
  MaxStmts = 4
SPECIFICATION GeneratorSpec
INVARIANTS
  Sound
  Complete
  WellScoped
  NoIdleLet
CHECK_DEADLOCK FALSE
