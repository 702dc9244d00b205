CONSTANTS
  NameLen <- MCNameLen
  Statements <- MCStatements
  OtherBody <- MCOtherBody
  MaxStmts = 3
  Declarations <- MCDeclarations
  Prefix <- MCPrefix
  ModuleOf <- MCModuleOf
  Window = 20
SPECIFICATION FileSpec
INVARIANTS
  GotoFindsDeclaration
  DeclarationsAreFound
  ReferencesAreUses
  TypesAreShown
CHECK_DEADLOCK FALSE
