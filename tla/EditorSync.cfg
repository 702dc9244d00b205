CONSTANTS
  d1 = d1
  d2 = d2
  Doc = {d1, d2}
  NoDoc = NoDoc
  Quiet = 5
  Delay = 4
  MaxEdits = 3
  InlayHints = TRUE
  Text <- MCText
  Word <- MCWord
  Keyword = {"fun", "let"}
  Standard = {"std"}
  Holds <- MCHolds
  AtOne = {"coin"}
  Member <- MCMember
  Field <- MCField
  ModuleOf <- MCModuleOf
  Used <- MCUsed
SPECIFICATION CompletionSpec
PROPERTIES
  NeverOlder
  TimedIsForwarded
  CompletionFits
