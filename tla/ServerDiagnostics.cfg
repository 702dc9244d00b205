CONSTANTS
  a = a
  c = c
  fa = fa
  ga = ga
  fc = fc
  Pkg = {a, c}
  File = {fa, ga, fc}
  PkgOf <- Apart
  Uses <- OnlyItself
  Hidden = {fc}
  Edited = {a}
  NoFile = NoFile
SPECIFICATION FairSpec
PROPERTIES
  OnlyReloadOrphans
  FixedIsCleared
  BadIsShown
  ForeignErrorsKept
