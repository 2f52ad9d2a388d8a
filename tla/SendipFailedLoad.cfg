CONSTANTS
  Module <- MCModule
  Loadable <- MCLoadable
  OptChar <- MCOptChar
  HasSetAddr <- MCHasSetAddr
  MaxLoop = 3
  MaxData = 2
  Null = Null
  CmdLines <- FailedLoadLines
SPECIFICATION Spec
INVARIANT MostRecentFirst
