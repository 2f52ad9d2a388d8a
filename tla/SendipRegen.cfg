CONSTANTS
  Module <- MCModule
  Loadable <- MCLoadable
  OptChar <- MCOptChar
  HasSetAddr <- MCHasSetAddr
  MaxLoop = 3
  MaxData = 2
  Null = Null
  CmdLines <- RegenLines
SPECIFICATION Spec
INVARIANT RegeneratedDataFits
