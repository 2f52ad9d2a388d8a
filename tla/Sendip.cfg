CONSTANTS
  Module <- MCModule
  Loadable <- MCLoadable
  OptChar <- MCOptChar
  HasSetAddr <- MCHasSetAddr
  MaxLoop = 3
  MaxData = 2
  Null = Null
  CmdLines <- AllLines
SPECIFICATION FairSpec
INVARIANTS TypeOK MemorySafe PayloadOwner PacketMatchesCommandLine CrashOnlyWithoutModule
INVARIANTS PacketsBuiltAlike
PROPERTY Termination
