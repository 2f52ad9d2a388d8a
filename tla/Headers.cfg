SPECIFICATION Spec
CONSTANTS
  MaxOpts = 5
  PadSizes <- HopPads
  MaxPads = 9
  MaxSctpOpts = 4
  DataSizes <- Texts
  MaxBgpOpts = 5
  Bytes <- BgpLists
  NlriArgs <- BgpRoutes
  MaxTlvOpts = 3
  NumSizes <- TlvSizes
  IpAddrs <- TlvAddrs
  MaxIp6Opts = 3
  Numbers <- Ip6Numbers
  RouteSizes <- RtLists
  MaxRipOpts = 3
  RipArgs <- RipLists
  MaxAuthOpts = 5
  VarSizes = {1, 2}
  EspPads = {0, 3, 6, 8}
  Keys <- EspKeys
INVARIANTS
  TypeOK
  HopWritesFit HopReadable
  GreInPlace
  SctpChunksTile SctpOwnChunk
  BgpWellFormed
  OptionsReadable
  FieldsAsGiven
  EspUnwraps AhFakesHeader
CHECK_DEADLOCK FALSE
