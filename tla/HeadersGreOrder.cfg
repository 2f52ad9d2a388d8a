SPECIFICATION Spec
CONSTANTS
  MaxOpts = 3
  PadSizes <- HopPads
  MaxPads = 9
  MaxSctpOpts = 4
  DataSizes <- Texts
  MaxBgpOpts = 0
  Bytes <- BgpLists
  NlriArgs <- BgpRoutes
  MaxTlvOpts = 0
  NumSizes <- TlvSizes
  IpAddrs <- TlvAddrs
  MaxIp6Opts = 0
  Numbers <- Ip6Numbers
  RouteSizes <- RtLists
  MaxRipOpts = 0
  RipArgs <- RipLists
  MaxAuthOpts = 0
  VarSizes = {1, 2}
  EspPads = {0, 3, 6, 8}
  Keys <- EspKeys
INVARIANT GreAnyOrder
CHECK_DEADLOCK FALSE
