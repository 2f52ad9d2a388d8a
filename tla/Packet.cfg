CONSTANTS
  N = 3
  HeaderLens <- MCHeaderLens
  PadLens <- MCPadLens
  VarLens <- MCVarLens
  DataLens <- MCDataLens
  MaxOpts = 2
SPECIFICATION Spec
INVARIANTS TypeOK CopiesFit DataAbutsHeader TrailerFits
PROPERTIES EspAligned ImplementsAssembly
