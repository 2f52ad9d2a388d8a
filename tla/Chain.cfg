\* All chains of up to three headers, one field set by an option.
SPECIFICATION Spec
CONSTANTS
  Letters = {"i", "6", "t", "u", "c", "F", "a", "w", "e", "g", "s"}
  MaxLen = 3
  Chains <- MCChains
  Tails = {"end", "t", "i"}
  MaxUser = 1
INVARIANTS
  TypeOK
  ChecksumsCurrent
  NextHeadersName
  TransportChecksumValid
  NoCrashInsideIP
PROPERTIES
  FixedFieldsStay
