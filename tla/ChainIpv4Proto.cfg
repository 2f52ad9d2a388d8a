CONSTANTS
  Letters = {"i", "6", "t", "u", "c", "F", "a", "w", "e", "g", "s"}
  MaxLen = 3
  Chains <- MCChains
  Tails = {"end", "t", "i"}
  MaxUser = 1
SPECIFICATION Spec
INVARIANT Ipv4ProtocolCorrect
