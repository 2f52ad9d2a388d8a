CONSTANTS
  Char <- MCChar
  Options <- MCOptions
  CmdLines <- MCCmdLines
SPECIFICATION FairSpec
INVARIANTS TypeOK InBounds EachWordOnce PassesAgree
PROPERTY PassesEnd
