\* The parser, on all texts of eight tokens, and of seventeen of objects alone.
CONSTANTS
  Keys = {"a", "b"}
  Scalars = {"1"}
  Bounds <- MCBounds
  MaxTokens = 8
  MaxMembers = 17
SPECIFICATION FairSpec
INVARIANT ParserCorrect
INVARIANT DumpDenotes
INVARIANT RejectsAtFault
INVARIANT StacksAgree
INVARIANT ParserInv
PROPERTY ParserEnds
CHECK_DEADLOCK FALSE
