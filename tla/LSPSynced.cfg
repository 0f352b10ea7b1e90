SPECIFICATION Spec
CONSTANTS
  Files = {"a", "b"}
  Texts = {"", "int a", "inta"}
  EmptyText = ""
  NoError = "none"
  MaxLength = 2
  StableUpTo = 16
  MaxSent = 5
  MaxOther = 0
  LexError <- MCLexError
  ParseError <- MCParseError
  NameLength <- MCNameLength
  Spaceless <- MCSpaceless
  Depth <- MCDepth
INVARIANTS Synced
CHECK_DEADLOCK FALSE
