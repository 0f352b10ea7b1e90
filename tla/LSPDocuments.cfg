SPECIFICATION Spec
CONSTANTS
  Files = {"a", "b"}
  Texts = {"", "unlexed", "unparsed"}
  EmptyText = ""
  NoError = "none"
  MaxLength = 2
  StableUpTo = 16
  MaxSent = 5
  MaxOther = 0
  LexError <- MCLexError
  ParseError <- MCParseError
  NameLength <- MCNameLength
  Spaceless <- MCSpaceless
  Depth <- MCDepth
INVARIANTS ToldErrors FilesFound
CHECK_DEADLOCK FALSE
