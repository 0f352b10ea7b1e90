SPECIFICATION Spec
CONSTANTS
  Files = {"a"}
  Texts = {"", "{"}
  EmptyText = ""
  NoError = "none"
  MaxLength = 2
  StableUpTo = 16
  MaxSent = 5
  MaxOther = 1
  LexError <- MCLexError
  ParseError <- MCParseError
  NameLength <- MCNameLength
  Spaceless <- MCSpaceless
  Depth <- MCDepth
INVARIANTS TypeOK NothingForgotten AnswersInTurn
PROPERTIES ImplementsLSPService DrainedWhenIdle
CHECK_DEADLOCK FALSE
