----------------------------- MODULE MCLSPMain ------------------------------
EXTENDS LSPMain

\* Two documents, one path longer than the other.  A text the lexer refuses, one
\* the parser refuses, one with a brace too many and one with a brace too few,
\* one with a blank, and that one without it.
MCNameLength == [f \in Files |-> IF f = "a" THEN 1 ELSE 2]
MCLexError == [t \in Texts |-> IF t = "unlexed" THEN "lexing" ELSE NoError]
MCParseError == [t \in Texts |-> IF t = "unparsed" THEN "parsing" ELSE NoError]
MCSpaceless == [t \in Texts |-> IF t = "int a" THEN "inta" ELSE t]
MCDepth == [t \in Texts |-> IF t = "{" THEN 1 ELSE IF t = "}" THEN -1 ELSE 0]
=============================================================================
