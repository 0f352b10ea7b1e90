------------------------------ MODULE LSPSever ------------------------------
(***************************************************************************)
(* The language server's state and what handling one message does to it:   *)
(* class LSPSever (UCodeLanguageSeverlib/src/LSPSever.hpp, LSPSever.cpp)   *)
(* with the analyzer it owns (UCodeLang/UCodeAnalyzer/LanguageServer.hpp,  *)
(* LanguageServer.cpp).  How the messages reach it, and who takes what it  *)
(* sends, is in LSPMain.                                                   *)
(*                                                                         *)
(* A document's text, and the message of an error, are members of small    *)
(* sets.  LexError and ParseError say what the lexer and the parser, which *)
(* are not modelled, find in a text.                                       *)
(***************************************************************************)
EXTENDS Integers, Sequences, SequencesExt, Selection

CONSTANTS
  Files,        \* the documents the editor may open, by their URI
  Texts,        \* what a document may hold
  EmptyText,    \* the empty document
  LexError,     \* [Texts -> Errors \cup {NoError}]: what the lexer reports
  ParseError,   \* [Texts -> Errors \cup {NoError}]: what the parser reports
  NoError,
  NameLength,   \* [Files -> 1..MaxLength]: the length of the path
  MaxLength,
  StableUpTo    \* how many elements std::sort keeps the order of equals for

ASSUME LSPSeverAssumption ==
  /\ EmptyText \in Texts
  /\ LexError[EmptyText] = NoError /\ ParseError[EmptyText] = NoError
  /\ DOMAIN LexError = Texts /\ DOMAIN ParseError = Texts
  /\ MaxLength \in Nat /\ NameLength \in [Files -> 1..MaxLength]
  /\ StableUpTo \in Nat

VARIABLES
  files,          \* _Files: the open documents, a function on their URIs
  order,          \* the order in which a loop over _Files meets them
  ErrorList,      \* LanguageServer::ErrorList
  ClientErrors,   \* _ClientSideErrorsList
  IsInitialized, IsShutdown, Runing,
  SeverPackets,   \* _SeverPackets: sent, and not yet taken
  terminated      \* why the process died, or "no"

session == <<files, order, ErrorList, ClientErrors, IsInitialized, IsShutdown, Runing>>

Errors == {LexError[t] : t \in Texts} \cup {ParseError[t] : t \in Texts}

UCFile == [text : Texts, lexed : Texts, lexErrors : Errors \cup {NoError},
           parseErrors : Errors \cup {NoError}, tree : Texts]

Error == [file : Files, error : Errors]

Open == DOMAIN files

SessionInit ==
  /\ files = <<>> /\ order = <<>> /\ ErrorList = <<>> /\ ClientErrors = <<>>
  /\ IsInitialized = FALSE /\ IsShutdown = FALSE /\ Runing = TRUE
  /\ SeverPackets = <<>> /\ terminated = "no"

-----------------------------------------------------------------------------
(* The analyzer *)

NewFile(t) == [text |-> t, lexed |-> EmptyText, lexErrors |-> NoError,
               parseErrors |-> NoError, tree |-> EmptyText]

\* The parser is reached by a text without lexing errors only; until then what
\* an earlier text left in parseErrors and in the tree stays.
AnalyzedParseAndLex(f) ==
  LET t == f.text
      parsed == [f EXCEPT !.lexed = t, !.lexErrors = NoError, !.parseErrors = ParseError[t]]
  IN  IF t = f.lexed THEN f
      ELSE IF LexError[t] # NoError THEN [f EXCEPT !.lexed = t, !.lexErrors = LexError[t]]
      ELSE IF ParseError[t] # NoError THEN parsed
      ELSE [parsed EXCEPT !.tree = t]

ErrorsOf(f) ==
  LET found == Only(<<files[f].lexErrors, files[f].parseErrors>>, Errors \ {NoError})
  IN  [i \in DOMAIN found |-> [file |-> f, error |-> found[i]]]

UpdateErrorList == FlattenSeq([i \in DOMAIN order |-> ErrorsOf(order[i])])

\* LanguageServer::Step, which LSPSever::Step calls between initialized and
\* shutdown: the list is made before the documents are analyzed.
CurrentErrors == IF IsInitialized /\ ~IsShutdown THEN UpdateErrorList ELSE ErrorList
Analyzed ==
  IF IsInitialized /\ ~IsShutdown
  THEN [f \in Open |-> AnalyzedParseAndLex(files[f])] ELSE files

-----------------------------------------------------------------------------
(* What is sent to the editor *)

SendPacketToClient(p) == SeverPackets' = Append(SeverPackets, p)

\* What it may be: an answer to a request, or the diagnostics of a document.
Answer ==
  [type : {"result"}, id : Nat]
  \cup [type : {"error"}, id : Nat, code : {"ServerNotInitialized", "InvalidRequest", "MethodNotFound"}]
DiagnosticsOf(fs) == [type : {"diagnostics"}, file : fs, errors : Seq(Errors)]
Reply == Answer \cup DiagnosticsOf(Files)

Result(m) == [type |-> "result", id |-> m.id]
ResponseError(m, code) == [type |-> "error", id |-> m.id, code |-> code]
Diagnostics(f, es) == [type |-> "diagnostics", file |-> f, errors |-> es]

\* The sort on the length of the path, longest first, that keeps the order of
\* paths of one length.
SortedByName(list) ==
  FlattenSeq([i \in 1..MaxLength |->
    Only(list, {e \in Error : NameLength[e.file] = MaxLength + 1 - i})])

\* What std::sort may leave: it is an insertion sort for short lists only.
Sortings(list) ==
  IF Len(list) <= StableUpTo THEN {SortedByName(list)}
  ELSE LET D == DOMAIN list
       IN  {s \in {[i \in D |-> list[p[i]]] : p \in Bijection(D, D)} :
              \A i, j \in D : i < j => NameLength[s[i].file] >= NameLength[s[j].file]}

\* Mutant of AddError: the diagnostics are not emptied between two messages.
AddErrorWithoutReset(groups, e) ==
  IF groups = <<>> THEN <<Diagnostics(e.file, <<e.error>>)>>
  ELSE IF groups[Len(groups)].file = e.file
  THEN [groups EXCEPT ![Len(groups)].errors = Append(@, e.error)]
  ELSE Append(groups, Diagnostics(e.file, Append(groups[Len(groups)].errors, e.error)))

AddError(groups, e) ==
  IF groups # <<>> /\ groups[Len(groups)].file = e.file
  THEN [groups EXCEPT ![Len(groups)].errors = Append(@, e.error)]
  ELSE Append(groups, Diagnostics(e.file, <<e.error>>))

\* One message for each run of errors of one file.
Grouped(list) ==
  LET grouped[i \in 0..Len(list)] ==
        IF i = 0 THEN <<>> ELSE AddError(grouped[i - 1], list[i])
  IN  grouped[Len(list)]

\* The sorted copy is compared with the list as it comes.
ErrorsChanged == ClientErrors # CurrentErrors

Published(sorted) ==
  IF ~ErrorsChanged THEN <<>>
  ELSE IF CurrentErrors = <<>> THEN [i \in DOMAIN order |-> Diagnostics(order[i], <<>>)]
  ELSE Grouped(sorted)

\* Mutant of Refresh: UpdateClientErrorList before the analyzer's step.
RefreshReversed ==
  /\ files' = Analyzed
  /\ ErrorList' = CurrentErrors
  /\ ClientErrors' \in Sortings(ErrorList)
  /\ terminated' = IF ClientErrors # ErrorList /\ \E i \in DOMAIN ErrorList : ErrorList[i].file \notin Open
                   THEN "no such file" ELSE terminated
  /\ UNCHANGED <<order, IsInitialized, IsShutdown, Runing>>

\* The end of LSPSever::Step: the analyzer's step and UpdateClientErrorList,
\* which looks up the document of every error it publishes.
Refresh ==
  /\ files' = Analyzed
  /\ ErrorList' = CurrentErrors
  /\ ClientErrors' \in IF ErrorsChanged THEN Sortings(CurrentErrors) ELSE {ClientErrors}
  /\ terminated' = IF ErrorsChanged /\ \E i \in DOMAIN CurrentErrors : CurrentErrors[i].file \notin Open
                   THEN "no such file" ELSE terminated
  /\ UNCHANGED <<order, IsInitialized, IsShutdown, Runing>>

-----------------------------------------------------------------------------
(* The handlers.  Each takes a message; OnReceivedPacket chooses.          *)

Sever_initialize(m) ==
  /\ m.method = "initialize"
  /\ SendPacketToClient(Result(m))
  /\ UNCHANGED <<session, terminated>>

Sever_initialized(m) ==
  /\ m.method = "initialized"
  /\ IsInitialized' = TRUE
  /\ UNCHANGED <<files, order, ErrorList, ClientErrors, IsShutdown, Runing, SeverPackets, terminated>>

Sever_Shutdown(m) ==
  /\ m.method = "shutdown"
  /\ IsShutdown' = TRUE
  /\ SendPacketToClient(Result(m))
  /\ UNCHANGED <<files, order, ErrorList, ClientErrors, IsInitialized, Runing, terminated>>

Sever_Exit(m) ==
  /\ m.method = "exit"
  /\ Runing' = FALSE
  /\ UNCHANGED <<files, order, ErrorList, ClientErrors, IsInitialized, IsShutdown, SeverPackets, terminated>>

\* A new document may change the place of every other in the hash table.
textDocument_didOpen(m) ==
  /\ m.method = "didOpen"
  /\ files' = [f \in Open \cup {m.file} |-> IF f = m.file THEN NewFile(m.text) ELSE files[f]]
  /\ IF m.file \in Open THEN UNCHANGED order ELSE order' \in SetToSeqs(Open \cup {m.file})
  /\ UNCHANGED <<ErrorList, ClientErrors, IsInitialized, IsShutdown, Runing, SeverPackets, terminated>>

\* Mutant of textDocument_didClose: the loops still meet the closed document.
CloseInPlace(m) ==
  /\ m.method = "didClose"
  /\ files' = [f \in Open \ {m.file} |-> files[f]]
  /\ UNCHANGED <<order, ErrorList, ClientErrors, IsInitialized, IsShutdown, Runing, SeverPackets, terminated>>

textDocument_didClose(m) ==
  /\ m.method = "didClose"
  /\ files' = [f \in Open \ {m.file} |-> files[f]]
  /\ order' = Only(order, Files \ {m.file})
  /\ UNCHANGED <<ErrorList, ClientErrors, IsInitialized, IsShutdown, Runing, SeverPackets, terminated>>

\* GetFile throws for a document that is not open, and nothing catches it.
textDocument_didChange(m) ==
  /\ m.method = "didChange"
  /\ IF m.file \in Open
     THEN /\ files' = [files EXCEPT ![m.file].text = m.text]
          /\ UNCHANGED terminated
     ELSE /\ terminated' = "no such file"
          /\ UNCHANGED files
  /\ UNCHANGED <<order, ErrorList, ClientErrors, IsInitialized, IsShutdown, Runing, SeverPackets>>

\* hover, definition and rename have the same body: two checks, and no answer
\* when both pass.
textDocument_hover(m) ==
  /\ m.method = "hover"
  /\ IF ~IsInitialized THEN SendPacketToClient(ResponseError(m, "ServerNotInitialized"))
     ELSE IF IsShutdown THEN SendPacketToClient(ResponseError(m, "InvalidRequest"))
     ELSE UNCHANGED SeverPackets
  /\ UNCHANGED <<session, terminated>>

MethodNotFound(m) ==
  /\ m.method = "unknown"
  /\ SendPacketToClient(ResponseError(m, "MethodNotFound"))
  /\ UNCHANGED <<session, terminated>>

\* didSave, a notification the server has no function for, a response.
Ignored(m) ==
  /\ m.method = "didSave"
  /\ UNCHANGED <<session, SeverPackets, terminated>>

\* json::parse throws, and nothing catches it.
NotJson(m) ==
  /\ m.method = "garbage"
  /\ terminated' = "not json"
  /\ UNCHANGED <<session, SeverPackets>>

OnReceivedPacket(m) ==
  \/ Sever_initialize(m) \/ Sever_initialized(m) \/ Sever_Shutdown(m) \/ Sever_Exit(m)
  \/ textDocument_didOpen(m) \/ textDocument_didClose(m) \/ textDocument_didChange(m)
  \/ textDocument_hover(m) \/ MethodNotFound(m) \/ Ignored(m) \/ NotJson(m)
=============================================================================
