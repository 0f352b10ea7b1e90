----------------------------- MODULE LSPEditor ------------------------------
(***************************************************************************)
(* The editor at the other end of the language server's pipe: the messages *)
(* it may send (it keeps to the protocol, and sends MaxSent at most), and  *)
(* what the pipe does to them.  The server's main thread reads with        *)
(* `std::cin >> V', which skips white space, and it finds the end of a     *)
(* message by counting braces, those in a document's text included.        *)
(* Depth[t] is the number of braces text t opens less those it closes (its *)
(* braces are of one kind), Spaceless[t] what is left of t without blanks. *)
(***************************************************************************)
EXTENDS LSPSever

CONSTANTS
  Spaceless,    \* [Texts -> Texts]
  Depth,        \* [Texts -> Int]
  MaxSent,      \* the messages of a session
  MaxOther      \* those of them the server does nothing for

ASSUME LSPEditorAssumption ==
  /\ Spaceless \in [Texts -> Texts] /\ Depth \in [Texts -> Int] /\ MaxSent \in Nat /\ MaxOther \in Nat

VARIABLES
  sent,         \* every message of the editor
  stdout        \* every message to the editor

Request(method) == [method |-> method, id |-> Len(sent) + 1]
Requests == {Request(n) : n \in {"initialize", "shutdown", "hover", "unknown"}}
Notifications ==
  [method : {"initialized", "exit", "didSave"}] \cup [method : {"didClose"}, file : Files]
  \cup [method : {"didOpen", "didChange"}, file : Files, text : Texts]

Has(method) == \E i \in DOMAIN sent : sent[i].method = method
Answered(method) ==
  \E i \in DOMAIN sent, j \in DOMAIN stdout :
    sent[i].method = method /\ stdout[j] = Result(sent[i])

\* The n-th message sent, or an earlier one, opened f, and none after it up to the
\* n-th closed f.
OpenAfter(n, f) ==
  \E i \in 1..n :
    /\ sent[i].method = "didOpen" /\ sent[i].file = f
    /\ \A j \in (i + 1)..n : ~(sent[j].method = "didClose" /\ sent[j].file = f)
OpenInEditor(f) == OpenAfter(Len(sent), f)
TextInEditor(f) ==
  Last(Only(sent, [method : {"didOpen", "didChange"}, file : {f}, text : Texts])).text

\* The server does nothing for these but refuse them.
Other == {"hover", "unknown", "didSave"}

\* The protocol's rules for the editor: initialize comes first, initialized
\* after its answer, exit after the answer to shutdown, nothing after exit;
\* documents are opened and closed in turn, and until shutdown.  A request that
\* comes too early or too late is the server's to refuse.
MaySend(m) ==
  /\ Has("initialize") <=> m.method # "initialize"
  /\ ~Has("exit")
  /\ m.method = "initialized" => Answered("initialize") /\ ~Has("initialized")
  /\ m.method \in {"shutdown", "didOpen", "didChange", "didClose", "didSave"} =>
       Has("initialized") /\ ~Has("shutdown")
  /\ m.method = "didOpen" => ~OpenInEditor(m.file)
  /\ m.method \in {"didChange", "didClose"} => OpenInEditor(m.file)
  /\ m.method = "exit" => Answered("shutdown")
  /\ m.method \in Other => Cardinality({i \in DOMAIN sent : sent[i].method \in Other}) < MaxOther

HasText(m) == m.method \in {"didOpen", "didChange"}
Braces(m) == IF HasText(m) THEN Depth[m.text] ELSE 0

Garbage == [method |-> "garbage"]

\* What is left of m when its blanks are skipped.
Arrives(m) == IF HasText(m) THEN [m EXCEPT !.text = Spaceless[@]] ELSE m
=============================================================================
