-------------------------- MODULE LSPSession_proofs --------------------------
(***************************************************************************)
(* TLAPS proofs about what a session of the language server does: the      *)
(* types, the answers, the documents it has, and the diagnostics it tells  *)
(* the editor.  A step of the three threads is a step of one server with   *)
(* two queues (SessionStep), so the steps here are that server's.          *)
(***************************************************************************)
EXTENDS LSPMain_proofs, SequenceFacts

USE LSPSeverAssumption

-----------------------------------------------------------------------------
(* Lists of errors.                                                        *)

LEMMA ErrorsAre == \A t \in Texts : LexError[t] \in Errors /\ ParseError[t] \in Errors
  BY DEF Errors

LEMMA NoErrorIsError == NoError \in Errors
  BY ErrorsAre

LEMMA RunsConcat ==
    ASSUME NEW S, NEW s \in Seq(S), NEW t \in Seq(S), Runs(s), Runs(t),
           \A i \in 1..Len(s), k \in 1..Len(t) : s[i].file # t[k].file
    PROVE  Runs(s \o t)
<1> DEFINE u == s \o t
<1>1. /\ u \in Seq(S) /\ Len(u) = Len(s) + Len(t) /\ Len(s) \in Nat /\ Len(t) \in Nat
      /\ \A i \in 1..Len(s) : u[i] = s[i]
      /\ \A i \in 1..Len(t) : u[Len(s) + i] = t[i]
      /\ \A k \in 1..Len(u) :
           \/ k \in 1..Len(s) /\ u[k] = s[k]
           \/ k - Len(s) \in 1..Len(t) /\ u[k] = t[k - Len(s)]
  BY ConcatPlaces
<1> HIDE DEF u
<1> SUFFICES ASSUME NEW i \in 1..Len(u), NEW k \in 1..Len(u), i < k, u[i].file = u[k].file
             PROVE  u[k - 1].file = u[k].file
  BY DEF Runs, u
<1>2. CASE k \in 1..Len(s)
  <2>1. i \in 1..Len(s) /\ k - 1 \in 1..Len(s)
    BY <1>1, <1>2
  <2>2. u[i] = s[i] /\ u[k] = s[k] /\ u[k - 1] = s[k - 1]
    BY <1>1, <1>2, <2>1
  <2>3. s[i].file = s[k].file => s[k - 1].file = s[k].file
    BY <1>2, <2>1 DEF Runs
  <2> QED
    BY <2>2, <2>3
<1>3. CASE k - Len(s) \in 1..Len(t) /\ i \in 1..Len(s)
  <2> DEFINE b == k - Len(s)
  <2>1. b \in 1..Len(t) /\ Len(s) + b = k
    BY <1>1, <1>3
  <2>2. u[i] = s[i] /\ u[k] = t[b]
    BY <1>1, <1>3, <2>1
  <2>3. s[i].file # t[b].file
    BY <1>3, <2>1
  <2> QED
    BY <2>2, <2>3
<1>4. CASE k - Len(s) \in 1..Len(t) /\ i - Len(s) \in 1..Len(t)
  <2> DEFINE a == i - Len(s)
             b == k - Len(s)
  <2>1. a \in 1..Len(t) /\ b \in 1..Len(t) /\ a < b /\ b - 1 \in 1..Len(t)
    BY <1>1, <1>4
  <2>2. u[i] = t[a] /\ u[k] = t[b] /\ u[k - 1] = t[b - 1]
    <3>1. Len(s) + a = i /\ Len(s) + b = k /\ Len(s) + (b - 1) = k - 1
      BY <1>1
    <3> QED
      BY <1>1, <2>1, <3>1
  <2> HIDE DEF a, b
  <2> QED
    BY <2>1, <2>2 DEF Runs
<1> QED
  BY <1>1, <1>2, <1>3, <1>4

LEMMA FlattenRuns ==
    ASSUME NEW S
    PROVE  \A ss \in Seq(Seq(S)) :
             /\ \A i \in 1..Len(ss) : Runs(ss[i])
             /\ \A i, j \in 1..Len(ss) : i < j =>
                  \A a \in 1..Len(ss[i]), b \in 1..Len(ss[j]) : ss[i][a].file # ss[j][b].file
             => Runs(FlattenSeq(ss))
<1> DEFINE Apart(ss) ==
             /\ \A i \in 1..Len(ss) : Runs(ss[i])
             /\ \A i, j \in 1..Len(ss) : i < j =>
                  \A a \in 1..Len(ss[i]), b \in 1..Len(ss[j]) : ss[i][a].file # ss[j][b].file
           P == {ss \in Seq(Seq(S)) : Apart(ss) => Runs(FlattenSeq(ss))}
<1>1. <<>> \in P
  <2>1. Runs(<<>>)
    BY DEF Runs
  <2> HIDE DEF Apart
  <2> QED
    BY <2>1, FlattenEmpty, EmptyTyped
<1>2. ASSUME NEW ss \in Seq(Seq(S)), NEW t \in Seq(S), ss \in P PROVE Append(ss, t) \in P
  <2> DEFINE o == FlattenSeq(ss)
             u == Append(ss, t)
  <2>1. FlattenSeq(u) = o \o t
    BY FlattenAppend
  <2>2. o \in Seq(S) /\ \A k \in 1..Len(o) : \E i \in 1..Len(ss) : \E a \in 1..Len(ss[i]) : o[k] = ss[i][a]
    BY FlattenTyped, FlattenElements
  <2>3. /\ u \in Seq(Seq(S)) /\ Len(u) = Len(ss) + 1 /\ u[Len(ss) + 1] = t /\ Len(ss) \in Nat
        /\ \A i \in 1..Len(ss) : u[i] = ss[i]
    BY AppendTyped
  <2>4. Apart(ss) => Runs(o)
    BY <1>2
  <2> HIDE DEF o, u
  <2>5. ASSUME Apart(u) PROVE Runs(o \o t)
    <3>1. Apart(ss)
      <4>1. \A i \in 1..Len(ss) : i \in 1..Len(u) /\ u[i] = ss[i]
        BY <2>3
      <4>2. \A i \in 1..Len(ss) : Runs(ss[i])
        BY <2>5, <4>1
      <4>3. ASSUME NEW i \in 1..Len(ss), NEW j \in 1..Len(ss), i < j,
                   NEW a \in 1..Len(ss[i]), NEW b \in 1..Len(ss[j])
            PROVE  ss[i][a].file # ss[j][b].file
        <5>1. i \in 1..Len(u) /\ j \in 1..Len(u) /\ u[i] = ss[i] /\ u[j] = ss[j]
          BY <4>1
        <5>2. a \in 1..Len(u[i]) /\ b \in 1..Len(u[j])
          BY <5>1
        <5>3. u[i][a].file # u[j][b].file
          BY <2>5, <4>3, <5>1, <5>2
        <5> QED
          BY <5>1, <5>3
      <4> QED
        BY <4>2, <4>3
    <3>2. Len(u) \in 1..Len(u) /\ u[Len(u)] = t
      BY <2>3
    <3>3. Runs(t)
      BY <2>5, <3>2
    <3>4. ASSUME NEW k \in 1..Len(o), NEW b \in 1..Len(t) PROVE o[k].file # t[b].file
      <4>1. PICK i \in 1..Len(ss) : \E a \in 1..Len(ss[i]) : o[k] = ss[i][a]
        BY <2>2
      <4>2. PICK a \in 1..Len(ss[i]) : o[k] = ss[i][a]
        BY <4>1
      <4>3. i \in 1..Len(u) /\ u[i] = ss[i] /\ i < Len(u)
        BY <2>3
      <4>4. \A c \in 1..Len(u[i]), d \in 1..Len(u[Len(u)]) : u[i][c].file # u[Len(u)][d].file
        BY <2>5, <3>2, <4>3
      <4> QED
        BY <3>2, <4>2, <4>3, <4>4
    <3> HIDE DEF Apart
    <3> QED
      BY <2>2, <2>4, <3>1, <3>3, <3>4, RunsConcat
  <2> HIDE DEF Apart
  <2>6. u \in Seq(Seq(S)) /\ (Apart(u) => Runs(FlattenSeq(u)))
    BY <2>1, <2>3, <2>5
  <2> QED
    BY <2>6 DEF u
<1> HIDE DEF P
<1>3. Seq(Seq(S)) \subseteq P
  BY <1>1, <1>2, SeqSet
<1> QED
  BY <1>3 DEF P

\* Choosing the errors of some documents leaves those of one document together.
LEMMA RunsOnly ==
    ASSUME NEW G, \A a, b \in Error : a.file = b.file => (a \in G <=> b \in G)
    PROVE  \A s \in Seq(Error) : Runs(s) => Runs(Only(s, G))
<1> DEFINE LastKept(s, o) == s # <<>> /\ s[Len(s)] \in G => o # <<>> /\ o[Len(o)] = s[Len(s)]
           P == {s \in Seq(Error) : /\ Runs(s) => Runs(Only(s, G))
                                    /\ LastKept(s, Only(s, G))}
<1>1. <<>> \in P
  <2>1. Runs(<<>>) /\ LastKept(<<>>, <<>>)
    BY DEF Runs
  <2> HIDE DEF LastKept
  <2> QED
    BY <2>1, OnlyEmpty, EmptyTyped
<1>2. ASSUME NEW s \in Seq(Error), NEW e \in Error, s \in P PROVE Append(s, e) \in P
  <2> DEFINE o == Only(s, G)
             t == Append(s, e)
             p == Append(o, e)
  <2>1. /\ t \in Seq(Error) /\ Len(t) = Len(s) + 1 /\ t[Len(s) + 1] = e /\ t # <<>>
        /\ Len(s) \in Nat
        /\ \A i \in 1..Len(s) : t[i] = s[i]
    OBVIOUS
  <2>2. Only(t, G) = IF e \in G THEN p ELSE o
    BY OnlyAppend
  <2> HIDE DEF t
  <2>3. /\ o \in Seq(Error)
        /\ \A j \in 1..Len(o) : \E i \in 1..Len(s) : s[i] = o[j]
    <3> HIDE DEF o
    <3>1. Selects(Error, G, s, o)
      BY OnlySelection DEF o
    <3> QED
      BY <3>1 DEF Selects
  <2>4. (Runs(s) => Runs(o)) /\ LastKept(s, o)
    BY <1>2
  <2> HIDE DEF o
  <2>5. /\ p \in Seq(Error) /\ Len(p) = Len(o) + 1 /\ p[Len(o) + 1] = e /\ p # <<>> /\ Len(o) \in Nat
        /\ \A i \in 1..Len(o) : p[i] = o[i]
    BY <2>3
  <2> HIDE DEF p
  <2>6. LastKept(t, Only(t, G))
    BY <2>1, <2>2, <2>5
  <2>7. ASSUME Runs(t) PROVE Runs(Only(t, G))
    <3>1. Runs(s)
      <4> SUFFICES ASSUME NEW i \in 1..Len(s), NEW k \in 1..Len(s), i < k, s[i].file = s[k].file
                   PROVE  s[k - 1].file = s[k].file
        BY DEF Runs
      <4>1. i \in 1..Len(t) /\ k \in 1..Len(t) /\ k - 1 \in 1..Len(s)
        BY <2>1
      <4>2. t[i] = s[i] /\ t[k] = s[k] /\ t[k - 1] = s[k - 1]
        BY <2>1, <4>1
      <4>3. t[k - 1].file = t[k].file
        BY <2>7, <4>1, <4>2 DEF Runs
      <4> QED
        BY <4>2, <4>3
    <3>2. Runs(o)
      BY <2>4, <3>1
    <3>3. ASSUME e \in G PROVE Runs(p)
      <4> SUFFICES ASSUME NEW i \in 1..Len(p), NEW k \in 1..Len(p), i < k, p[i].file = p[k].file
                   PROVE  p[k - 1].file = p[k].file
        BY DEF Runs
      <4>1. CASE k \in 1..Len(o)
        <5>1. i \in 1..Len(o) /\ k - 1 \in 1..Len(o)
          BY <2>5, <4>1
        <5>2. p[i] = o[i] /\ p[k] = o[k] /\ p[k - 1] = o[k - 1]
          BY <2>5, <4>1, <5>1
        <5>3. o[k - 1].file = o[k].file
          BY <3>2, <4>1, <5>1, <5>2 DEF Runs
        <5> QED
          BY <5>2, <5>3
      <4>2. CASE k = Len(o) + 1
        <5>1. i \in 1..Len(o) /\ p[i] = o[i] /\ p[k] = e
          BY <2>5, <4>2
        <5>2. PICK j \in 1..Len(s) : s[j] = o[i]
          BY <2>3, <5>1
        <5>3. t[j].file = e.file /\ t[j] = s[j]
          BY <2>1, <5>1, <5>2
        <5>4. /\ j \in 1..Len(t) /\ Len(s) + 1 \in 1..Len(t) /\ j < Len(s) + 1
              /\ (Len(s) + 1) - 1 = Len(s) /\ Len(s) \in 1..Len(s)
          BY <2>1
        <5>5. t[j].file = t[Len(s) + 1].file
          BY <2>1, <5>3
        <5>6. t[(Len(s) + 1) - 1].file = t[Len(s) + 1].file
          BY <2>7, <5>4, <5>5 DEF Runs
        <5>7. t[Len(s)].file = e.file /\ t[Len(s)] = s[Len(s)]
          BY <2>1, <5>4, <5>6
        <5>8. s[Len(s)] \in Error /\ s # <<>>
          BY <5>4
        <5>9. s[Len(s)] \in G
          BY <3>3, <5>7, <5>8
        <5>10. o # <<>> /\ o[Len(o)] = s[Len(s)]
          BY <2>4, <5>8, <5>9
        <5>11. k - 1 = Len(o) /\ Len(o) \in 1..Len(o)
          BY <2>5, <4>2, <5>1
        <5>12. p[k - 1] = s[Len(s)]
          BY <2>5, <5>10, <5>11
        <5> QED
          BY <5>1, <5>7, <5>12
      <4>3. Len(o) \in Nat /\ Len(p) = Len(o) + 1
        BY <2>5
      <4>4. \A n \in Nat : \A j \in 1..(n + 1) : j \in 1..n \/ j = n + 1
        OBVIOUS
      <4>5. k \in 1..Len(o) \/ k = Len(o) + 1
        BY <4>3, <4>4
      <4> QED
        BY <4>1, <4>2, <4>5
    <3> QED
      BY <2>2, <3>2, <3>3
  <2> HIDE DEF LastKept
  <2>8. t \in P
    BY <2>1, <2>6, <2>7
  <2> QED
    BY <2>8 DEF t
<1> HIDE DEF P
<1>3. Seq(Error) \subseteq P
  BY <1>1, <1>2, SeqSet
<1> QED
  BY <1>3 DEF P

LEMMA Sorted ==
    ASSUME NEW list \in Seq(Error)
    PROVE  SortedByName(list) \in Seq(Error) /\ (Runs(list) => Runs(SortedByName(list)))
<1> DEFINE G(i) == {e \in Error : NameLength[e.file] = MaxLength + 1 - i}
           ss == [i \in 1..MaxLength |-> Only(list, G(i))]
<1>1. \A i \in 1..MaxLength : Only(list, G(i)) \in Seq(Error \intersect G(i)) /\ Only(list, G(i)) \in Seq(Error)
  BY OnlyTyped
<1>2. ss \in Seq(Seq(Error)) /\ Len(ss) = MaxLength
  <2>1. ss \in [1..MaxLength -> Seq(Error)]
    BY <1>1
  <2> HIDE DEF ss
  <2> QED
    BY <2>1, FunctionTyped
<1>3. SortedByName(list) = FlattenSeq(ss)
  BY DEF SortedByName
<1>4. SortedByName(list) \in Seq(Error)
  BY <1>2, <1>3, FlattenTyped
<1>5. ASSUME Runs(list) PROVE Runs(SortedByName(list))
  <2>1. ASSUME NEW i \in 1..Len(ss) PROVE Runs(ss[i])
    <3>1. \A a, b \in Error : a.file = b.file => (a \in G(i) <=> b \in G(i))
      OBVIOUS
    <3>2. ss[i] = Only(list, G(i))
      BY <1>2
    <3> HIDE DEF G, ss
    <3> QED
      BY <1>5, <3>1, <3>2, RunsOnly
  <2>2. ASSUME NEW i \in 1..Len(ss), NEW j \in 1..Len(ss), i < j,
               NEW a \in 1..Len(ss[i]), NEW b \in 1..Len(ss[j])
        PROVE  ss[i][a].file # ss[j][b].file
    <3>1. i \in 1..MaxLength /\ j \in 1..MaxLength
      BY <1>2
    <3>2. ss[i] \in Seq(Error \intersect G(i)) /\ ss[j] \in Seq(Error \intersect G(j))
      BY <1>1, <3>1
    <3>3. ss[i][a] \in G(i) /\ ss[j][b] \in G(j)
      <4> HIDE DEF ss, G
      <4> QED
        BY <3>2
    <3>4. NameLength[ss[i][a].file] = MaxLength + 1 - i /\ NameLength[ss[j][b].file] = MaxLength + 1 - j
      BY <3>3
    <3>5. \A x, y \in 1..MaxLength : MaxLength + 1 - x = MaxLength + 1 - y => x = y
      OBVIOUS
    <3>6. i # j
      BY <2>2, <3>1
    <3> HIDE DEF ss
    <3> QED
      BY <3>1, <3>4, <3>5, <3>6
  <2> HIDE DEF ss
  <2> QED
    BY <1>2, <1>3, <2>1, <2>2, FlattenRuns
<1> QED
  BY <1>4, <1>5

\* What the analyzer finds in one document.
LEMMA ErrorsOfOne ==
    ASSUME NEW f \in Open, Open \subseteq Files, files \in [Open -> UCFile]
    PROVE  ErrorsOf(f) \in Seq(Error) /\ \A i \in 1..Len(ErrorsOf(f)) : ErrorsOf(f)[i].file = f
<1> DEFINE both == <<files[f].lexErrors, files[f].parseErrors>>
           found == Only(both, Errors \ {NoError})
<1>1. both \in Seq(Errors)
  <2>1. files[f] \in UCFile
    OBVIOUS
  <2>2. files[f].lexErrors \in Errors /\ files[f].parseErrors \in Errors
    BY <2>1, NoErrorIsError DEF UCFile
  <2> QED
    BY <2>2
<1> HIDE DEF both
<1>2. found \in Seq(Errors)
  BY <1>1, OnlyTyped
<1> HIDE DEF found
<1>3. ErrorsOf(f) = [i \in 1..Len(found) |-> [file |-> f, error |-> found[i]]]
  BY <1>2 DEF ErrorsOf, both, found
<1>4. f \in Files /\ \A i \in 1..Len(found) : found[i] \in Errors
  BY <1>2
<1>5. ErrorsOf(f) \in [1..Len(found) -> Error]
  BY <1>3, <1>4 DEF Error
<1>6. ErrorsOf(f) \in Seq(Error) /\ Len(ErrorsOf(f)) = Len(found)
  BY <1>2, <1>5, FunctionTyped
<1> QED
  BY <1>3, <1>6

\* The loops over the open documents meet each once.
LEMMA OrderOfOpen ==
    ASSUME SessionTypes
    PROVE  order \in Seq(Open) /\ IsInjective(order) /\ \A x \in Open : \E i \in 1..Len(order) : order[i] = x
<1>1. IsFiniteSet(Open) /\ order \in SetToSeqs(Open)
  BY DEF SessionTypes
<1>2. Enumerates(Open, order)
  BY <1>1, Orders
<1> QED
  BY <1>2 DEF Enumerates

\* The list that UpdateErrorList makes is of open documents, each in one place.
LEMMA ListMade ==
    ASSUME SessionTypes
    PROVE  /\ UpdateErrorList \in Seq(Error) /\ Runs(UpdateErrorList)
           /\ \A k \in 1..Len(UpdateErrorList) : UpdateErrorList[k].file \in Open
<1> DEFINE ss == [i \in 1..Len(order) |-> ErrorsOf(order[i])]
<1>1. Open \subseteq Files /\ files \in [Open -> UCFile] /\ order \in SetToSeqs(Open) /\ IsFiniteSet(Open)
  BY DEF SessionTypes
<1>2. order \in Seq(Open) /\ IsInjective(order)
  BY OrderOfOpen
<1>3. \A i \in 1..Len(order) : order[i] \in Open
  BY <1>2
<1>4. ss \in Seq(Seq(Error)) /\ Len(ss) = Len(order)
  <2>1. ss \in [1..Len(order) -> Seq(Error)]
    BY <1>1, <1>3, ErrorsOfOne
  <2>2. Len(order) \in Nat
    BY <1>2
  <2> HIDE DEF ss
  <2> QED
    BY <2>1, <2>2, FunctionTyped
<1>5. UpdateErrorList = FlattenSeq(ss)
  <2>1. DOMAIN order = 1..Len(order)
    BY <1>2
  <2> QED
    BY <2>1 DEF UpdateErrorList
<1>6. \A i \in 1..Len(ss) : order[i] \in Open /\ ss[i] = ErrorsOf(order[i])
  BY <1>3, <1>4
<1> HIDE DEF ss
<1>7. \A i \in 1..Len(ss) : \A a \in 1..Len(ss[i]) : ss[i][a].file = order[i]
  BY <1>1, <1>6, ErrorsOfOne
<1>8. UpdateErrorList \in Seq(Error)
  BY <1>4, <1>5, FlattenTyped
<1>9. ASSUME NEW k \in 1..Len(UpdateErrorList) PROVE UpdateErrorList[k].file \in Open
  <2>1. PICK i \in 1..Len(ss) : \E a \in 1..Len(ss[i]) : FlattenSeq(ss)[k] = ss[i][a]
    BY <1>4, <1>5, FlattenElements
  <2> QED
    BY <1>5, <1>6, <1>7, <2>1
<1>10. \A i \in 1..Len(ss) : Runs(ss[i])
  <2> SUFFICES ASSUME NEW i \in 1..Len(ss), NEW k \in 1..Len(ss[i]), NEW l \in 1..Len(ss[i]), k < l
               PROVE  ss[i][l - 1].file = ss[i][l].file
    BY DEF Runs
  <2>1. ss[i] \in Seq(Error)
    BY <1>1, <1>6, ErrorsOfOne
  <2>2. l - 1 \in 1..Len(ss[i])
    BY <2>1
  <2> QED
    BY <1>7, <2>2
<1>11. ASSUME NEW i \in 1..Len(ss), NEW j \in 1..Len(ss), i < j,
              NEW a \in 1..Len(ss[i]), NEW b \in 1..Len(ss[j])
       PROVE  ss[i][a].file # ss[j][b].file
  <2>1. i \in DOMAIN order /\ j \in DOMAIN order
    BY <1>2, <1>4
  <2>2. order[i] # order[j]
    BY <1>2, <1>11, <2>1 DEF IsInjective
  <2> QED
    BY <1>7, <2>2
<1>12. Runs(UpdateErrorList)
  BY <1>4, <1>5, <1>10, <1>11, FlattenRuns
<1> QED
  BY <1>8, <1>9, <1>12

\* The list a step of the analyzer leaves, and the sorted copy.
LEMMA CurrentList ==
    ASSUME SessionTypes, ListOK
    PROVE  /\ CurrentErrors \in Seq(Error) /\ Runs(CurrentErrors)
           /\ ~IsInitialized => CurrentErrors = <<>>
           /\ SortedByName(CurrentErrors) \in Seq(Error) /\ Runs(SortedByName(CurrentErrors))
<1>1. CurrentErrors \in Seq(Error) /\ Runs(CurrentErrors) /\ (~IsInitialized => CurrentErrors = <<>>)
  BY ListMade DEF CurrentErrors, ListOK, SessionTypes
<1> QED
  BY <1>1, Sorted

\* What std::sort may leave; a short list has one outcome.
LEMMA SortingsTyped ==
    ASSUME NEW list \in Seq(Error), NEW s \in Sortings(list)
    PROVE  s \in Seq(Error) /\ (Len(s) <= StableUpTo => s = SortedByName(list))
<1>1. CASE Len(list) <= StableUpTo
  <2>1. s = SortedByName(list)
    BY <1>1 DEF Sortings
  <2> QED
    BY <2>1, Sorted
<1>2. CASE ~(Len(list) <= StableUpTo)
  <2> DEFINE n == Len(list)
  <2>1. n \in Nat /\ DOMAIN list = 1..n /\ \A i \in 1..n : list[i] \in Error
    OBVIOUS
  <2>2. PICK p \in Bijection(1..n, 1..n) : s = [i \in 1..n |-> list[p[i]]]
    BY <1>2, <2>1 DEF Sortings
  <2>3. p \in [1..n -> 1..n]
    BY DEF Bijection, Injection
  <2>4. s \in [1..n -> Error]
    BY <2>1, <2>2, <2>3
  <2>5. s \in Seq(Error) /\ Len(s) = n
    <3> HIDE DEF n
    <3> QED
      BY <2>1, <2>4, FunctionTyped
  <2> QED
    BY <1>2, <2>5
<1> QED
  BY <1>1, <1>2

-----------------------------------------------------------------------------
(* The errors of one document, and the messages made of a list.            *)

LEMMA ErrorsInTyped ==
    ASSUME NEW list \in Seq(Error), NEW f
    PROVE  ErrorsIn(list, f) \in Seq(Errors)
<1> DEFINE o == Only(list, [file : {f}, error : Errors])
<1>1. o \in Seq(Error)
  BY OnlyTyped
<1> HIDE DEF o
<1>2. [i \in 1..Len(o) |-> o[i].error] \in [1..Len(o) -> Errors]
  <2>1. \A i \in 1..Len(o) : o[i] \in Error
    BY <1>1
  <2>2. \A i \in 1..Len(o) : o[i].error \in Errors
    BY <2>1 DEF Error
  <2> QED
    BY <2>2
<1>3. Len(o) \in Nat /\ DOMAIN o = 1..Len(o)
  BY <1>1
<1>4. [i \in 1..Len(o) |-> o[i].error] \in Seq(Errors)
  BY <1>2, <1>3, FunctionTyped
<1> QED
  BY <1>3, <1>4 DEF ErrorsIn, o

LEMMA ErrorsInAppend ==
    ASSUME NEW list \in Seq(Error), NEW e \in Error, NEW f
    PROVE  ErrorsIn(Append(list, e), f)
             = IF e.file = f THEN Append(ErrorsIn(list, f), e.error) ELSE ErrorsIn(list, f)
<1> DEFINE G == [file : {f}, error : Errors]
           o == Only(list, G)
           p == Append(o, e)
<1>1. e \in G <=> e.file = f
  BY DEF Error
<1> HIDE DEF G
<1>2. Only(Append(list, e), G) = IF e.file = f THEN p ELSE o
  BY <1>1, OnlyAppend
<1>3. o \in Seq(Error)
  BY OnlyTyped
<1> HIDE DEF o
<1>4. /\ Len(p) = Len(o) + 1 /\ p[Len(o) + 1] = e /\ DOMAIN p = 1..(Len(o) + 1) /\ DOMAIN o = 1..Len(o)
      /\ Len(o) \in Nat /\ \A i \in 1..Len(o) : p[i] = o[i]
  BY <1>3
<1> HIDE DEF p
<1>5. [i \in DOMAIN p |-> p[i].error] = Append([i \in DOMAIN o |-> o[i].error], e.error)
  BY <1>4
<1>6. ErrorsIn(list, f) = [i \in DOMAIN o |-> o[i].error]
  BY DEF ErrorsIn, o, G
<1>7. ErrorsIn(Append(list, e), f) = IF e.file = f THEN [i \in DOMAIN p |-> p[i].error]
                                     ELSE [i \in DOMAIN o |-> o[i].error]
  BY <1>2 DEF ErrorsIn, G
<1> QED
  BY <1>5, <1>6, <1>7

LEMMA ErrorsInNone ==
    ASSUME NEW list \in Seq(Error), NEW f, \A i \in 1..Len(list) : list[i].file # f
    PROVE  ErrorsIn(list, f) = <<>>
<1> DEFINE G == [file : {f}, error : Errors]
<1>1. \A i \in 1..Len(list) : list[i] \notin G
  OBVIOUS
<1> HIDE DEF G
<1>2. Only(list, G) = <<>>
  BY <1>1, OnlyNone
<1>3. ErrorsIn(list, f) = LET about == Only(list, G) IN [i \in DOMAIN about |-> about[i].error]
  BY DEF ErrorsIn, G
<1>4. ErrorsIn(list, f) = [i \in DOMAIN <<>> |-> <<>>[i].error]
  BY <1>2, <1>3
<1> QED
  BY <1>4
LEMMA WithErrors ==
    ASSUME NEW p \in DiagnosticsOf(Files), NEW c
    PROVE  [p EXCEPT !.errors = c] = [type |-> "diagnostics", file |-> p.file, errors |-> c]
<1>1. PICK a, b : p = [type |-> "diagnostics", file |-> a, errors |-> b]
  BY DEF DiagnosticsOf
<1>2. p.file = a
  BY <1>1
<1>3. [[type |-> "diagnostics", file |-> a, errors |-> b] EXCEPT !.errors = c]
        = [type |-> "diagnostics", file |-> a, errors |-> c]
  OBVIOUS
<1> QED
  BY <1>1, <1>2, <1>3

\* AddError puts the error behind the last of its document, or starts a message.
LEMMA AddErrorTo ==
    ASSUME NEW g \in Seq(DiagnosticsOf(Files)), NEW e \in Error
    PROVE  /\ AddError(g, e) \in Seq(DiagnosticsOf(Files))
           /\ g # <<>> /\ g[Len(g)].file = e.file =>
                /\ Len(AddError(g, e)) = Len(g)
                /\ \A k \in 1..(Len(g) - 1) : AddError(g, e)[k] = g[k]
                /\ AddError(g, e)[Len(g)] = Diagnostics(e.file, Append(g[Len(g)].errors, e.error))
           /\ ~(g # <<>> /\ g[Len(g)].file = e.file) =>
                AddError(g, e) = Append(g, Diagnostics(e.file, <<e.error>>))
<1>1. e.file \in Files /\ e.error \in Errors
  BY DEF Error
<1>2. CASE g # <<>> /\ g[Len(g)].file = e.file
  <2> DEFINE n == Len(g)
             d == [g[n] EXCEPT !.errors = Append(g[n].errors, e.error)]
             h == [g EXCEPT ![n] = d]
  <2>1. AddError(g, e) = h
    BY <1>2 DEF AddError
  <2>2. n \in Nat /\ n \in 1..n /\ g \in [1..n -> DiagnosticsOf(Files)]
    BY <1>2
  <2>3. g[n] \in DiagnosticsOf(Files)
    BY <2>2
  <2>4. /\ g[n] = [type |-> "diagnostics", file |-> g[n].file, errors |-> g[n].errors]
        /\ g[n].errors \in Seq(Errors)
    BY <2>3 DEF DiagnosticsOf
  <2>5. Append(g[n].errors, e.error) \in Seq(Errors)
    BY <1>1, <2>4
  <2>6. d = Diagnostics(e.file, Append(g[n].errors, e.error))
    <3>1. d = [type |-> "diagnostics", file |-> g[n].file, errors |-> Append(g[n].errors, e.error)]
      BY <2>3, WithErrors
    <3> HIDE DEF d
    <3> QED
      BY <1>2, <3>1 DEF Diagnostics
  <2>7. d \in DiagnosticsOf(Files)
    <3> HIDE DEF d
    <3> QED
      BY <1>1, <2>5, <2>6 DEF Diagnostics, DiagnosticsOf
  <2> HIDE DEF d
  <2>8. h \in [1..n -> DiagnosticsOf(Files)] /\ h[n] = d /\ \A k \in 1..(n - 1) : h[k] = g[k]
    <3>1. h \in [1..n -> DiagnosticsOf(Files)]
      BY <2>2, <2>7
    <3>2. h[n] = d
      BY <2>2
    <3>3. ASSUME NEW k \in 1..(n - 1) PROVE h[k] = g[k]
      <4>1. k \in 1..n /\ k # n
        <5>1. \A m \in Nat : \A j \in 1..(m - 1) : j \in 1..m /\ j # m
          OBVIOUS
        <5> HIDE DEF n
        <5> QED
          BY <2>2, <5>1
      <4> QED
        BY <2>2, <4>1
    <3> QED
      BY <3>1, <3>2, <3>3
  <2> HIDE DEF h
  <2>9. h \in Seq(DiagnosticsOf(Files)) /\ Len(h) = n
    BY <2>2, <2>8, FunctionTyped
  <2> QED
    BY <1>2, <2>1, <2>6, <2>8, <2>9
<1>3. CASE ~(g # <<>> /\ g[Len(g)].file = e.file)
  <2>1. AddError(g, e) = Append(g, Diagnostics(e.file, <<e.error>>))
    BY <1>3 DEF AddError
  <2>2. Diagnostics(e.file, <<e.error>>) \in DiagnosticsOf(Files)
    <3>1. <<e.error>> \in Seq(Errors)
      BY <1>1
    <3> QED
      BY <1>1, <3>1 DEF Diagnostics, DiagnosticsOf
  <2> QED
    BY <1>3, <2>1, <2>2, AppendTyped
<1> QED
  BY <1>2, <1>3

\* g is the function that Grouped computes with.
Grouping(list, g) ==
    g = [i \in 0..Len(list) |-> IF i = 0 THEN <<>> ELSE AddError(g[i - 1], list[i])]

LEMMA GroupingExtends ==
    ASSUME NEW list \in Seq(Error), NEW e \in Error, NEW f, Grouping(list, f)
    PROVE  \E g : /\ Grouping(Append(list, e), g)
                  /\ g[Len(list) + 1] = AddError(f[Len(list)], e)
<1> DEFINE n == Len(list)
           t == Append(list, e)
           g == [i \in 0..(n + 1) |-> IF i <= n THEN f[i] ELSE AddError(f[n], e)]
<1>1. /\ n \in Nat /\ Len(t) = n + 1 /\ t[n + 1] = e
      /\ \A i \in 1..n : t[i] = list[i]
  OBVIOUS
<1>2. \A i \in 0..n : g[i] = f[i]
  BY <1>1
<1>3. g[n + 1] = AddError(f[n], e)
  BY <1>1
<1>4. ASSUME NEW i \in 0..(n + 1)
      PROVE  g[i] = IF i = 0 THEN <<>> ELSE AddError(g[i - 1], t[i])
  <2>1. CASE i = n + 1
    <3>1. i # 0 /\ t[i] = e /\ i - 1 = n /\ n \in 0..n
      BY <1>1, <2>1
    <3>2. g[i - 1] = f[n]
      BY <1>2, <3>1
    <3> HIDE DEF g, t
    <3> QED
      BY <1>3, <2>1, <3>1, <3>2
  <2>2. CASE i = 0
    <3>1. f[0] = <<>>
      BY <1>1 DEF Grouping
    <3> QED
      BY <1>1, <1>2, <2>2, <3>1
  <2>3. CASE i \in 1..n
    <3>1. f[i] = AddError(f[i - 1], list[i])
      <4>1. i \in 0..n /\ i # 0
        BY <1>1, <2>3
      <4> QED
        BY <4>1 DEF Grouping
    <3>2. g[i] = f[i] /\ g[i - 1] = f[i - 1] /\ t[i] = list[i] /\ i # 0
      BY <1>1, <1>2, <2>3
    <3> HIDE DEF g, t
    <3> QED
      BY <3>1, <3>2
  <2> QED
    BY <1>1, <2>1, <2>2, <2>3
<1>5. Grouping(t, g)
  <2>1. g = [i \in 0..(n + 1) |-> g[i]]
    OBVIOUS
  <2> HIDE DEF g
  <2>2. [i \in 0..(n + 1) |-> g[i]]
          = [i \in 0..(n + 1) |-> IF i = 0 THEN <<>> ELSE AddError(g[i - 1], t[i])]
    BY <1>4
  <2> QED
    BY <1>1, <2>1, <2>2 DEF Grouping
<1> HIDE DEF g
<1> QED
  BY <1>3, <1>5

LEMMA GroupingExists == \A list \in Seq(Error) : \E g : Grouping(list, g)
<1> DEFINE P == {list \in Seq(Error) : \E g : Grouping(list, g)}
<1>1. <<>> \in P
  <2>1. Grouping(<<>>, [i \in 0..0 |-> <<>>])
    BY DEF Grouping
  <2> QED
    BY <2>1
<1>2. ASSUME NEW list \in Seq(Error), NEW e \in Error, list \in P PROVE Append(list, e) \in P
  BY <1>2, GroupingExtends
<1> HIDE DEF P
<1>3. Seq(Error) \subseteq P
  BY <1>1, <1>2, SeqSet
<1> QED
  BY <1>3 DEF P

LEMMA GroupedIs ==
    ASSUME NEW list \in Seq(Error), NEW f, Grouping(list, f)
    PROVE  Grouped(list) = f[Len(list)]
<1> DEFINE g == CHOOSE g : Grouping(list, g)
           P == {n \in Nat : n <= Len(list) => f[n] = g[n]}
<1>1. Grouping(list, g)
  BY GroupingExists
<1>2. Grouped(list) = g[Len(list)]
  BY DEF Grouped, Grouping
<1> HIDE DEF g
<1>3. 0 \in P
  BY <1>1 DEF Grouping
<1>4. ASSUME NEW n \in Nat, n \in P PROVE n + 1 \in P
  <2> SUFFICES ASSUME n + 1 <= Len(list) PROVE f[n + 1] = g[n + 1]
    OBVIOUS
  <2>1. n + 1 \in 0..Len(list) /\ n + 1 # 0 /\ (n + 1) - 1 = n
    OBVIOUS
  <2>2. f[n] = g[n]
    BY <1>4
  <2>3. f[n + 1] = AddError(f[n], list[n + 1]) /\ g[n + 1] = AddError(g[n], list[n + 1])
    BY <1>1, <2>1 DEF Grouping
  <2> QED
    BY <2>2, <2>3
<1> HIDE DEF P
<1>5. Nat \subseteq P
  BY <1>3, <1>4, NatSet
<1>6. Len(list) \in P
  BY <1>5
<1> QED
  BY <1>2, <1>6 DEF P

LEMMA GroupedAppend ==
    ASSUME NEW list \in Seq(Error), NEW e \in Error
    PROVE  Grouped(Append(list, e)) = AddError(Grouped(list), e)
<1>1. PICK f : Grouping(list, f)
  BY GroupingExists
<1>2. PICK g : Grouping(Append(list, e), g) /\ g[Len(list) + 1] = AddError(f[Len(list)], e)
  BY <1>1, GroupingExtends
<1>3. Grouped(list) = f[Len(list)]
  BY <1>1, GroupedIs
<1>4. Append(list, e) \in Seq(Error) /\ Len(Append(list, e)) = Len(list) + 1
  BY AppendTyped
<1>5. Grouped(Append(list, e)) = g[Len(list) + 1]
  BY <1>2, <1>4, GroupedIs
<1> QED
  BY <1>2, <1>3, <1>5

LEMMA GroupedEmpty == Grouped(<<>>) = <<>>
<1>1. Grouping(<<>>, [i \in 0..0 |-> <<>>])
  BY DEF Grouping
<1>2. <<>> \in Seq(Error) /\ Len(<<>>) = 0
  OBVIOUS
<1>3. Grouped(<<>>) = [i \in 0..0 |-> <<>>][0]
  BY <1>1, <1>2, GroupedIs
<1> QED
  BY <1>3

\* The messages made of a list: one for each of its documents, with all the
\* errors of that document.
GroupsRight(list, g) ==
    /\ g \in Seq(DiagnosticsOf(Files))
    /\ list # <<>> => g # <<>> /\ g[Len(g)].file = list[Len(list)].file
    /\ \A k \in 1..Len(g) : g[k].errors = ErrorsIn(list, g[k].file)
    /\ \A k \in 1..Len(g) : \E i \in 1..Len(list) : list[i].file = g[k].file
    /\ \A i \in 1..Len(list) : \E k \in 1..Len(g) : g[k].file = list[i].file
    /\ \A k, l \in 1..Len(g) : g[k].file = g[l].file => k = l

\* Grouped makes diagnostics of any list.
LEMMA GroupedTyped ==
    \A list \in Seq(Error) : Grouped(list) \in Seq(DiagnosticsOf(Files))
<1> DEFINE P == {list \in Seq(Error) : Grouped(list) \in Seq(DiagnosticsOf(Files))}
<1>1. <<>> \in P
  BY GroupedEmpty, EmptyTyped
<1>2. ASSUME NEW list \in Seq(Error), NEW e \in Error, list \in P PROVE Append(list, e) \in P
  <2>1. Append(list, e) \in Seq(Error)
    BY AppendTyped
  <2>2. AddError(Grouped(list), e) \in Seq(DiagnosticsOf(Files))
    BY <1>2, AddErrorTo
  <2> QED
    BY <2>1, <2>2, GroupedAppend
<1> HIDE DEF P
<1>3. Seq(Error) \subseteq P
  BY <1>1, <1>2, SeqSet
<1> QED
  BY <1>3 DEF P

\* A list whose errors of one document stand together has its prefix so.
LEMMA RunsPrefix ==
    ASSUME NEW list \in Seq(Error), NEW e \in Error, Runs(Append(list, e))
    PROVE  /\ Runs(list)
           /\ \A i \in 1..Len(list) : list[i].file = e.file => list[Len(list)].file = e.file
<1> DEFINE t == Append(list, e)
           n == Len(list)
<1>1. /\ n \in Nat /\ Len(t) = n + 1 /\ t[n + 1] = e
      /\ \A i \in 1..n : t[i] = list[i]
  OBVIOUS
<1> HIDE DEF t, n
<1>2. \A i, k \in 1..(n + 1) : i < k /\ t[i].file = t[k].file => t[k - 1].file = t[k].file
  BY <1>1 DEF Runs, t
<1>3. ASSUME NEW i \in 1..n, NEW k \in 1..n, i < k, list[i].file = list[k].file
      PROVE  list[k - 1].file = list[k].file
  <2>1. i \in 1..(n + 1) /\ k \in 1..(n + 1) /\ k - 1 \in 1..n
    BY <1>1, <1>3
  <2>2. t[i] = list[i] /\ t[k] = list[k] /\ t[k - 1] = list[k - 1]
    BY <1>1, <2>1
  <2> QED
    BY <1>2, <1>3, <2>1, <2>2
<1>4. ASSUME NEW i \in 1..n, list[i].file = e.file PROVE list[n].file = e.file
  <2>1. i \in 1..(n + 1) /\ n + 1 \in 1..(n + 1) /\ i < n + 1 /\ (n + 1) - 1 = n /\ n \in 1..n
    BY <1>1
  <2>2. t[i].file = t[n + 1].file
    BY <1>1, <1>4
  <2>3. t[(n + 1) - 1].file = t[n + 1].file
    BY <1>2, <2>1, <2>2
  <2> QED
    BY <1>1, <2>1, <2>3
<1> QED
  BY <1>3, <1>4 DEF Runs, n

LEMMA GroupsExtended ==
    ASSUME NEW list \in Seq(Error), NEW e \in Error, NEW g,
           Runs(Append(list, e)), GroupsRight(list, g)
    PROVE  GroupsRight(Append(list, e), AddError(g, e))
<1> DEFINE t == Append(list, e)
           n == Len(list)
           h == AddError(g, e)
           m == Len(g)
<1>1. /\ t \in Seq(Error) /\ t # <<>>
      /\ n \in Nat /\ Len(t) = n + 1 /\ t[n + 1] = e
      /\ \A i \in 1..n : t[i] = list[i]
  BY AppendTyped
<1>2. /\ g \in Seq(DiagnosticsOf(Files)) /\ m \in Nat
      /\ list # <<>> => g # <<>> /\ g[m].file = list[n].file
      /\ \A k \in 1..m : g[k].errors = ErrorsIn(list, g[k].file)
      /\ \A k \in 1..m : \E i \in 1..n : list[i].file = g[k].file
      /\ \A i \in 1..n : \E k \in 1..m : g[k].file = list[i].file
      /\ \A k, l \in 1..m : g[k].file = g[l].file => k = l
  BY DEF GroupsRight
<1>3. \A f : ErrorsIn(t, f) = IF e.file = f THEN Append(ErrorsIn(list, f), e.error) ELSE ErrorsIn(list, f)
  BY ErrorsInAppend
<1>4. /\ h \in Seq(DiagnosticsOf(Files))
      /\ g # <<>> /\ g[m].file = e.file =>
           /\ Len(h) = m
           /\ \A k \in 1..(m - 1) : h[k] = g[k]
           /\ h[m] = Diagnostics(e.file, Append(g[m].errors, e.error))
      /\ ~(g # <<>> /\ g[m].file = e.file) => h = Append(g, Diagnostics(e.file, <<e.error>>))
  BY <1>2, AddErrorTo
<1>5. \A f, es : Diagnostics(f, es).file = f /\ Diagnostics(f, es).errors = es
  BY DEF Diagnostics
<1>6. \A i \in 1..n : list[i].file = e.file => list[n].file = e.file
  BY RunsPrefix
<1>7. n # 0 => list # <<>>
  OBVIOUS
<1> HIDE DEF t, n, h, m
<1>8. CASE g # <<>> /\ g[m].file = e.file
  <2>1. m \in 1..m
    BY <1>2, <1>8 DEF m
  <2>2. /\ Len(h) = m /\ h[m].file = e.file /\ h[m].errors = Append(g[m].errors, e.error)
        /\ \A k \in 1..m : k # m => h[k] = g[k]
    <3>1. \A k \in 1..m : k # m => k \in 1..(m - 1)
      BY <1>2
    <3>2. Len(h) = m /\ h[m] = Diagnostics(e.file, Append(g[m].errors, e.error))
      BY <1>4, <1>8
    <3>3. \A k \in 1..(m - 1) : h[k] = g[k]
      BY <1>4, <1>8
    <3>4. \A k \in 1..m : k # m => h[k] = g[k]
      BY <3>1, <3>3
    <3>5. h[m].file = e.file
      BY <1>5, <3>2
    <3>6. h[m].errors = Append(g[m].errors, e.error)
      BY <3>2 DEF Diagnostics
    <3> QED
      BY <3>2, <3>4, <3>5, <3>6
  <2>3. \A k \in 1..m : h[k].file = g[k].file
    BY <1>8, <2>2
  <2>4. ASSUME NEW k \in 1..m PROVE h[k].errors = ErrorsIn(t, h[k].file)
    <3>1. CASE k = m
      <4>1. g[m].errors = ErrorsIn(list, e.file)
        BY <1>2, <1>8, <2>1
      <4>2. ErrorsIn(t, e.file) = Append(ErrorsIn(list, e.file), e.error)
        BY <1>3
      <4> QED
        BY <2>2, <3>1, <4>1, <4>2
    <3>2. CASE k # m
      <4>1. g[k].file # e.file
        BY <1>2, <1>8, <2>1, <3>2
      <4> QED
        BY <1>2, <1>3, <2>2, <3>2, <4>1
    <3> QED
      BY <3>1, <3>2
  <2>5. ASSUME NEW k \in 1..m PROVE \E i \in 1..(n + 1) : t[i].file = h[k].file
    <3>1. PICK i \in 1..n : list[i].file = g[k].file
      BY <1>2
    <3>2. i \in 1..(n + 1) /\ t[i].file = h[k].file
      BY <1>1, <2>3, <3>1
    <3> QED
      BY <3>2
  <2>6. ASSUME NEW i \in 1..(n + 1) PROVE \E k \in 1..m : h[k].file = t[i].file
    <3>1. CASE i = n + 1
      BY <1>1, <2>1, <2>2, <3>1
    <3>2. CASE i \in 1..n
      <4>1. PICK k \in 1..m : g[k].file = list[i].file
        BY <1>2, <3>2
      <4>2. h[k].file = g[k].file /\ t[i] = list[i]
        BY <1>1, <2>3, <3>2
      <4> QED
        BY <4>1, <4>2
    <3>3. i = n + 1 \/ i \in 1..n
      BY <1>1
    <3> QED
      BY <3>1, <3>2, <3>3
  <2>7. \A k, l \in 1..m : h[k].file = h[l].file => k = l
    BY <1>2, <2>3
  <2>8. Len(t) = n + 1 /\ t[Len(t)].file = h[m].file /\ h # <<>>
    BY <1>1, <2>1, <2>2
  <2>9. h \in Seq(DiagnosticsOf(Files)) /\ Len(h) = m /\ Len(t) = n + 1
    BY <1>4, <2>2, <2>8
  <2>10. GroupsRight(t, h)
    BY <2>4, <2>5, <2>6, <2>7, <2>8, <2>9 DEF GroupsRight
  <2> QED
    BY <2>10 DEF t, h
<1>9. CASE ~(g # <<>> /\ g[m].file = e.file)
  <2> DEFINE d == Diagnostics(e.file, <<e.error>>)
  <2>1. h = Append(g, d)
    BY <1>4, <1>9
  <2>2. d.file = e.file /\ d.errors = <<e.error>> /\ d \in DiagnosticsOf(Files)
    <3>1. e.file \in Files /\ e.error \in Errors
      BY DEF Error
    <3>2. <<e.error>> \in Seq(Errors)
      BY <3>1
    <3> QED
      BY <1>5, <3>1, <3>2 DEF Diagnostics, DiagnosticsOf
  <2> HIDE DEF d
  <2>3. /\ Len(h) = m + 1 /\ h[m + 1] = d /\ h # <<>>
        /\ \A k \in 1..m : h[k] = g[k]
    BY <1>2, <2>1, <2>2, AppendTyped DEF m
  <2>4. \A i \in 1..n : list[i].file # e.file
    <3> SUFFICES ASSUME NEW i \in 1..n, list[i].file = e.file PROVE FALSE
      OBVIOUS
    <3>1. list[n].file = e.file /\ n # 0
      BY <1>1, <1>6
    <3> QED
      BY <1>2, <1>7, <1>9, <3>1
  <2>5. ErrorsIn(list, e.file) = <<>>
    BY <2>4, ErrorsInNone DEF n
  <2>6. ErrorsIn(t, e.file) = <<e.error>>
    <3>1. Append(<<>>, e.error) = <<e.error>>
      OBVIOUS
    <3> QED
      BY <1>3, <2>5, <3>1
  <2>7. \A k \in 1..m : g[k].file # e.file
    BY <1>2, <2>4
  <2>8. ASSUME NEW k \in 1..(m + 1) PROVE k = m + 1 \/ k \in 1..m
    BY <1>2
  <2>9. ASSUME NEW k \in 1..(m + 1) PROVE h[k].errors = ErrorsIn(t, h[k].file)
    <3>1. CASE k = m + 1
      BY <2>2, <2>3, <2>6, <3>1
    <3>2. CASE k \in 1..m
      <4>1. h[k] = g[k] /\ g[k].file # e.file /\ g[k].errors = ErrorsIn(list, g[k].file)
        BY <1>2, <2>3, <2>7, <3>2
      <4>2. ErrorsIn(t, g[k].file) = ErrorsIn(list, g[k].file)
        BY <1>3, <4>1
      <4> QED
        BY <4>1, <4>2
    <3> QED
      BY <2>8, <3>1, <3>2
  <2>10. ASSUME NEW k \in 1..(m + 1) PROVE \E i \in 1..(n + 1) : t[i].file = h[k].file
    <3>1. CASE k = m + 1
      <4>1. n + 1 \in 1..(n + 1)
        BY <1>1
      <4> QED
        BY <1>1, <2>2, <2>3, <3>1, <4>1
    <3>2. CASE k \in 1..m
      <4>1. PICK i \in 1..n : list[i].file = g[k].file
        BY <1>2, <3>2
      <4>2. i \in 1..(n + 1)
        BY <1>1
      <4>3. t[i] = list[i] /\ h[k] = g[k]
        BY <1>1, <2>3, <3>2
      <4> QED
        BY <4>1, <4>2, <4>3
    <3> QED
      BY <2>8, <3>1, <3>2
  <2>11. ASSUME NEW i \in 1..(n + 1) PROVE \E k \in 1..(m + 1) : h[k].file = t[i].file
    <3>1. CASE i = n + 1
      <4>1. m + 1 \in 1..(m + 1)
        BY <1>2
      <4> QED
        BY <1>1, <2>2, <2>3, <3>1, <4>1
    <3>2. CASE i \in 1..n
      <4>1. PICK k \in 1..m : g[k].file = list[i].file
        BY <1>2, <3>2
      <4>2. k \in 1..(m + 1) /\ h[k].file = t[i].file
        BY <1>1, <1>2, <2>3, <3>2, <4>1
      <4> QED
        BY <4>2
    <3> QED
      BY <1>1, <3>1, <3>2
  <2>12. ASSUME NEW k \in 1..(m + 1), NEW l \in 1..(m + 1), h[k].file = h[l].file PROVE k = l
    <3>1. CASE k = m + 1 /\ l = m + 1
      BY <3>1
    <3>2. CASE k \in 1..m /\ l \in 1..m
      BY <1>2, <2>3, <2>12, <3>2
    <3>3. CASE k = m + 1 /\ l \in 1..m
      BY <2>2, <2>3, <2>7, <2>12, <3>3
    <3>4. CASE k \in 1..m /\ l = m + 1
      BY <2>2, <2>3, <2>7, <2>12, <3>4
    <3> QED
      BY <2>8, <3>1, <3>2, <3>3, <3>4
  <2>13. Len(t) = n + 1 /\ t[Len(t)].file = h[Len(h)].file
    BY <1>1, <2>2, <2>3
  <2> QED
    BY <1>4, <2>3, <2>9, <2>10, <2>11, <2>12, <2>13 DEF GroupsRight, t, h
<1> QED
  BY <1>8, <1>9

LEMMA GroupsAreRight ==
    \A list \in Seq(Error) : Runs(list) => GroupsRight(list, Grouped(list))
<1> DEFINE P == {list \in Seq(Error) : Runs(list) => GroupsRight(list, Grouped(list))}
<1>1. <<>> \in P
  <2>1. GroupsRight(<<>>, <<>>)
    BY DEF GroupsRight
  <2> QED
    BY <2>1, GroupedEmpty, EmptyTyped
<1>2. ASSUME NEW list \in Seq(Error), NEW e \in Error, list \in P PROVE Append(list, e) \in P
  <2>1. Append(list, e) \in Seq(Error)
    BY AppendTyped
  <2>2. ASSUME Runs(Append(list, e)) PROVE GroupsRight(Append(list, e), Grouped(Append(list, e)))
    <3>1. Runs(list)
      BY <2>2, RunsPrefix
    <3>2. GroupsRight(list, Grouped(list))
      BY <1>2, <3>1
    <3> QED
      BY <2>2, <3>2, GroupsExtended, GroupedAppend
  <2> QED
    BY <2>1, <2>2
<1> HIDE DEF P
<1>3. Seq(Error) \subseteq P
  BY <1>1, <1>2, SeqSet
<1> QED
  BY <1>3 DEF P

-----------------------------------------------------------------------------
(* Types.                                                                  *)

LEMMA MessageParts ==
    ASSUME NEW m \in Packets
    PROVE  /\ m.method \in {"initialize", "shutdown", "hover", "unknown"} => m.id \in Nat
           /\ m.method \in {"didOpen", "didChange"} => m.file \in Files /\ m.text \in Texts
           /\ m.method = "didClose" => m.file \in Files
<1>1. \/ m \in [method : {"initialize", "shutdown", "hover", "unknown"}, id : Nat]
      \/ m \in [method : {"initialized", "exit", "didSave"}]
      \/ m \in [method : {"didClose"}, file : Files]
      \/ m \in [method : {"didOpen", "didChange"}, file : Files, text : Texts]
      \/ m = [method |-> "garbage"]
  BY DEF Packets, Messages, Notifications, Garbage
<1> QED
  BY <1>1

LEMMA ToSeverTyped ==
    ASSUME LSPInv
    PROVE  ToSever \in Seq(Packets) /\ sent \in Seq(Messages)
<1>1. /\ sent \in Seq(Messages) /\ ClientPackets \in Seq(Packets) /\ PacketsToRun \in Seq(Packets)
      /\ InHand \in Seq(Packets)
  BY DEF LSPInv, QueuesOK, InHand
<1> QED
  BY <1>1 DEF ToSever

LEMMA ToEditorTyped ==
    ASSUME NEW m \in Packets
    PROVE  /\ m.method \in {"initialize", "shutdown"} => Result(m) \in Answer
           /\ m.method \in {"hover", "unknown"} =>
                \A c \in {"ServerNotInitialized", "InvalidRequest", "MethodNotFound"} :
                  ResponseError(m, c) \in Answer
<1>1. m.method \in {"initialize", "shutdown", "hover", "unknown"} => m.id \in Nat
  BY MessageParts
<1> QED
  BY <1>1 DEF Answer, Result, ResponseError

LEMMA PublishedTyped ==
    ASSUME SessionTypes, NEW l \in Seq(Error)
    PROVE  Published(l) \in Seq(DiagnosticsOf(Files))
<1>1. CASE ~ErrorsChanged
  BY <1>1, EmptyTyped DEF Published
<1>2. CASE ErrorsChanged /\ CurrentErrors = <<>>
  <2>1. order \in Seq(Open) /\ Open \subseteq Files
    BY OrderOfOpen DEF SessionTypes
  <2>2. \A i \in 1..Len(order) : Diagnostics(order[i], <<>>) \in DiagnosticsOf(Files)
    <3>1. <<>> \in Seq(Errors)
      BY EmptyTyped
    <3>2. \A i \in 1..Len(order) : order[i] \in Files
      BY <2>1
    <3> QED
      BY <3>1, <3>2 DEF Diagnostics, DiagnosticsOf
  <2>3. [i \in 1..Len(order) |-> Diagnostics(order[i], <<>>)] \in [1..Len(order) -> DiagnosticsOf(Files)]
    BY <2>2
  <2>4. DOMAIN order = 1..Len(order) /\ Len(order) \in Nat
    BY <2>1
  <2>5. Published(l) = [i \in 1..Len(order) |-> Diagnostics(order[i], <<>>)]
    BY <1>2, <2>4 DEF Published
  <2> QED
    BY <2>3, <2>4, <2>5, FunctionTyped
<1>3. CASE ErrorsChanged /\ CurrentErrors # <<>>
  BY <1>3, GroupedTyped DEF Published
<1> QED
  BY <1>1, <1>2, <1>3

\* A step of the analyzer: the list, and what is sent.
LEMMA ReportsTyped ==
    ASSUME SessionTypes, ListOK, Reports
    PROVE  /\ ClientErrors' \in Seq(Error)
           /\ Published(ClientErrors') \in Seq(DiagnosticsOf(Files))
<1>1. ClientErrors' \in Seq(Error)
  <2>1. ClientErrors' \in Sortings(CurrentErrors) \/ ClientErrors' = ClientErrors
    BY DEF Reports, Refresh
  <2> QED
    BY <2>1, CurrentList, SortingsTyped DEF SessionTypes
<1> QED
  BY <1>1, PublishedTyped

LEMMA AnalyzedTyped ==
    ASSUME NEW f \in UCFile
    PROVE  AnalyzedParseAndLex(f) \in UCFile
<1> DEFINE t == f.text
           a == [f EXCEPT !.lexed = t, !.lexErrors = NoError, !.parseErrors = ParseError[t]]
           b == [f EXCEPT !.lexed = t, !.lexErrors = LexError[t]]
           c == [a EXCEPT !.tree = t]
<1>1. t \in Texts /\ LexError[t] \in Errors /\ ParseError[t] \in Errors
  <2>1. t \in Texts
    BY DEF UCFile
  <2> QED
    BY <2>1, ErrorsAre
<1> HIDE DEF t
<1>2. a \in UCFile
  BY <1>1 DEF UCFile
<1>3. b \in UCFile
  BY <1>1 DEF UCFile
<1>4. c \in UCFile
  <2> HIDE DEF a
  <2> QED
    BY <1>1, <1>2 DEF UCFile
<1>5. AnalyzedParseAndLex(f) \in {f, a, b, c}
  BY DEF AnalyzedParseAndLex, t
<1> QED
  BY <1>2, <1>3, <1>4, <1>5

\* A message handled.
LEMMA ServesTypes ==
    ASSUME SessionTypes, NEW m \in Packets, OnReceivedPacket(m), UNCHANGED stdout
    PROVE  SessionTypes'
<1> USE DEF SessionTypes, session
<1>1. ASSUME NEW p \in Answer, SendPacketToClient(p)
      PROVE  SeverPackets' \in Seq(Reply)
  <2>1. p \in Reply /\ SeverPackets' = Append(SeverPackets, p)
    BY <1>1 DEF SendPacketToClient, Reply
  <2> QED
    BY <2>1, AppendTyped
<1>2. ASSUME UNCHANGED files PROVE Open' = Open
  BY <1>2 DEF Open
<1>3. CASE Sever_initialize(m) \/ MethodNotFound(m)
  <2>1. UNCHANGED <<session, terminated>>
    BY <1>3 DEF Sever_initialize, MethodNotFound
  <2>2. \E p \in Answer : SendPacketToClient(p)
    BY <1>3, ToEditorTyped DEF Sever_initialize, MethodNotFound
  <2>3. SeverPackets' \in Seq(Reply)
    BY <1>1, <2>2
  <2> QED
    BY <1>2, <2>1, <2>3
<1>4. CASE textDocument_hover(m)
  <2>1. UNCHANGED <<session, terminated>>
    BY <1>4 DEF textDocument_hover
  <2>2. (\E p \in Answer : SendPacketToClient(p)) \/ UNCHANGED SeverPackets
    BY <1>4, ToEditorTyped DEF textDocument_hover
  <2>3. SeverPackets' \in Seq(Reply)
    BY <1>1, <2>2
  <2> QED
    BY <1>2, <2>1, <2>3
<1>5. CASE Sever_Shutdown(m)
  <2>1. SendPacketToClient(Result(m)) /\ Result(m) \in Answer
    BY <1>5, ToEditorTyped DEF Sever_Shutdown
  <2>2. SeverPackets' \in Seq(Reply)
    BY <1>1, <2>1
  <2> QED
    BY <1>2, <1>5, <2>2 DEF Sever_Shutdown
<1>6. CASE Sever_initialized(m) \/ Sever_Exit(m) \/ Ignored(m) \/ NotJson(m)
  BY <1>2, <1>6 DEF Sever_initialized, Sever_Exit, Ignored, NotJson
<1>7. CASE textDocument_didOpen(m)
  <2>1. /\ files' = [f \in Open \cup {m.file} |-> IF f = m.file THEN NewFile(m.text) ELSE files[f]]
        /\ IF m.file \in Open THEN UNCHANGED order ELSE order' \in SetToSeqs(Open \cup {m.file})
        /\ UNCHANGED <<ErrorList, ClientErrors, IsInitialized, IsShutdown, Runing, SeverPackets, terminated>>
    BY <1>7 DEF textDocument_didOpen
  <2>2. m.file \in Files /\ m.text \in Texts
    BY <1>7, MessageParts DEF textDocument_didOpen
  <2>3. NewFile(m.text) \in UCFile
    BY <2>2, NoErrorIsError DEF NewFile, UCFile
  <2>4. Open' = Open \cup {m.file}
    BY <2>1 DEF Open
  <2>5. files' \in [Open \cup {m.file} -> UCFile]
    BY <2>1, <2>3
  <2>6. IsFiniteSet(Open \cup {m.file})
    BY FS_AddElement
  <2>7. order' \in SetToSeqs(Open \cup {m.file})
    <3>1. m.file \in Open => Open \cup {m.file} = Open
      OBVIOUS
    <3> QED
      BY <2>1, <3>1
  <2> QED
    BY <2>1, <2>2, <2>4, <2>5, <2>6, <2>7
<1>8. CASE textDocument_didClose(m)
  <2> DEFINE kept == Only(order, Files \ {m.file})
  <2>1. /\ files' = [f \in Open \ {m.file} |-> files[f]] /\ order' = kept
        /\ UNCHANGED <<ErrorList, ClientErrors, IsInitialized, IsShutdown, Runing, SeverPackets, terminated>>
    BY <1>8 DEF textDocument_didClose
  <2>2. Open' = Open \ {m.file} /\ files' \in [Open \ {m.file} -> UCFile]
    BY <2>1 DEF Open
  <2>3. IsFiniteSet(Open \ {m.file})
    BY FS_RemoveElement
  <2>4. order \in Seq(Open) /\ IsInjective(order) /\ \A x \in Open : \E i \in 1..Len(order) : order[i] = x
    BY OrderOfOpen
  <2>5. IsInjective(kept)
    BY <2>4, OnlyDistinct
  <2>6. Selects(Open, Files \ {m.file}, order, kept)
    BY <2>4, OnlySelection
  <2> HIDE DEF kept
  <2>7. Open \intersect (Files \ {m.file}) = Open \ {m.file}
    OBVIOUS
  <2>8. kept \in Seq(Open \ {m.file})
    BY <2>6, <2>7 DEF Selects
  <2>9. ASSUME NEW x \in Open \ {m.file} PROVE \E j \in 1..Len(kept) : kept[j] = x
    <3>1. PICK i \in 1..Len(order) : order[i] = x
      BY <2>4
    <3>2. order[i] \in Files \ {m.file}
      BY <3>1
    <3> QED
      BY <2>6, <3>1, <3>2 DEF Selects
  <2>10. kept \in SetToSeqs(Open \ {m.file})
    BY <2>3, <2>5, <2>8, <2>9, Orders DEF Enumerates
  <2> QED
    BY <2>1, <2>2, <2>3, <2>10
<1>9. CASE textDocument_didChange(m)
  <2>1. /\ IF m.file \in Open
           THEN files' = [files EXCEPT ![m.file].text = m.text] /\ UNCHANGED terminated
           ELSE terminated' = "no such file" /\ UNCHANGED files
        /\ UNCHANGED <<order, ErrorList, ClientErrors, IsInitialized, IsShutdown, Runing, SeverPackets>>
    BY <1>9 DEF textDocument_didChange
  <2>2. m.text \in Texts
    BY <1>9, MessageParts DEF textDocument_didChange
  <2>3. CASE m.file \in Open
    <3> DEFINE g == [files[m.file] EXCEPT !.text = m.text]
    <3>1. files[m.file] \in UCFile
      BY <2>3
    <3>2. g \in UCFile
      BY <2>2, <3>1 DEF UCFile
    <3>3. files' = [files EXCEPT ![m.file] = g]
      BY <2>1, <2>3
    <3> HIDE DEF g
    <3>4. files' \in [Open -> UCFile]
      BY <3>2, <3>3
    <3>5. Open' = Open
      BY <3>4 DEF Open
    <3> QED
      BY <2>1, <2>3, <3>4, <3>5
  <2>4. CASE m.file \notin Open
    BY <1>2, <2>1, <2>4
  <2> QED
    BY <2>3, <2>4
<1> QED
  BY <1>3, <1>4, <1>5, <1>6, <1>7, <1>8, <1>9 DEF OnReceivedPacket

LEMMA ReportsTypes ==
    ASSUME SessionTypes, ListOK, Reports
    PROVE  SessionTypes'
<1>1. /\ files' = Analyzed /\ ErrorList' = CurrentErrors
      /\ terminated' \in {terminated, "no such file"}
      /\ UNCHANGED <<order, IsInitialized, IsShutdown, Runing, stdout>>
      /\ SeverPackets' = SeverPackets \o Published(ClientErrors')
  BY DEF Reports, Refresh
<1>2. Analyzed \in [Open -> UCFile]
  BY AnalyzedTyped DEF SessionTypes, Analyzed
<1>3. Open' = Open
  BY <1>1, <1>2 DEF Open
<1>4. ErrorList' \in Seq(Error) /\ ClientErrors' \in Seq(Error)
  BY <1>1, CurrentList, ReportsTyped
<1>5. SeverPackets' \in Seq(Reply)
  <2>1. Published(ClientErrors') \in Seq(DiagnosticsOf(Files))
    BY ReportsTyped
  <2>2. DiagnosticsOf(Files) \subseteq Reply
    BY DEF Reply
  <2>3. \A S, T : S \subseteq T => Seq(S) \subseteq Seq(T)
    OBVIOUS
  <2>4. Published(ClientErrors') \in Seq(Reply)
    BY <2>1, <2>2, <2>3
  <2> QED
    BY <1>1, <2>4, ConcatPlaces DEF SessionTypes
<1> QED
  BY <1>1, <1>2, <1>3, <1>4, <1>5 DEF SessionTypes

LEMMA SessionTypesStep ==
    ASSUME LSPInv, SessionTypes, ListOK, Sends \/ Serves \/ Reports \/ Delivers \/ Dies \/ Aside
    PROVE  SessionTypes'
<1>1. CASE Sends \/ Delivers \/ Dies \/ Aside
  <2>1. UNCHANGED session
    BY <1>1 DEF Sends, Delivers, Dies, Aside
  <2>2. Open' = Open
    BY <2>1 DEF Open, session
  <2>3. terminated' \in {terminated, "no server", "freed server"}
    BY <1>1 DEF Sends, Delivers, Dies, Aside
  <2>4. \/ stdout' = stdout /\ SeverPackets' = SeverPackets
        \/ stdout' = stdout \o SeverPackets /\ SeverPackets' = <<>>
    BY <1>1 DEF Sends, Delivers, Dies, Aside
  <2>5. /\ stdout' \in Seq(Reply)
        /\ SeverPackets' \in Seq(Reply)
    BY <2>4, EmptyTyped, ConcatPlaces DEF SessionTypes
  <2> QED
    BY <2>1, <2>2, <2>3, <2>5 DEF SessionTypes, session
<1>2. CASE Serves
  <2>1. Head(ToSever) \in Packets
    BY <1>2, ToSeverTyped DEF Serves
  <2> QED
    BY <1>2, <2>1, ServesTypes DEF Serves
<1>3. CASE Reports
  BY <1>3, ReportsTypes
<1> QED
  BY <1>1, <1>2, <1>3

-----------------------------------------------------------------------------
(* What has been handled.                                                  *)

\* The messages before a place stay what they are when one more is sent.
LEMMA SentGrows ==
    ASSUME sent \in Seq(Messages), NEW m \in Messages, sent' = Append(sent, m)
    PROVE  /\ Len(sent) \in Nat /\ Len(sent') = Len(sent) + 1 /\ sent'[Len(sent) + 1] = m
           /\ \A i \in 1..Len(sent) : sent'[i] = sent[i]
           /\ \A n \in 0..Len(sent) : \A x : Before(n + 1, x)' <=> Before(n + 1, x)
           /\ \A n \in 0..Len(sent) : \A f : OpenAfter(n, f)' <=> OpenAfter(n, f)
<1>1. /\ Len(sent) \in Nat /\ Len(sent') = Len(sent) + 1 /\ sent'[Len(sent) + 1] = m
      /\ \A i \in 1..Len(sent) : sent'[i] = sent[i]
  BY AppendTyped
<1>2. ASSUME NEW n \in 0..Len(sent), NEW x PROVE Before(n + 1, x)' <=> Before(n + 1, x)
  <2>1. \A j \in 1..((n + 1) - 1) : sent'[j] = sent[j]
    BY <1>1
  <2> QED
    BY <2>1 DEF Before
<1>3. ASSUME NEW n \in 0..Len(sent), NEW f PROVE OpenAfter(n, f)' <=> OpenAfter(n, f)
  <2>1. \A j \in 1..n : sent'[j] = sent[j]
    BY <1>1
  <2>2. \A i \in 1..n : \A j \in (i + 1)..n : sent'[j] = sent[j]
    BY <1>1
  <2> QED
    <3> DEFINE at(i) == sent[i].method = "didOpen" /\ sent[i].file = f
               shut(i, j) == sent[j].method = "didClose" /\ sent[j].file = f
    <3>1. \A i \in 1..n : (at(i))' <=> at(i)
      BY <2>1
    <3>2. \A i \in 1..n : \A j \in (i + 1)..n : (shut(i, j))' <=> shut(i, j)
      BY <2>2
    <3>3. OpenAfter(n, f) <=> \E i \in 1..n : at(i) /\ \A j \in (i + 1)..n : ~shut(i, j)
      BY DEF OpenAfter
    <3>4. OpenAfter(n, f)' <=> \E i \in 1..n : (at(i))' /\ \A j \in (i + 1)..n : ~(shut(i, j))'
      BY DEF OpenAfter
    <3> HIDE DEF at, shut
    <3> QED
      BY <3>1, <3>2, <3>3, <3>4, Zenon
<1> QED
  BY <1>1, <1>2, <1>3

LEMMA SentSame ==
    ASSUME UNCHANGED sent
    PROVE  /\ \A n, x : Before(n, x)' <=> Before(n, x)
           /\ \A n, f : OpenAfter(n, f)' <=> OpenAfter(n, f)
           /\ Undisturbed' <=> Undisturbed
           /\ \A i : Verdict(i)' = Verdict(i)
<1>1. \A n, x : Before(n, x)' <=> Before(n, x)
  BY DEF Before
<1>2. \A n, f : OpenAfter(n, f)' <=> OpenAfter(n, f)
  BY DEF OpenAfter
<1>3. Undisturbed' <=> Undisturbed
  BY DEF Undisturbed
<1>4. \A i : Verdict(i)' = Verdict(i)
  BY <1>1 DEF Verdict
<1> QED
  BY <1>1, <1>2, <1>3, <1>4

\* What is sent in an undisturbed session arrives.
LEMMA SendsUndisturbed ==
    ASSUME LSPInv, Sends, Undisturbed'
    PROVE  \E m \in Messages :
             /\ MaySend(m) /\ sent' = Append(sent, m)
             /\ Undisturbed /\ ToSever' = Append(ToSever, Arrives(m))
<1>1. PICK m \in Requests \cup Notifications :
        /\ MaySend(m) /\ sent' = Append(sent, m)
        /\ \/ ToSever' = Append(ToSever, Arrives(m))
           \/ \E i \in DOMAIN Append(sent, m) : Braces(Append(sent, m)[i]) # 0
  BY DEF Sends
<1>2. sent \in Seq(Messages) /\ m \in Messages
  BY ToSeverTyped, MessageTypes
<1>3. \A i \in DOMAIN sent' : Braces(sent'[i]) = 0
  BY DEF Undisturbed, Braces, HasText
<1>4. ToSever' = Append(ToSever, Arrives(m))
  BY <1>1, <1>3
<1>5. /\ \A i \in 1..Len(sent) : sent'[i] = sent[i]
      /\ Len(sent') = Len(sent) + 1 /\ Len(sent) \in Nat
  BY <1>1, <1>2, SentGrows
<1>6. DOMAIN sent = 1..Len(sent) /\ DOMAIN sent' = 1..Len(sent')
  BY <1>1, <1>2
<1>7. Undisturbed
  <2> SUFFICES ASSUME NEW i \in 1..Len(sent) PROVE Braces(sent[i]) = 0
    BY <1>6 DEF Undisturbed
  <2>1. i \in DOMAIN sent' /\ sent'[i] = sent[i]
    BY <1>5, <1>6
  <2> QED
    BY <1>3, <2>1
<1> QED
  BY <1>1, <1>2, <1>4, <1>7

\* The pipe leaves what the handlers look at, but for the text.
LEMMA ArrivesParts ==
    ASSUME NEW m \in Messages
    PROVE  /\ Arrives(m).method = m.method
           /\ m.method \in {"didOpen", "didChange", "didClose"} => Arrives(m).file = m.file
           /\ m.method \notin {"didOpen", "didChange"} => Arrives(m) = m
<1>1. CASE HasText(m)
  <2>1. m \in [method : {"didOpen", "didChange"}, file : Files, text : Texts]
    BY <1>1 DEF HasText, Messages, Notifications
  <2>2. Arrives(m) = [m EXCEPT !.text = Spaceless[m.text]]
    BY <1>1 DEF Arrives
  <2>3. Arrives(m).method = m.method /\ Arrives(m).file = m.file
    BY <2>1, <2>2
  <2> QED
    BY <1>1, <2>3 DEF HasText
<1>2. CASE ~HasText(m)
  BY <1>2 DEF Arrives, HasText
<1> QED
  BY <1>1, <1>2

\* One more message is among those handled.
LEMMA BeforeNext ==
    ASSUME NEW n \in Nat, NEW x
    PROVE  Before(n + 2, x) <=> Before(n + 1, x) \/ sent[n + 1].method = x
<1>1. \A j : j \in 1..((n + 2) - 1) <=> j \in 1..((n + 1) - 1) \/ j = n + 1
  OBVIOUS
<1> QED
  BY <1>1 DEF Before

LEMMA OpenNext ==
    ASSUME NEW n \in Nat, NEW f
    PROVE  OpenAfter(n + 1, f) <=>
             \/ sent[n + 1].method = "didOpen" /\ sent[n + 1].file = f
             \/ /\ OpenAfter(n, f)
                /\ ~(sent[n + 1].method = "didClose" /\ sent[n + 1].file = f)
<1> DEFINE Opened(i) == sent[i].method = "didOpen" /\ sent[i].file = f
           Closed(i) == sent[i].method = "didClose" /\ sent[i].file = f
<1>1. /\ OpenAfter(n + 1, f) <=> \E i \in 1..(n + 1) : Opened(i) /\ \A j \in (i + 1)..(n + 1) : ~Closed(j)
      /\ OpenAfter(n, f) <=> \E i \in 1..n : Opened(i) /\ \A j \in (i + 1)..n : ~Closed(j)
  BY DEF OpenAfter
<1> HIDE DEF Opened, Closed
<1>2. ASSUME OpenAfter(n + 1, f) PROVE Opened(n + 1) \/ (OpenAfter(n, f) /\ ~Closed(n + 1))
  <2>1. PICK i \in 1..(n + 1) : Opened(i) /\ \A j \in (i + 1)..(n + 1) : ~Closed(j)
    BY <1>1, <1>2
  <2>2. CASE i = n + 1
    BY <2>1, <2>2
  <2>3. CASE i # n + 1
    <3>1. i \in 1..n /\ n + 1 \in (i + 1)..(n + 1) /\ \A j \in (i + 1)..n : j \in (i + 1)..(n + 1)
      BY <2>3
    <3> QED
      BY <1>1, <2>1, <3>1
  <2> QED
    BY <2>2, <2>3
<1>3. ASSUME Opened(n + 1) PROVE OpenAfter(n + 1, f)
  <2>1. n + 1 \in 1..(n + 1) /\ \A j \in ((n + 1) + 1)..(n + 1) : FALSE
    OBVIOUS
  <2> QED
    BY <1>1, <1>3, <2>1
<1>4. ASSUME OpenAfter(n, f), ~Closed(n + 1) PROVE OpenAfter(n + 1, f)
  <2>1. PICK i \in 1..n : Opened(i) /\ \A j \in (i + 1)..n : ~Closed(j)
    BY <1>1, <1>4
  <2>2. i \in 1..(n + 1) /\ \A j \in (i + 1)..(n + 1) : j \in (i + 1)..n \/ j = n + 1
    OBVIOUS
  <2> QED
    BY <1>1, <1>4, <2>1, <2>2
<1> QED
  BY <1>2, <1>3, <1>4 DEF Opened, Closed

\* What handling a message does to the phase of the session, the documents, the
\* lists and the process.
LEMMA ServesEffects ==
    ASSUME SessionTypes, NEW m \in Packets, OnReceivedPacket(m)
    PROVE  /\ IsInitialized' <=> IsInitialized \/ m.method = "initialized"
           /\ IsShutdown' <=> IsShutdown \/ m.method = "shutdown"
           /\ \A f : f \in Open' <=> \/ m.method = "didOpen" /\ m.file = f
                                     \/ f \in Open /\ ~(m.method = "didClose" /\ m.file = f)
           /\ UNCHANGED <<ErrorList, ClientErrors>>
           /\ terminated' = "no such file" =>
                terminated = "no such file" \/ (m.method = "didChange" /\ m.file \notin Open)
<1> USE DEF session
<1>1. ASSUME UNCHANGED files PROVE Open' = Open
  BY <1>1 DEF Open
<1>2. CASE Sever_initialize(m) \/ MethodNotFound(m) \/ textDocument_hover(m) \/ Ignored(m)
  <2>1. UNCHANGED <<files, ErrorList, ClientErrors, IsInitialized, IsShutdown, terminated>>
    BY <1>2 DEF Sever_initialize, MethodNotFound, textDocument_hover, Ignored
  <2>2. m.method \in {"initialize", "unknown", "hover", "didSave"}
    BY <1>2 DEF Sever_initialize, MethodNotFound, textDocument_hover, Ignored
  <2>3. /\ m.method # "initialized" /\ m.method # "shutdown" /\ m.method # "didOpen"
        /\ m.method # "didClose"
    BY <2>2
  <2>4. Open' = Open
    BY <1>1, <2>1
  <2> QED
    BY <2>1, <2>3, <2>4, Zenon
<1>3. CASE Sever_initialized(m)
  <2>1. UNCHANGED <<files, ErrorList, ClientErrors, IsShutdown, terminated>> /\ IsInitialized' = TRUE
    BY <1>3 DEF Sever_initialized
  <2>2. m.method = "initialized"
    BY <1>3 DEF Sever_initialized
  <2>3. m.method # "shutdown" /\ m.method # "didOpen" /\ m.method # "didClose"
    BY <2>2
  <2>4. Open' = Open
    BY <1>1, <2>1
  <2> QED
    BY <2>1, <2>2, <2>3, <2>4, Zenon
<1>8. CASE Sever_Shutdown(m)
  <2>1. UNCHANGED <<files, ErrorList, ClientErrors, IsInitialized, terminated>> /\ IsShutdown' = TRUE
    BY <1>8 DEF Sever_Shutdown
  <2>2. m.method = "shutdown"
    BY <1>8 DEF Sever_Shutdown
  <2>3. m.method # "initialized" /\ m.method # "didOpen" /\ m.method # "didClose"
    BY <2>2
  <2>4. Open' = Open
    BY <1>1, <2>1
  <2> QED
    BY <2>1, <2>2, <2>3, <2>4, Zenon
<1>4. CASE Sever_Exit(m) \/ NotJson(m)
  <2>1. /\ UNCHANGED <<files, ErrorList, ClientErrors, IsInitialized, IsShutdown>>
        /\ terminated' = terminated \/ terminated' = "not json"
    BY <1>4 DEF Sever_Exit, NotJson
  <2>2. m.method \in {"exit", "garbage"}
    BY <1>4 DEF Sever_Exit, NotJson
  <2>3. /\ m.method # "initialized" /\ m.method # "shutdown" /\ m.method # "didOpen"
        /\ m.method # "didClose"
    BY <2>2
  <2>4. Open' = Open
    BY <1>1, <2>1
  <2>5. terminated' = "no such file" => terminated = "no such file"
    BY <2>1
  <2> QED
    BY <2>1, <2>3, <2>4, <2>5, Zenon
<1>5. CASE textDocument_didOpen(m)
  <2>1. files' = [f \in Open \cup {m.file} |-> IF f = m.file THEN NewFile(m.text) ELSE files[f]]
    BY <1>5 DEF textDocument_didOpen
  <2>2. Open' = Open \cup {m.file}
    BY <2>1 DEF Open
  <2> QED
    BY <1>5, <2>2 DEF textDocument_didOpen
<1>6. CASE textDocument_didClose(m)
  <2>1. Open' = Open \ {m.file}
    BY <1>6 DEF textDocument_didClose, Open
  <2> QED
    BY <1>6, <2>1 DEF textDocument_didClose
<1>7. CASE textDocument_didChange(m)
  <2>1. Open' = Open
    BY <1>7 DEF textDocument_didChange, Open
  <2> QED
    BY <1>7, <2>1 DEF textDocument_didChange
<1> QED
  BY <1>2, <1>3, <1>4, <1>5, <1>6, <1>7, <1>8 DEF OnReceivedPacket

-----------------------------------------------------------------------------
(* The steps of the session keep its invariant, part by part.              *)

LEMMA ListStep ==
    ASSUME LSPInv, SessionTypes, ListOK, Sends \/ Serves \/ Reports \/ Delivers \/ Dies \/ Aside
    PROVE  ListOK'
<1>1. CASE Sends \/ Delivers \/ Dies \/ Aside
  <2>1. ErrorList' = ErrorList /\ IsInitialized' = IsInitialized
    BY <1>1 DEF Sends, Delivers, Dies, Aside, session
  <2> QED
    BY <2>1 DEF ListOK, Runs
<1>2. CASE Serves
  <2>1. Head(ToSever) \in Packets
    BY <1>2, ToSeverTyped DEF Serves
  <2>2. ErrorList' = ErrorList /\ (~IsInitialized' => ~IsInitialized)
    BY <1>2, <2>1, ServesEffects, Zenon DEF Serves
  <2> QED
    BY <2>2 DEF ListOK, Runs
<1>3. CASE Reports
  <2>1. ErrorList' = CurrentErrors /\ IsInitialized' = IsInitialized
    BY <1>3 DEF Reports, Refresh
  <2>2. Runs(CurrentErrors) /\ (~IsInitialized => CurrentErrors = <<>>)
    BY CurrentList
  <2>3. Runs(ErrorList)' <=> Runs(CurrentErrors)
    BY <2>1 DEF Runs
  <2> QED
    BY <2>1, <2>2, <2>3 DEF ListOK
<1> QED
  BY <1>1, <1>2, <1>3

LEMMA EditorStep ==
    ASSUME LSPInv, EditorKeepsRules, Sends \/ UNCHANGED sent
    PROVE  EditorKeepsRules'
<1>1. CASE UNCHANGED sent
  BY <1>1, SentSame DEF EditorKeepsRules
<1>2. CASE Sends
  <2>1. PICK m \in Requests \cup Notifications : MaySend(m) /\ sent' = Append(sent, m)
    BY <1>2 DEF Sends
  <2>2. sent \in Seq(Messages) /\ m \in Messages
    BY ToSeverTyped, MessageTypes
  <2>3. /\ Len(sent) \in Nat /\ Len(sent') = Len(sent) + 1 /\ sent'[Len(sent) + 1] = m
        /\ \A i \in 1..Len(sent) : sent'[i] = sent[i]
        /\ \A n \in 0..Len(sent) : \A f : OpenAfter(n, f)' <=> OpenAfter(n, f)
    BY <2>1, <2>2, SentGrows
  <2>4. DOMAIN sent = 1..Len(sent) /\ DOMAIN sent' = 1..Len(sent')
    BY <2>1, <2>2
  <2> SUFFICES ASSUME NEW i \in 1..Len(sent'), NEW f, f = sent'[i].file,
                      sent'[i].method \in {"didChange", "didClose"}
               PROVE  OpenAfter(i - 1, f)'
    BY <2>4 DEF EditorKeepsRules, OpenAfter
  <2>5. i - 1 \in 0..Len(sent) /\ (i \in 1..Len(sent) \/ i = Len(sent) + 1)
    BY <2>3
  <2>6. OpenAfter(i - 1, f)
    <3>1. CASE i \in 1..Len(sent)
      BY <2>3, <2>4, <3>1 DEF EditorKeepsRules
    <3>2. CASE i = Len(sent) + 1
      <4>1. m.method \in {"didChange", "didClose"} /\ f = m.file
        BY <2>3, <3>2
      <4>2. OpenAfter(Len(sent), m.file)
        BY <2>1, <4>1 DEF MaySend, OpenInEditor
      <4>3. i - 1 = Len(sent)
        BY <2>3, <3>2
      <4> QED
        BY <4>1, <4>2, <4>3
    <3> QED
      BY <2>5, <3>1, <3>2
  <2> QED
    BY <2>3, <2>5, <2>6
<1> QED
  BY <1>1, <1>2

\* InTurn after a step, with the number of messages handled by name.
LEMMA InTurnAt ==
    ASSUME NEW n \in Nat, n = Handled',
           \A i \in DOMAIN ToSever' : ToSever'[i] = Arrives(sent'[n + i]),
           IsInitialized' <=> Before(n + 1, "initialized")',
           IsShutdown' <=> Before(n + 1, "shutdown")',
           \A f \in Files : f \in Open' <=> OpenAfter(n, f)'
    PROVE  InTurn'
<1>1. IsInitialized' <=> Before(Handled + 1, "initialized")'
  BY DEF Before
<1>2. IsShutdown' <=> Before(Handled + 1, "shutdown")'
  BY DEF Before
<1>3. \A f \in Files : f \in Open' <=> OpenAfter(Handled, f)'
  BY DEF OpenAfter
<1>4. \A i \in DOMAIN ToSever' : ToSever'[i] = Arrives(sent[Handled + i])'
  BY DEF Arrives, HasText
<1>5. Handled' \in Nat
  OBVIOUS
<1> QED
  BY <1>1, <1>2, <1>3, <1>4, <1>5, Zenon DEF InTurn

\* What is handled next, in an undisturbed session.
LEMMA NextInTurn ==
    ASSUME LSPInv, InTurn, Undisturbed, ToSever # <<>>
    PROVE  /\ Handled \in Nat /\ Handled + 1 \in 1..Len(sent)
           /\ sent[Handled + 1] \in Messages
           /\ Head(ToSever) = Arrives(sent[Handled + 1])
           /\ Head(ToSever).method = sent[Handled + 1].method
           /\ Head(ToSever).method \in {"didOpen", "didChange", "didClose"} =>
                Head(ToSever).file = sent[Handled + 1].file
           /\ Head(ToSever).method \notin {"didOpen", "didChange"} =>
                Head(ToSever) = sent[Handled + 1]
<1>1. ToSever \in Seq(Packets) /\ sent \in Seq(Messages)
  BY ToSeverTyped
<1>2. Handled \in Nat /\ \A i \in DOMAIN ToSever : ToSever[i] = Arrives(sent[Handled + i])
  BY DEF InTurn
<1>3. Len(ToSever) \in Nat /\ Len(ToSever) >= 1 /\ Head(ToSever) = ToSever[1] /\ 1 \in DOMAIN ToSever
  BY <1>1
<1>4. Handled + 1 \in 1..Len(sent)
  <2>1. Len(sent) \in Nat
    BY <1>1
  <2> QED
    BY <1>2, <1>3, <2>1 DEF Handled
<1>5. sent[Handled + 1] \in Messages
  BY <1>1, <1>4
<1>6. Head(ToSever) = Arrives(sent[Handled + 1])
  BY <1>2, <1>3
<1> QED
  BY <1>2, <1>4, <1>5, <1>6, ArrivesParts

LEMMA TurnStep ==
    ASSUME LSPInv, SessionTypes, InTurn, Sends \/ Serves \/ Reports \/ Delivers \/ Dies \/ Aside
    PROVE  InTurn'
<1> SUFFICES ASSUME Undisturbed' PROVE InTurn'
  BY DEF InTurn
<1>t. ToSever \in Seq(Packets) /\ sent \in Seq(Messages)
  BY ToSeverTyped
<1>1. CASE Reports \/ Delivers \/ Dies \/ Aside
  <2>1. UNCHANGED <<sent, ToSever, IsInitialized, IsShutdown>>
    BY <1>1 DEF Reports, Refresh, Delivers, Dies, Aside, session
  <2>2. Open' = Open
    <3>1. CASE Reports
      BY <3>1 DEF Reports, Refresh, Analyzed, Open, SessionTypes
    <3>2. CASE Delivers \/ Dies \/ Aside
      BY <3>2 DEF Delivers, Dies, Aside, session, Open
    <3> QED
      BY <1>1, <3>1, <3>2
  <2>3. Undisturbed
    BY <2>1, SentSame
  <2>4. PICK n \in Nat : n = Handled
    BY <2>3 DEF InTurn
  <2>5. /\ \A i \in DOMAIN ToSever : ToSever[i] = Arrives(sent[n + i])
        /\ IsInitialized <=> Before(n + 1, "initialized")
        /\ IsShutdown <=> Before(n + 1, "shutdown")
        /\ \A f \in Files : f \in Open <=> OpenAfter(n, f)
    BY <2>3, <2>4, Zenon DEF InTurn
  <2>6. n = Handled'
    BY <2>1, <2>4 DEF Handled
  <2>7. /\ Before(n + 1, "initialized")' <=> Before(n + 1, "initialized")
        /\ Before(n + 1, "shutdown")' <=> Before(n + 1, "shutdown")
        /\ \A f : OpenAfter(n, f)' <=> OpenAfter(n, f)
    BY <2>1, SentSame
  <2>8. \A i \in DOMAIN ToSever' : ToSever'[i] = Arrives(sent'[n + i])
    BY <2>1, <2>5
  <2>9. /\ IsInitialized' <=> Before(n + 1, "initialized")'
        /\ IsShutdown' <=> Before(n + 1, "shutdown")'
        /\ \A f \in Files : f \in Open' <=> OpenAfter(n, f)'
    BY <2>1, <2>2, <2>5, <2>7, Zenon
  <2> QED
    BY <2>6, <2>8, <2>9, InTurnAt
<1>2. CASE Sends
  <2>1. PICK m \in Messages :
          /\ MaySend(m) /\ sent' = Append(sent, m)
          /\ Undisturbed /\ ToSever' = Append(ToSever, Arrives(m))
    BY <1>2, SendsUndisturbed
  <2>2. /\ Len(sent) \in Nat /\ Len(sent') = Len(sent) + 1 /\ sent'[Len(sent) + 1] = m
        /\ \A i \in 1..Len(sent) : sent'[i] = sent[i]
        /\ \A n \in 0..Len(sent) : \A x : Before(n + 1, x)' <=> Before(n + 1, x)
        /\ \A n \in 0..Len(sent) : \A f : OpenAfter(n, f)' <=> OpenAfter(n, f)
    BY <1>t, <2>1, SentGrows
  <2>3. UNCHANGED <<files, IsInitialized, IsShutdown>>
    BY <1>2 DEF Sends, session
  <2>4. PICK n \in Nat : n = Handled
    BY <2>1 DEF InTurn
  <2>5. /\ \A i \in DOMAIN ToSever : ToSever[i] = Arrives(sent[n + i])
        /\ IsInitialized <=> Before(n + 1, "initialized")
        /\ IsShutdown <=> Before(n + 1, "shutdown")
        /\ \A f \in Files : f \in Open <=> OpenAfter(n, f)
    BY <2>1, <2>4, Zenon DEF InTurn
  <2>6. /\ Len(ToSever) \in Nat /\ Len(ToSever') = Len(ToSever) + 1
        /\ DOMAIN ToSever = 1..Len(ToSever) /\ DOMAIN ToSever' = 1..Len(ToSever')
        /\ \A i \in 1..Len(ToSever) : ToSever'[i] = ToSever[i]
        /\ ToSever'[Len(ToSever) + 1] = Arrives(m)
    <3>1. Arrives(m) \in Packets \cup {Arrives(m)} /\ ToSever \in Seq(Packets \cup {Arrives(m)})
      BY <1>t
    <3>2. Append(ToSever, Arrives(m)) \in Seq(Packets \cup {Arrives(m)})
      BY <3>1, AppendTyped
    <3> QED
      BY <2>1, <3>1, <3>2, AppendTyped
  <2>7. n = Handled' /\ n \in 0..Len(sent) /\ n + Len(ToSever) = Len(sent)
    BY <2>2, <2>4, <2>6 DEF Handled
  <2>8. \A i \in DOMAIN ToSever' : ToSever'[i] = Arrives(sent'[n + i])
    <3> SUFFICES ASSUME NEW i \in 1..Len(ToSever') PROVE ToSever'[i] = Arrives(sent'[n + i])
      BY <2>6
    <3>1. CASE i = Len(ToSever) + 1
      <4>1. n + i = Len(sent) + 1
        <5>1. \A a, b, c \in Nat : a + b = c => a + (b + 1) = c + 1
          OBVIOUS
        <5>2. n + (Len(ToSever) + 1) = Len(sent) + 1
          BY <2>2, <2>6, <2>7, <5>1
        <5> QED
          BY <3>1, <5>2
      <4> QED
        BY <2>2, <2>6, <3>1, <4>1
    <3>2. CASE i \in 1..Len(ToSever)
      <4>1. n + i \in 1..Len(sent)
        <5>1. \A a, b, c \in Nat : a + b = c => \A j \in 1..b : a + j \in 1..c
          OBVIOUS
        <5>2. \A j \in 1..Len(ToSever) : n + j \in 1..Len(sent)
          BY <2>2, <2>6, <2>7, <5>1
        <5> QED
          BY <3>2, <5>2
      <4> QED
        BY <2>2, <2>5, <2>6, <3>2, <4>1
    <3> QED
      BY <2>6, <3>1, <3>2
  <2>9. Open' = Open
    BY <2>3 DEF Open
  <2>10. /\ IsInitialized' <=> Before(n + 1, "initialized")'
         /\ IsShutdown' <=> Before(n + 1, "shutdown")'
         /\ \A f \in Files : f \in Open' <=> OpenAfter(n, f)'
    BY <2>2, <2>3, <2>5, <2>7, <2>9, Zenon
  <2> QED
    BY <2>7, <2>8, <2>10, InTurnAt
<1>3. CASE Serves
  <2>1. UNCHANGED sent /\ ToSever # <<>> /\ ToSever' = Tail(ToSever) /\ OnReceivedPacket(Head(ToSever))
    BY <1>3 DEF Serves
  <2>2. Undisturbed
    BY <2>1, SentSame
  <2>4. PICK n \in Nat : n = Handled
    BY <2>2 DEF InTurn
  <2>5. /\ \A i \in DOMAIN ToSever : ToSever[i] = Arrives(sent[n + i])
        /\ IsInitialized <=> Before(n + 1, "initialized")
        /\ IsShutdown <=> Before(n + 1, "shutdown")
        /\ \A f \in Files : f \in Open <=> OpenAfter(n, f)
    BY <2>2, <2>4, Zenon DEF InTurn
  <2> DEFINE m == Head(ToSever)
             k == sent[n + 1]
  <2>6. /\ m.method = k.method
        /\ m.method \in {"didOpen", "didChange", "didClose"} => m.file = k.file
    BY <2>1, <2>2, <2>4, NextInTurn
  <2>7. m \in Packets
    BY <1>t, <2>1
  <2>8. /\ Len(ToSever) \in Nat /\ Len(ToSever') = Len(ToSever) - 1
        /\ DOMAIN ToSever = 1..Len(ToSever) /\ DOMAIN ToSever' = 1..Len(ToSever')
        /\ \A i \in 1..Len(ToSever') : i + 1 \in 1..Len(ToSever) /\ ToSever'[i] = ToSever[i + 1]
    BY <1>t, <2>1
  <2>9. n + 1 = Handled'
    <3>1. Len(sent) \in Nat
      BY <1>t
    <3> QED
      BY <2>1, <2>4, <2>8, <3>1 DEF Handled
  <2>10. \A i \in DOMAIN ToSever' : ToSever'[i] = Arrives(sent'[(n + 1) + i])
    <3> SUFFICES ASSUME NEW i \in 1..Len(ToSever') PROVE ToSever'[i] = Arrives(sent'[(n + 1) + i])
      BY <2>8
    <3>1. i + 1 \in DOMAIN ToSever /\ n + (i + 1) = (n + 1) + i
      BY <2>8
    <3> QED
      BY <2>1, <2>5, <2>8, <3>1
  <2>11. /\ IsInitialized' <=> IsInitialized \/ m.method = "initialized"
         /\ IsShutdown' <=> IsShutdown \/ m.method = "shutdown"
         /\ \A f : f \in Open' <=> \/ m.method = "didOpen" /\ m.file = f
                                   \/ f \in Open /\ ~(m.method = "didClose" /\ m.file = f)
    BY <2>1, <2>7, ServesEffects, Zenon
  <2>12. \A x : Before((n + 1) + 1, x)' <=> Before(n + 1, x) \/ k.method = x
    <3>1. (n + 1) + 1 = n + 2
      OBVIOUS
    <3>2. \A x : Before(n + 2, x) <=> Before(n + 1, x) \/ k.method = x
      BY BeforeNext
    <3>3. \A x : Before((n + 1) + 1, x)' <=> Before((n + 1) + 1, x)
      BY <2>1, SentSame, Zenon
    <3> QED
      BY <3>1, <3>2, <3>3
  <2>13. \A f : OpenAfter(n + 1, f)' <=> \/ k.method = "didOpen" /\ k.file = f
                                         \/ OpenAfter(n, f) /\ ~(k.method = "didClose" /\ k.file = f)
    <3>1. \A f : OpenAfter(n + 1, f)' <=> OpenAfter(n + 1, f)
      BY <2>1, SentSame, Zenon
    <3> QED
      BY <3>1, OpenNext, Zenon
  <2> HIDE DEF m, k
  <2>14. /\ m.method = "didOpen" => m.file = k.file
         /\ m.method = "didClose" => m.file = k.file
    BY <2>6
  <2>15. /\ IsInitialized' <=> Before((n + 1) + 1, "initialized")'
         /\ IsShutdown' <=> Before((n + 1) + 1, "shutdown")'
    BY <2>5, <2>6, <2>11, <2>12, Zenon
  <2>16. \A f \in Files : f \in Open' <=> OpenAfter(n + 1, f)'
    BY <2>5, <2>6, <2>11, <2>13, <2>14, Zenon
  <2>17. n + 1 \in Nat
    OBVIOUS
  <2> QED
    BY <2>9, <2>10, <2>15, <2>16, <2>17, InTurnAt
<1> QED
  BY <1>1, <1>2, <1>3

\* The lists name documents that are open when they are made.
LEMMA ReportsFind ==
    ASSUME SessionTypes, ListOK, ErrorsChanged, ~IsShutdown, NEW i \in DOMAIN CurrentErrors
    PROVE  CurrentErrors[i].file \in Open
<1>1. CurrentErrors \in Seq(Error) /\ (~IsInitialized => CurrentErrors = <<>>)
  BY CurrentList
<1>2. DOMAIN CurrentErrors = 1..Len(CurrentErrors)
  BY <1>1
<1>3. i \in 1..Len(CurrentErrors) /\ CurrentErrors # <<>>
  BY <1>2
<1>4. CurrentErrors = UpdateErrorList
  BY <1>1, <1>3 DEF CurrentErrors
<1> QED
  BY <1>3, <1>4, ListMade

\* A change the editor sends is to a document the server has.
LEMMA ServesFind ==
    ASSUME LSPInv, EditorKeepsRules, InTurn, Undisturbed, ToSever # <<>>,
           Head(ToSever).method = "didChange"
    PROVE  Head(ToSever).file \in Open
<1> DEFINE m == Head(ToSever)
<1>1. ToSever \in Seq(Packets) /\ sent \in Seq(Messages)
  BY ToSeverTyped
<1>2. m \in Packets
  BY <1>1
<1>3. /\ Handled \in Nat /\ Handled + 1 \in 1..Len(sent)
      /\ m.method = sent[Handled + 1].method /\ m.file = sent[Handled + 1].file
  BY NextInTurn
<1>4. m.file \in Files
  BY <1>2, MessageParts
<1>5. OpenAfter(Handled, m.file)
  <2>1. DOMAIN sent = 1..Len(sent)
    BY <1>1
  <2>2. OpenAfter((Handled + 1) - 1, sent[Handled + 1].file)
    BY <1>3, <2>1 DEF EditorKeepsRules
  <2>3. (Handled + 1) - 1 = Handled
    BY <1>3
  <2> QED
    BY <1>3, <2>2, <2>3
<1> QED
  BY <1>4, <1>5, Zenon DEF InTurn

LEMMA FoundStep ==
    ASSUME LSPInv, SessionTypes, ListOK, EditorKeepsRules, InTurn, FilesFound,
           (Running /\ (Sends \/ Serves \/ Reports \/ Delivers \/ Dies)) \/ Aside
    PROVE  FilesFound'
<1>1. CASE Aside
  <2>1. UNCHANGED <<sent, terminated, IsShutdown>>
    BY <1>1 DEF Aside, session
  <2>2. Undisturbed' <=> Undisturbed
    BY <2>1, SentSame
  <2> QED
    BY <2>1, <2>2, Zenon DEF FilesFound
<1>2. CASE Running /\ (Sends \/ Delivers \/ Dies)
  <2>1. terminated' # "no such file"
    BY <1>2 DEF Running, Sends, Delivers, Dies
  <2> QED
    BY <2>1, Zenon DEF FilesFound
<1>3. CASE Running /\ Reports
  <2>1. /\ IsShutdown' = IsShutdown /\ terminated = "no"
        /\ terminated' = IF ErrorsChanged /\ \E i \in DOMAIN CurrentErrors : CurrentErrors[i].file \notin Open
                         THEN "no such file" ELSE terminated
    BY <1>3 DEF Reports, Refresh, Running
  <2>2. CASE IsShutdown
    BY <2>1, <2>2, Zenon DEF FilesFound
  <2>3. CASE ~IsShutdown
    <3>1. ErrorsChanged => \A i \in DOMAIN CurrentErrors : CurrentErrors[i].file \in Open
      BY <2>3, ReportsFind, Zenon
    <3>2. terminated' = "no"
      BY <2>1, <3>1
    <3> QED
      BY <3>2 DEF FilesFound
  <2> QED
    BY <2>2, <2>3
<1>4. CASE Running /\ Serves
  <2>1. UNCHANGED sent /\ ToSever # <<>> /\ OnReceivedPacket(Head(ToSever)) /\ terminated = "no"
    BY <1>4 DEF Serves, Running
  <2>2. ToSever \in Seq(Packets)
    BY ToSeverTyped
  <2>3. Head(ToSever) \in Packets
    BY <2>1, <2>2
  <2>4. terminated' = "no such file" =>
          terminated = "no such file"
          \/ (Head(ToSever).method = "didChange" /\ Head(ToSever).file \notin Open)
    BY <2>1, <2>3, ServesEffects, Zenon
  <2>5. terminated # "no such file"
    BY <2>1
  <2>6. Undisturbed' <=> Undisturbed
    BY <2>1, SentSame
  <2>7. Undisturbed => terminated' # "no such file"
    BY <2>1, <2>4, <2>5, ServesFind, Zenon
  <2> QED
    BY <2>6, <2>7, Zenon DEF FilesFound
<1> QED
  BY <1>1, <1>2, <1>3, <1>4

-----------------------------------------------------------------------------
(* What is sent.                                                           *)

\* What the server sends when it handles m.
AnswerTo(m) ==
  IF m.method \in {"initialize", "shutdown"} THEN <<Result(m)>>
  ELSE IF m.method = "unknown" THEN <<ResponseError(m, "MethodNotFound")>>
  ELSE IF m.method = "hover" /\ ~IsInitialized THEN <<ResponseError(m, "ServerNotInitialized")>>
  ELSE IF m.method = "hover" /\ IsShutdown THEN <<ResponseError(m, "InvalidRequest")>>
  ELSE <<>>

LEMMA ServesSends ==
    ASSUME SessionTypes, NEW m \in Packets, OnReceivedPacket(m)
    PROVE  /\ SeverPackets' = SeverPackets \o AnswerTo(m)
           /\ AnswerTo(m) = <<>> \/ \E a \in Answer : AnswerTo(m) = <<a>>
<1>1. SeverPackets \in Seq(Reply)
  BY DEF SessionTypes
<1>2. \A s \in Seq(Reply) : s \o <<>> = s /\ \A a : Append(s, a) = s \o <<a>>
  OBVIOUS
<1>3. CASE m.method \in {"initialize", "shutdown"}
  <2>1. AnswerTo(m) = <<Result(m)>> /\ Result(m) \in Answer
    BY <1>3, ToEditorTyped DEF AnswerTo
  <2>2. SeverPackets' = Append(SeverPackets, Result(m))
    BY <1>3 DEF OnReceivedPacket, Sever_initialize, Sever_initialized, Sever_Shutdown, Sever_Exit,
       textDocument_didOpen, textDocument_didClose, textDocument_didChange, textDocument_hover,
       MethodNotFound, Ignored, NotJson, SendPacketToClient
  <2> QED
    BY <1>1, <1>2, <2>1, <2>2
<1>4. CASE m.method = "unknown"
  <2>1. AnswerTo(m) = <<ResponseError(m, "MethodNotFound")>> /\ ResponseError(m, "MethodNotFound") \in Answer
    BY <1>4, ToEditorTyped DEF AnswerTo
  <2>2. SeverPackets' = Append(SeverPackets, ResponseError(m, "MethodNotFound"))
    BY <1>4 DEF OnReceivedPacket, Sever_initialize, Sever_initialized, Sever_Shutdown, Sever_Exit,
       textDocument_didOpen, textDocument_didClose, textDocument_didChange, textDocument_hover,
       MethodNotFound, Ignored, NotJson, SendPacketToClient
  <2> QED
    BY <1>1, <1>2, <2>1, <2>2
<1>5. CASE m.method = "hover"
  <2>1. textDocument_hover(m)
    BY <1>5 DEF OnReceivedPacket, Sever_initialize, Sever_initialized, Sever_Shutdown, Sever_Exit,
       textDocument_didOpen, textDocument_didClose, textDocument_didChange,
       MethodNotFound, Ignored, NotJson
  <2>2. CASE ~IsInitialized
    <3>1. /\ AnswerTo(m) = <<ResponseError(m, "ServerNotInitialized")>>
          /\ ResponseError(m, "ServerNotInitialized") \in Answer
      BY <1>5, <2>2, ToEditorTyped DEF AnswerTo
    <3>2. SeverPackets' = Append(SeverPackets, ResponseError(m, "ServerNotInitialized"))
      BY <2>1, <2>2 DEF textDocument_hover, SendPacketToClient
    <3> QED
      BY <1>1, <1>2, <3>1, <3>2
  <2>3. CASE IsInitialized /\ IsShutdown
    <3>1. /\ AnswerTo(m) = <<ResponseError(m, "InvalidRequest")>>
          /\ ResponseError(m, "InvalidRequest") \in Answer
      BY <1>5, <2>3, ToEditorTyped DEF AnswerTo
    <3>2. SeverPackets' = Append(SeverPackets, ResponseError(m, "InvalidRequest"))
      BY <2>1, <2>3 DEF textDocument_hover, SendPacketToClient
    <3> QED
      BY <1>1, <1>2, <3>1, <3>2
  <2>4. CASE IsInitialized /\ ~IsShutdown
    <3>1. AnswerTo(m) = <<>>
      BY <1>5, <2>4 DEF AnswerTo
    <3>2. SeverPackets' = SeverPackets
      BY <2>1, <2>4 DEF textDocument_hover
    <3> QED
      BY <1>1, <1>2, <3>1, <3>2
  <2> QED
    BY <2>2, <2>3, <2>4
<1>6. CASE m.method \notin {"initialize", "shutdown", "unknown", "hover"}
  <2>1. AnswerTo(m) = <<>>
    BY <1>6 DEF AnswerTo
  <2>2. SeverPackets' = SeverPackets
    BY <1>6 DEF OnReceivedPacket, Sever_initialize, Sever_initialized, Sever_Shutdown, Sever_Exit,
       textDocument_didOpen, textDocument_didClose, textDocument_didChange, textDocument_hover,
       MethodNotFound, Ignored, NotJson
  <2> QED
    BY <1>1, <1>2, <2>1, <2>2
<1> QED
  BY <1>3, <1>4, <1>5, <1>6

\* An answer is not a document's diagnostics.
LEMMA AnswersApart == \A fs : \A a \in Answer : a \in Reply /\ a \notin DiagnosticsOf(fs)
<1> SUFFICES ASSUME NEW fs, NEW a \in Answer PROVE a \notin DiagnosticsOf(fs)
  BY DEF Reply
<1>1. a.type \in {"result", "error"}
  BY DEF Answer
<1>2. a \in DiagnosticsOf(fs) => a.type = "diagnostics"
  BY DEF DiagnosticsOf
<1> QED
  BY <1>1, <1>2

LEMMA OneAnswer ==
    ASSUME NEW a \in Answer
    PROVE  /\ <<a>> \in Seq(Reply) /\ Only(<<a>>, Answer) = <<a>>
           /\ \A fs : Only(<<a>>, DiagnosticsOf(fs)) = <<>>
<1>1. a \in Reply
  BY AnswersApart
<1>2. <<a>> = Append(<<>>, a) /\ <<>> \in Seq(Reply)
  OBVIOUS
<1>3. ASSUME NEW G PROVE Only(<<a>>, G) = IF a \in G THEN <<a>> ELSE <<>>
  <2>1. \A s \in Seq(Reply) : Only(Append(s, a), G) = IF a \in G THEN Append(Only(s, G), a) ELSE Only(s, G)
    BY <1>1, OnlyAppend
  <2>2. Only(<<>>, G) = <<>>
    BY OnlyEmpty
  <2> QED
    BY <1>2, <2>1, <2>2
<1> QED
  BY <1>1, <1>2, <1>3, AnswersApart, AppendTyped

LEMMA AllSentTyped ==
    ASSUME SessionTypes
    PROVE  AllSent \in Seq(Reply)
  BY ConcatPlaces DEF SessionTypes, AllSent

\* What a step adds to what was sent: nothing, the answer to a message, or the
\* diagnostics.
LEMMA KeepsSent ==
    ASSUME SessionTypes, Sends \/ Delivers \/ Dies \/ Aside
    PROVE  AllSent' = AllSent
<1>1. stdout \in Seq(Reply) /\ SeverPackets \in Seq(Reply)
  BY DEF SessionTypes
<1>2. CASE Sends \/ Dies \/ Aside
  BY <1>2 DEF Sends, Dies, Aside, AllSent
<1>3. CASE Delivers
  <2>1. stdout' = stdout \o SeverPackets /\ SeverPackets' = <<>>
    BY <1>3 DEF Delivers
  <2>2. \A s, t \in Seq(Reply) : (s \o t) \o <<>> = s \o t
    OBVIOUS
  <2> QED
    BY <1>1, <2>1, <2>2 DEF AllSent
<1> QED
  BY <1>2, <1>3

LEMMA ConcatThree ==
    ASSUME NEW S, NEW s \in Seq(S), NEW t \in Seq(S), NEW r \in Seq(S)
    PROVE  s \o (t \o r) = (s \o t) \o r
  OBVIOUS

LEMMA ServesSent ==
    ASSUME LSPInv, SessionTypes, Serves
    PROVE  /\ AllSent' = AllSent \o AnswerTo(Head(ToSever))
           /\ \/ AnswerTo(Head(ToSever)) = <<>>
              \/ \E a \in Answer : AnswerTo(Head(ToSever)) = <<a>>
<1> DEFINE m == Head(ToSever)
<1>1. stdout \in Seq(Reply) /\ SeverPackets \in Seq(Reply)
  BY DEF SessionTypes
<1>2. UNCHANGED stdout /\ OnReceivedPacket(m) /\ ToSever # <<>>
  BY DEF Serves
<1>3. m \in Packets
  BY <1>2, ToSeverTyped
<1>4. /\ SeverPackets' = SeverPackets \o AnswerTo(m)
      /\ AnswerTo(m) = <<>> \/ \E a \in Answer : AnswerTo(m) = <<a>>
  BY <1>2, <1>3, ServesSends
<1>5. AnswerTo(m) \in Seq(Reply)
  BY <1>4, OneAnswer, EmptyTyped
<1>6. stdout \o (SeverPackets \o AnswerTo(m)) = (stdout \o SeverPackets) \o AnswerTo(m)
  BY <1>1, <1>5, ConcatThree
<1> QED
  BY <1>2, <1>4, <1>6 DEF AllSent

LEMMA ReportsSent ==
    ASSUME SessionTypes, ListOK, Reports
    PROVE  /\ AllSent' = AllSent \o Published(ClientErrors')
           /\ Published(ClientErrors') \in Seq(Reply)
<1>1. stdout \in Seq(Reply) /\ SeverPackets \in Seq(Reply)
  BY DEF SessionTypes
<1>2. Published(ClientErrors') \in Seq(Reply)
  <2>1. Published(ClientErrors') \in Seq(DiagnosticsOf(Files))
    BY ReportsTyped
  <2>2. DiagnosticsOf(Files) \subseteq Reply
    BY DEF Reply
  <2>3. \A S, T : S \subseteq T => Seq(S) \subseteq Seq(T)
    OBVIOUS
  <2> QED
    BY <2>1, <2>2, <2>3
<1>3. UNCHANGED stdout /\ SeverPackets' = SeverPackets \o Published(ClientErrors')
  BY DEF Reports
<1>4. stdout \o (SeverPackets \o Published(ClientErrors')) = (stdout \o SeverPackets) \o Published(ClientErrors')
  BY <1>1, <1>2, ConcatThree
<1> QED
  BY <1>2, <1>3, <1>4 DEF AllSent

-----------------------------------------------------------------------------
(* The diagnostics.                                                        *)

LEMMA SortedEmpty == SortedByName(<<>>) = <<>>
<1> DEFINE ss == [i \in 1..MaxLength |-> Only(<<>>, {e \in Error : NameLength[e.file] = MaxLength + 1 - i})]
           o == FlattenSeq(ss)
<1>1. ss = [i \in 1..MaxLength |-> <<>>]
  BY OnlyEmpty
<1>2. ss \in Seq(Seq(Error)) /\ \A i \in 1..Len(ss) : ss[i] = <<>>
  <2>1. MaxLength \in Nat /\ <<>> \in Seq(Error)
    BY EmptyTyped
  <2>2. ss \in [1..MaxLength -> Seq(Error)]
    BY <1>1, <2>1
  <2> HIDE DEF ss
  <2>3. ss \in Seq(Seq(Error)) /\ Len(ss) = MaxLength
    BY <2>1, <2>2, FunctionTyped
  <2> QED
    BY <1>1, <2>3
<1>3. o = SortedByName(<<>>)
  BY DEF SortedByName
<1> HIDE DEF ss
<1>4. o \in Seq(Error)
  BY <1>2, FlattenTyped
<1>5. \A k \in 1..Len(o) : \E i \in 1..Len(ss) : \E a \in 1..Len(ss[i]) : o[k] = ss[i][a]
  BY <1>2, FlattenElements
<1> HIDE DEF o
<1>6. ASSUME NEW k \in 1..Len(o) PROVE FALSE
  <2>1. PICK i \in 1..Len(ss) : \E a \in 1..Len(ss[i]) : o[k] = ss[i][a]
    BY <1>5
  <2>2. ss[i] = <<>>
    BY <1>2
  <2> QED
    BY <2>1, <2>2
<1>7. o = <<>>
  BY <1>4, <1>6
<1> QED
  BY <1>3, <1>7

LEMMA NothingMore == \A s \in Seq(Reply) : s \o <<>> = s
  OBVIOUS

LEMMA RepliesConcat ==
    ASSUME NEW s \in Seq(Reply), NEW t \in Seq(Reply), NEW G
    PROVE  Only(s \o t, G) = Only(s, G) \o Only(t, G)
  BY OnlyConcat, SMT

LEMMA NoneMore ==
    ASSUME NEW s \in Seq(Reply), NEW t \in Seq(Reply), NEW G, Only(t, G) = <<>>
    PROVE  Only(s \o t, G) = Only(s, G)
<1>1. Only(s \o t, G) = Only(s, G) \o Only(t, G)
  BY RepliesConcat
<1>2. Only(s, G) \in Seq(Reply)
  BY OnlyTyped, Zenon
<1> QED
  BY <1>1, <1>2, NothingMore

\* Of the diagnostics in r there are some in G, and all of them hold the list l.
AllAlike(r, G, l) ==
  /\ \A i \in 1..Len(r) : r[i] \in G => r[i].errors = l
  /\ \E i \in 1..Len(r) : r[i] \in G

LEMMA LastTold ==
    ASSUME NEW s \in Seq(Reply), NEW r \in Seq(Reply), NEW G, NEW l, AllAlike(r, G, l)
    PROVE  Only(s \o r, G) # <<>> /\ Last(Only(s \o r, G)).errors = l
<1> DEFINE a == Only(s, G)
           b == Only(r, G)
<1>1. Only(s \o r, G) = a \o b /\ a \in Seq(Reply)
  <2>1. Only(s \o r, G) = Only(s, G) \o Only(r, G)
    BY OnlyConcat, SMT
  <2>2. Only(s, G) \in Seq(Reply)
    BY OnlyTyped, Zenon
  <2> QED
    BY <2>1, <2>2
<1>s. Selects(Reply, G, r, b)
  BY OnlySelection, SMT
<1> HIDE DEF a, b
<1>2. /\ b \in Seq(Reply \intersect G) /\ b \in Seq(Reply)
      /\ \A i \in 1..Len(r) : r[i] \in G => \E j \in 1..Len(b) : b[j] = r[i]
      /\ \A j \in 1..Len(b) : \E i \in 1..Len(r) : r[i] = b[j]
  <2>1. b \in Seq(Reply \intersect G)
    BY <1>s DEF Selects
  <2>2. \A A, B, t : t \in Seq(A \intersect B) => t \in Seq(A)
    OBVIOUS
  <2> QED
    BY <1>s, <2>1, <2>2 DEF Selects
<1>3. Len(b) \in Nat /\ Len(b) \in 1..Len(b) /\ Len(a) \in Nat
  BY <1>1, <1>2 DEF AllAlike
<1>4. b[Len(b)].errors = l
  <2>1. PICK i \in 1..Len(r) : r[i] = b[Len(b)]
    BY <1>2, <1>3
  <2>2. b[Len(b)] \in G
    BY <1>2, <1>3
  <2> QED
    BY <2>1, <2>2 DEF AllAlike
<1>5. Len(a \o b) = Len(a) + Len(b) /\ (a \o b)[Len(a) + Len(b)] = b[Len(b)]
  BY <1>1, <1>2, <1>3, ConcatPlaces
<1>6. a \o b # <<>> /\ Last(a \o b) = b[Len(b)]
  BY <1>1, <1>2, <1>3, <1>5 DEF Last
<1> QED
  BY <1>1, <1>4, <1>6

LEMMA TellsNew ==
    ASSUME SessionTypes, ListOK, Reports, ErrorsChanged, Len(ClientErrors') <= StableUpTo,
           NEW f \in Files, Recorded(f)' # <<>>
    PROVE  Told(f)' = Recorded(f)'
<1> DEFINE L == SortedByName(CurrentErrors)
           g == Grouped(L)
           G == DiagnosticsOf({f})
<1>1. ClientErrors' = L
  <2>1. ClientErrors' \in Sortings(CurrentErrors)
    BY DEF Reports, Refresh
  <2> QED
    BY <2>1, CurrentList, SortingsTyped
<1>2. Recorded(f)' = ErrorsIn(L, f)
  BY <1>1 DEF Recorded, ErrorsIn
<1>3. CurrentErrors # <<>>
  <2>1. ErrorsIn(<<>>, f) = <<>>
    <3>1. <<>> \in Seq(Error) /\ \A i \in 1..Len(<<>>) : FALSE
      OBVIOUS
    <3> QED
      BY <3>1, ErrorsInNone, Zenon
  <2> QED
    BY <1>2, <2>1, SortedEmpty
<1>4. Published(ClientErrors') = g
  BY <1>1, <1>3 DEF Published
<1>5. L \in Seq(Error) /\ Runs(L)
  BY CurrentList
<1>6. GroupsRight(L, g)
  BY <1>5, GroupsAreRight
<1>7. AllSent' = AllSent \o g /\ g \in Seq(Reply) /\ AllSent \in Seq(Reply)
  BY <1>4, ReportsSent, AllSentTyped
<1> HIDE DEF L, g
<1>8. PICK i \in 1..Len(L) : L[i].file = f
  BY <1>2, <1>5, ErrorsInNone
<1>9. /\ g \in Seq(DiagnosticsOf(Files))
      /\ \A k \in 1..Len(g) : g[k].errors = ErrorsIn(L, g[k].file)
      /\ \E k \in 1..Len(g) : g[k].file = f
  BY <1>6, <1>8 DEF GroupsRight
<1>10. \A k \in 1..Len(g) : g[k] \in DiagnosticsOf(Files)
  BY <1>9
<1>11. \A d \in DiagnosticsOf(Files) : d \in G <=> d.file = f
  BY DEF DiagnosticsOf
<1> HIDE DEF G
<1>12. \A k \in 1..Len(g) : g[k] \in G => g[k].errors = ErrorsIn(L, f)
  BY <1>9, <1>10, <1>11
<1>13. \E k \in 1..Len(g) : g[k] \in G
  BY <1>9, <1>10, <1>11
<1>14. Only(AllSent', G) # <<>> /\ Last(Only(AllSent', G)).errors = ErrorsIn(L, f)
  <2>1. Only(AllSent \o g, G) # <<>> /\ Last(Only(AllSent \o g, G)).errors = ErrorsIn(L, f)
    <3>1. AllAlike(g, G, ErrorsIn(L, f))
      BY <1>12, <1>13 DEF AllAlike
    <3> QED
      BY <1>7, <3>1, LastTold, SMT
  <2> QED
    BY <1>7, <2>1
<1>15. Told(f)' = Last(Only(AllSent', G)).errors
  BY <1>14 DEF Told, G
<1> QED
  BY <1>2, <1>14, <1>15

LEMMA TellsStep ==
    ASSUME LSPInv, SessionTypes, ListOK, ToldErrors,
           (Running /\ (Sends \/ Serves \/ Reports \/ Delivers \/ Dies)) \/ Aside
    PROVE  ToldErrors'
<1>1. AllSent \in Seq(Reply)
  BY AllSentTyped
<1> SUFFICES ASSUME Running', Len(ClientErrors') <= StableUpTo, NEW f \in Files, Recorded(f)' # <<>>
             PROVE  Told(f)' = Recorded(f)'
  BY DEF ToldErrors
<1>2. CASE Aside \/ Sends \/ Delivers \/ Dies
  <2>1. AllSent' = AllSent /\ ClientErrors' = ClientErrors
    BY <1>2, KeepsSent DEF Aside, Sends, Delivers, Dies, session
  <2>2. Told(f)' = Told(f) /\ Recorded(f)' = Recorded(f)
    BY <2>1 DEF Told, Recorded, ErrorsIn
  <2>3. Running
    BY <1>2 DEF Running, Aside
  <2> QED
    BY <2>1, <2>2, <2>3 DEF ToldErrors
<1>3. CASE Running /\ Serves
  <2>1. AllSent' = AllSent \o AnswerTo(Head(ToSever))
    BY <1>3, ServesSent
  <2>2. Head(ToSever) \in Packets /\ OnReceivedPacket(Head(ToSever))
    BY <1>3, ToSeverTyped DEF Serves
  <2>3. ClientErrors' = ClientErrors
    BY <2>2, ServesEffects, Zenon
  <2>4. Only(AllSent', DiagnosticsOf({f})) = Only(AllSent, DiagnosticsOf({f}))
    <3> DEFINE t == AnswerTo(Head(ToSever))
    <3>1. t = <<>> \/ \E a \in Answer : t = <<a>>
      BY <1>3, ServesSent
    <3>2. t \in Seq(Reply) /\ Only(t, DiagnosticsOf({f})) = <<>>
      BY <3>1, OneAnswer, OnlyEmpty, EmptyTyped
    <3> HIDE DEF t
    <3>3. Only(AllSent \o t, DiagnosticsOf({f})) = Only(AllSent, DiagnosticsOf({f}))
      BY <1>1, <3>2, NoneMore
    <3> QED
      BY <2>1, <3>3 DEF t
  <2>5. Told(f)' = Told(f) /\ Recorded(f)' = Recorded(f)
    BY <2>3, <2>4 DEF Told, Recorded, ErrorsIn
  <2> QED
    BY <1>3, <2>3, <2>5 DEF ToldErrors
<1>4. CASE Running /\ Reports
  <2>1. CASE ErrorsChanged
    BY <1>4, <2>1, TellsNew
  <2>2. CASE ~ErrorsChanged
    <3>1. ClientErrors' = ClientErrors /\ Published(ClientErrors') = <<>>
      BY <1>4, <2>2 DEF Reports, Refresh, Published
    <3>2. AllSent' = AllSent
      <4>1. \A s \in Seq(Reply) : s \o <<>> = s
        OBVIOUS
      <4> QED
        BY <1>1, <1>4, <3>1, <4>1, ReportsSent
    <3>3. Told(f)' = Told(f) /\ Recorded(f)' = Recorded(f)
      BY <3>1, <3>2 DEF Told, Recorded, ErrorsIn
    <3> QED
      BY <1>4, <3>1, <3>3 DEF ToldErrors
  <2> QED
    BY <2>1, <2>2
<1> QED
  BY <1>2, <1>3, <1>4

-----------------------------------------------------------------------------
(* The answers.                                                            *)

Verdicts(n) == FlattenSeq([i \in 1..n |-> Verdict(i)])

LEMMA VerdictTyped ==
    ASSUME NEW i, sent[i] \in Messages
    PROVE  Verdict(i) \in Seq(Answer)
<1>1. sent[i] \in Packets
  BY DEF Packets
<1>2. \A a \in Answer : <<a>> \in Seq(Answer)
  OBVIOUS
<1>3. <<>> \in Seq(Answer)
  OBVIOUS
<1>4. CASE sent[i].method \in {"initialize", "shutdown"}
  <2>1. Verdict(i) = <<Result(sent[i])>>
    BY <1>4 DEF Verdict
  <2> QED
    BY <1>1, <1>2, <1>4, <2>1, ToEditorTyped
<1>5. CASE sent[i].method = "unknown"
  <2>1. Verdict(i) = <<ResponseError(sent[i], "MethodNotFound")>>
    BY <1>5 DEF Verdict
  <2> QED
    BY <1>1, <1>2, <1>5, <2>1, ToEditorTyped
<1>6. CASE sent[i].method = "hover"
  <2>1. \/ Verdict(i) = <<ResponseError(sent[i], "ServerNotInitialized")>>
        \/ Verdict(i) = <<ResponseError(sent[i], "InvalidRequest")>>
        \/ Verdict(i) = <<>>
    BY <1>6 DEF Verdict
  <2> QED
    BY <1>1, <1>2, <1>3, <1>6, <2>1, ToEditorTyped
<1>7. CASE sent[i].method \notin {"initialize", "shutdown", "unknown", "hover"}
  <2>1. Verdict(i) = <<>>
    BY <1>7 DEF Verdict
  <2> QED
    BY <1>3, <2>1
<1> QED
  BY <1>4, <1>5, <1>6, <1>7

\* The server answers the message whose turn it is as the protocol says.
LEMMA VerdictOf ==
    ASSUME NEW n, NEW m, m.method = sent[n].method,
           m.method \notin {"didOpen", "didChange"} => m = sent[n],
           IsInitialized <=> Before(n, "initialized"),
           IsShutdown <=> Before(n, "shutdown")
    PROVE  Verdict(n) = AnswerTo(m)
<1>3. CASE m.method \in {"initialize", "shutdown", "unknown"}
  BY <1>3 DEF Verdict, AnswerTo
<1>4. CASE m.method = "hover"
  <2>1. m = sent[n]
    BY <1>4
  <2>2. CASE ~IsInitialized
    <3>1. ~Before(n, "initialized")
      BY <2>2, Zenon
    <3> QED
      BY <1>4, <2>1, <2>2, <3>1 DEF Verdict, AnswerTo
  <2>3. CASE IsInitialized /\ IsShutdown
    <3>1. Before(n, "initialized") /\ Before(n, "shutdown")
      BY <2>3, Zenon
    <3> QED
      BY <1>4, <2>1, <2>3, <3>1 DEF Verdict, AnswerTo
  <2>4. CASE IsInitialized /\ ~IsShutdown
    <3>1. Before(n, "initialized") /\ ~Before(n, "shutdown")
      BY <2>4, Zenon
    <3> QED
      BY <1>4, <2>1, <2>4, <3>1 DEF Verdict, AnswerTo
  <2> QED
    BY <2>2, <2>3, <2>4
<1>5. CASE m.method \notin {"initialize", "shutdown", "unknown", "hover"}
  BY <1>5 DEF Verdict, AnswerTo
<1> QED
  BY <1>3, <1>4, <1>5

LEMMA VerdictGiven ==
    ASSUME LSPInv, InTurn, Undisturbed, ToSever # <<>>
    PROVE  Verdict(Handled + 1) = AnswerTo(Head(ToSever))
<1>1. /\ Head(ToSever).method = sent[Handled + 1].method
      /\ Head(ToSever).method \notin {"didOpen", "didChange"} => Head(ToSever) = sent[Handled + 1]
  BY NextInTurn
<1>2. /\ IsInitialized <=> Before(Handled + 1, "initialized")
      /\ IsShutdown <=> Before(Handled + 1, "shutdown")
  BY Zenon DEF InTurn
<1> QED
  BY <1>1, <1>2, VerdictOf, Zenon

LEMMA VerdictsSame ==
    ASSUME NEW n \in Nat, \A i \in 1..n : Verdict(i)' = Verdict(i)
    PROVE  Verdicts(n)' = Verdicts(n)
<1>1. [i \in 1..n |-> Verdict(i)'] = [i \in 1..n |-> Verdict(i)]
  OBVIOUS
<1> QED
  BY <1>1 DEF Verdicts

LEMMA VerdictsNext ==
    ASSUME NEW n \in Nat, \A i \in 1..(n + 1) : Verdict(i) \in Seq(Answer)
    PROVE  Verdicts(n + 1) = Verdicts(n) \o Verdict(n + 1)
<1> DEFINE F == [i \in 1..(n + 1) |-> Verdict(i)]
<1>1. F \in [1..(n + 1) -> Seq(Answer)] /\ F[n + 1] = Verdict(n + 1)
  OBVIOUS
<1>2. [i \in 1..n |-> F[i]] = [i \in 1..n |-> Verdict(i)]
  OBVIOUS
<1>3. FlattenSeq(F) = Verdicts(n + 1)
  BY DEF Verdicts
<1> HIDE DEF F
<1>4. FlattenSeq(F) = FlattenSeq([i \in 1..n |-> F[i]]) \o F[n + 1]
  BY <1>1, FlattenNext
<1> QED
  BY <1>1, <1>2, <1>3, <1>4 DEF Verdicts

LEMMA AnswersAt ==
    ASSUME NEW n, n = Handled', Only(AllSent', Answer) = Verdicts(n)'
    PROVE  AnswersInTurn'
<1>1. Verdicts(n)' = FlattenSeq([i \in 1..Handled |-> Verdict(i)])'
  BY DEF Verdicts
<1> QED
  BY <1>1 DEF AnswersInTurn

LEMMA AnswersStep ==
    ASSUME LSPInv, SessionTypes, ListOK, InTurn, AnswersInTurn,
           Sends \/ Serves \/ Reports \/ Delivers \/ Dies \/ Aside
    PROVE  AnswersInTurn'
<1> SUFFICES ASSUME Undisturbed' PROVE AnswersInTurn'
  BY DEF AnswersInTurn
<1>1. ToSever \in Seq(Packets) /\ sent \in Seq(Messages) /\ Len(sent) \in Nat /\ Len(ToSever) \in Nat
  BY ToSeverTyped
<1>2. AllSent \in Seq(Reply)
  BY AllSentTyped
<1>3. CASE Reports \/ Delivers \/ Dies \/ Aside
  <2>1. UNCHANGED <<sent, ToSever>>
    BY <1>3 DEF Reports, Delivers, Dies, Aside
  <2>2. Undisturbed /\ \A i : Verdict(i)' = Verdict(i)
    BY <2>1, SentSame
  <2>3. PICK n \in Nat : n = Handled
    BY <2>2 DEF InTurn
  <2>4. n = Handled'
    BY <2>1, <2>3 DEF Handled
  <2>5. Only(AllSent, Answer) = Verdicts(n)
    BY <2>2, <2>3 DEF AnswersInTurn, Verdicts
  <2>6. Verdicts(n)' = Verdicts(n)
    BY <2>2, VerdictsSame
  <2>7. Only(AllSent', Answer) = Only(AllSent, Answer)
    <3>1. CASE Delivers \/ Dies \/ Aside
      BY <3>1, KeepsSent
    <3>2. CASE Reports
      <4> DEFINE p == Published(ClientErrors')
      <4>1. AllSent' = AllSent \o p /\ p \in Seq(Reply)
        BY <3>2, ReportsSent
      <4>2. p \in Seq(DiagnosticsOf(Files))
        BY <3>2, ReportsTyped
      <4> HIDE DEF p
      <4>3. \A i \in 1..Len(p) : p[i] \notin Answer
        BY <4>2, AnswersApart
      <4>4. Only(p, Answer) = <<>>
        BY <4>1, <4>3, OnlyNone
      <4> QED
        BY <1>2, <4>1, <4>4, NoneMore
    <3> QED
      BY <1>3, <3>1, <3>2
  <2> QED
    BY <2>4, <2>5, <2>6, <2>7, AnswersAt
<1>4. CASE Sends
  <2>1. PICK m \in Messages :
          /\ sent' = Append(sent, m)
          /\ Undisturbed /\ ToSever' = Append(ToSever, Arrives(m))
    BY <1>4, SendsUndisturbed
  <2>2. PICK n \in Nat : n = Handled
    BY <2>1 DEF InTurn
  <2>3. Len(sent') = Len(sent) + 1 /\ Len(ToSever') = Len(ToSever) + 1
    BY <1>1, <2>1
  <2>4. n = Handled' /\ \A i \in 1..n : i \in 1..Len(sent) /\ i - 1 \in 0..Len(sent) /\ (i - 1) + 1 = i
    BY <1>1, <2>2, <2>3 DEF Handled
  <2>5. /\ \A i \in 1..Len(sent) : sent'[i] = sent[i]
        /\ \A k \in 0..Len(sent) : \A x : Before(k + 1, x)' <=> Before(k + 1, x)
    BY <1>1, <2>1, SentGrows
  <2>6. \A i \in 1..n : Verdict(i)' = Verdict(i)
    <3> SUFFICES ASSUME NEW i \in 1..n PROVE Verdict(i)' = Verdict(i)
      OBVIOUS
    <3>1. sent'[i] = sent[i]
      BY <2>4, <2>5
    <3>2. \A x : Before((i - 1) + 1, x)' <=> Before((i - 1) + 1, x)
      BY <2>4, <2>5
    <3>3. \A x : Before(i, x)' <=> Before(i, x)
      BY <2>4, <3>2 DEF Before
    <3> QED
      BY <3>1, <3>3 DEF Verdict
  <2>7. Only(AllSent, Answer) = Verdicts(n)
    BY <2>1, <2>2 DEF AnswersInTurn, Verdicts
  <2>8. Verdicts(n)' = Verdicts(n)
    BY <2>6, VerdictsSame
  <2>9. AllSent' = AllSent
    BY <1>4, KeepsSent
  <2> QED
    BY <2>4, <2>7, <2>8, <2>9, AnswersAt
<1>5. CASE Serves
  <2> DEFINE t == AnswerTo(Head(ToSever))
  <2>1. UNCHANGED sent /\ ToSever # <<>> /\ ToSever' = Tail(ToSever)
    BY <1>5 DEF Serves
  <2>2. Undisturbed /\ \A i : Verdict(i)' = Verdict(i)
    BY <2>1, SentSame
  <2>3. PICK n \in Nat : n = Handled
    BY <2>2 DEF InTurn
  <2>4. n + 1 = Handled' /\ n + 1 \in 1..Len(sent)
    <3>1. Len(ToSever') = Len(ToSever) - 1 /\ Len(ToSever) >= 1
      BY <1>1, <2>1
    <3> QED
      BY <1>1, <2>1, <2>3, <3>1 DEF Handled
  <2>5. Only(AllSent, Answer) = Verdicts(n)
    BY <2>2, <2>3 DEF AnswersInTurn, Verdicts
  <2>6. \A i \in 1..(n + 1) : Verdict(i) \in Seq(Answer)
    <3>1. \A i \in 1..(n + 1) : i \in 1..Len(sent)
      BY <1>1, <2>4
    <3>2. \A i \in 1..(n + 1) : sent[i] \in Messages
      BY <1>1, <3>1
    <3> QED
      BY <3>2, VerdictTyped
  <2>7. Verdicts(n + 1) = Verdicts(n) \o t
    <3>1. Verdict(n + 1) = t
      BY <2>1, <2>2, <2>3, VerdictGiven
    <3> QED
      BY <2>6, <3>1, VerdictsNext
  <2>8. Verdicts(n + 1)' = Verdicts(n + 1)
    <3>1. n + 1 \in Nat
      OBVIOUS
    <3> QED
      BY <2>2, <3>1, VerdictsSame
  <2>9. AllSent' = AllSent \o t /\ (t = <<>> \/ \E a \in Answer : t = <<a>>)
    BY <1>5, ServesSent
  <2>10. t \in Seq(Reply) /\ Only(t, Answer) = t
    BY <2>9, OneAnswer, OnlyEmpty, EmptyTyped
  <2> HIDE DEF t
  <2>11. Only(AllSent \o t, Answer) = Only(AllSent, Answer) \o Only(t, Answer)
    BY <1>2, <2>10, RepliesConcat
  <2> QED
    BY <2>4, <2>5, <2>7, <2>8, <2>9, <2>10, <2>11, AnswersAt
<1> QED
  BY <1>3, <1>4, <1>5

-----------------------------------------------------------------------------
(* The theorems.                                                           *)

LEMMA InitSession == Init => SessionInv /\ ThreadTypes
<1> SUFFICES ASSUME Init PROVE SessionInv /\ ThreadTypes
  OBVIOUS
<1>1. /\ files = <<>> /\ order = <<>> /\ ErrorList = <<>> /\ ClientErrors = <<>>
      /\ IsInitialized = FALSE /\ IsShutdown = FALSE /\ Runing = TRUE
      /\ SeverPackets = <<>> /\ terminated = "no" /\ sent = <<>> /\ stdout = <<>>
  BY DEF Init, SessionInit
<1>2. Open = {}
  BY <1>1 DEF Open
<1>3. SessionTypes
  <2>1. IsFiniteSet(Open)
    BY <1>2, FS_EmptySet
  <2>2. order \in SetToSeqs(Open)
    <3>1. Enumerates({}, <<>>)
      BY DEF Enumerates, IsInjective
    <3> QED
      BY <1>1, <1>2, <3>1, Orders, FS_EmptySet
  <2>3. files \in [Open -> UCFile] /\ Open \subseteq Files
    BY <1>1, <1>2
  <2> QED
    BY <1>1, <2>1, <2>2, <2>3, EmptyTyped DEF SessionTypes
<1>4. ListOK
  BY <1>1 DEF ListOK, Runs
<1>5. EditorKeepsRules
  BY <1>1 DEF EditorKeepsRules
<1>6. ToSever = <<>> /\ Handled = 0
  <2>1. ToSever = <<>>
    BY DEF ToSever, InHand, Init
  <2> QED
    BY <1>1, <2>1 DEF Handled
<1>7. InTurn
  <2>1. \A n : ~Before(0 + 1, n)
    BY DEF Before
  <2>2. \A f : ~OpenAfter(0, f)
    BY DEF OpenAfter
  <2>3. ~IsInitialized /\ ~IsShutdown
    BY <1>1
  <2>4. \A i \in DOMAIN ToSever : FALSE
    BY <1>6
  <2> QED
    BY <1>2, <1>6, <2>1, <2>2, <2>3, <2>4 DEF InTurn
<1>8. AnswersInTurn
  <2>1. AllSent = <<>>
    BY <1>1 DEF AllSent
  <2>2. [i \in 1..0 |-> Verdict(i)] = <<>>
    OBVIOUS
  <2>3. FlattenSeq([i \in 1..Handled |-> Verdict(i)]) = <<>>
    BY <1>6, <2>2, FlattenEmpty
  <2> QED
    BY <2>1, <2>3, OnlyEmpty DEF AnswersInTurn
<1>9. ToldErrors
  <2>1. \A f : ErrorsIn(<<>>, f) = <<>>
    <3>1. <<>> \in Seq(Error) /\ \A i \in 1..Len(<<>>) : FALSE
      OBVIOUS
    <3> QED
      BY <3>1, ErrorsInNone, Zenon
  <2> QED
    BY <1>1, <2>1 DEF ToldErrors, Recorded
<1>10. FilesFound
  BY <1>1 DEF FilesFound
<1>11. ThreadTypes
  BY DEF Init, ThreadTypes
<1> QED
  BY <1>3, <1>4, <1>5, <1>7, <1>8, <1>9, <1>10, <1>11 DEF SessionInv

LEMMA SessionInvStep == LSPInv /\ SessionInv /\ [Next]_vars => SessionInv'
<1> SUFFICES ASSUME LSPInv, SessionInv, [Next]_vars PROVE SessionInv'
  OBVIOUS
<1>1. (Running /\ (Sends \/ Serves \/ Reports \/ Delivers \/ Dies)) \/ Aside
  BY SessionStep
<1>2. /\ SessionTypes /\ ListOK /\ EditorKeepsRules
      /\ InTurn /\ AnswersInTurn /\ ToldErrors /\ FilesFound
  BY DEF SessionInv
<1>3. SessionTypes'
  BY <1>1, <1>2, SessionTypesStep
<1>4. ListOK'
  BY <1>1, <1>2, ListStep
<1>5. EditorKeepsRules'
  <2>1. Sends \/ UNCHANGED sent
    BY <1>1 DEF Serves, Reports, Delivers, Dies, Aside
  <2> QED
    BY <1>2, <2>1, EditorStep
<1>6. InTurn'
  BY <1>1, <1>2, TurnStep
<1>7. AnswersInTurn'
  BY <1>1, <1>2, AnswersStep
<1>8. ToldErrors'
  BY <1>1, <1>2, TellsStep
<1>9. FilesFound'
  BY <1>1, <1>2, FoundStep
<1> QED
  BY <1>3, <1>4, <1>5, <1>6, <1>7, <1>8, <1>9 DEF SessionInv

\* Where the threads are, and what is left of the framing.
LEMMA ThreadTypesStep == ThreadTypes /\ [Next]_vars => ThreadTypes'
<1> SUFFICES ASSUME ThreadTypes, [Next]_vars PROVE ThreadTypes'
  OBVIOUS
<1> USE DEF ThreadTypes, mainVars, severVars, outVars
<1>1. CASE Read
  <2>1. UNCHANGED <<severPtr, pcS, pcO>>
    BY <1>1 DEF Read
  <2>2. framing' \in {"step", "inside", "lost"} /\ pcM' \in {"read", "add", "locked", "count"}
    BY <1>1 DEF Read, Stream, InStep, Opens, Closes, Cuts, Skips
  <2> QED
    BY <2>1, <2>2
<1>2. CASE LockInput \/ AddPacket \/ CountPacket
  BY <1>2 DEF LockInput, AddPacket, CountPacket
<1>3. CASE StartSever \/ TestCount \/ WaitForCount
  BY <1>3 DEF StartSever, TestCount, WaitForCount, SeverKeeps
<1>4. CASE RunPacket \/ UpdateClientErrorList
  BY <1>4 DEF RunPacket, UpdateClientErrorList, SeverKeeps
<1>5. CASE CountOutput \/ EndSever
  BY <1>5 DEF CountOutput, EndSever, SeverKeeps
<1>6. CASE TestCount2 \/ WaitForCount2 \/ GetPackets
  BY <1>6 DEF TestCount2, WaitForCount2, GetPackets, OutKeeps
<1>7. CASE UNCHANGED vars
  BY <1>7 DEF vars
<1> QED
  BY <1>1, <1>2, <1>3, <1>4, <1>5, <1>6, <1>7 DEF Next, Main, Sever, Out

\* The session's invariant holds throughout.
THEOREM SessionInvariance == Spec => [](SessionInv /\ ThreadTypes)
<1>1. Init => SessionInv /\ ThreadTypes
  BY InitSession
<1>2. LSPInv /\ (SessionInv /\ ThreadTypes) /\ [Next]_vars => (SessionInv /\ ThreadTypes)'
  BY SessionInvStep, ThreadTypesStep
<1> QED
  BY <1>1, <1>2, Invariance, PTL DEF Spec

\* Every variable of the process keeps its type, and the order in which the loops
\* of the analyzer meet the documents names each open document once.
THEOREM TypesKept == Spec => []TypeOK
<1>1. LSPInv /\ SessionInv /\ ThreadTypes => TypeOK
  BY DEF LSPInv, CountsOK, SessionInv, SessionTypes, ThreadTypes, TypeOK
<1> QED
  BY <1>1, Invariance, SessionInvariance, PTL

\* One answer for each request, in the order of the requests and the one the phase
\* of the protocol calls for (OnReceivedPacket, InitializeCheck, ShutdownCheck),
\* however the threads batch the messages, for as long as the braces of the texts
\* balance.
THEOREM AnswersAreInTurn == Spec => []AnswersInTurn
<1>1. SessionInv => AnswersInTurn
  BY DEF SessionInv
<1> QED
  BY <1>1, SessionInvariance, PTL

\* For a document the server's copy of the client's list has errors for, the last
\* diagnostics the editor was sent are those errors (UpdateClientErrorList), for a
\* list std::sort sorts stably.
THEOREM EditorIsTold == Spec => []ToldErrors
<1>1. SessionInv => ToldErrors
  BY DEF SessionInv
<1> QED
  BY <1>1, SessionInvariance, PTL

\* Until shutdown the server looks up no document it does not have (GetFile,
\* UpdateClientErrorList), however the closing of documents is batched with the
\* making of the lists.
THEOREM FilesAreFound == Spec => []FilesFound
<1>1. SessionInv => FilesFound
  BY DEF SessionInv
<1> QED
  BY <1>1, SessionInvariance, PTL

=============================================================================
