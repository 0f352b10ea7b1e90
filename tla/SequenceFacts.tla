--------------------------- MODULE SequenceFacts ----------------------------
(***************************************************************************)
(* Lemmas about sequences that the proofs about the language server cite:  *)
(* induction on the length of a sequence, what Only selects, and what      *)
(* FlattenSeq joins.  The library's induction theorems have an operator    *)
(* for a parameter; here a set of sequences stands for what is proved of   *)
(* them.                                                                   *)
(***************************************************************************)
EXTENDS Selection, SequencesExt, FiniteSetTheorems, WellFoundedInduction, TLAPS

-----------------------------------------------------------------------------
(* Induction.                                                              *)

LEMMA NatSet ==
    ASSUME NEW P, 0 \in P, \A n \in Nat : n \in P => n + 1 \in P
    PROVE  Nat \subseteq P
<1> DEFINE R == OpToRel(<, Nat)
           T == Nat \ P
<1>1. IsWellFoundedOn(R, Nat)
  BY NatLessThanWellFounded
<1>2. T # {} => \E x \in T : \A y \in T : <<y, x>> \notin R
  <2> SUFFICES ASSUME T # {} PROVE \E x \in T : \A y \in T : <<y, x>> \notin R
    OBVIOUS
  <2>1. T \subseteq Nat
    OBVIOUS
  <2> HIDE DEF R, T
  <2> QED
    BY <1>1, <2>1, WFMin
<1>3. ASSUME NEW x \in Nat, NEW y \in Nat, y < x PROVE <<y, x>> \in R
  BY <1>3 DEF OpToRel
<1> HIDE DEF R
<1>4. SUFFICES ASSUME NEW x \in T, \A y \in T : <<y, x>> \notin R PROVE FALSE
  BY <1>2, <1>4
<1>5. x # 0 /\ x - 1 \in Nat
  OBVIOUS
<1>6. x - 1 \notin T
  <2>1. x - 1 < x /\ x \in Nat
    OBVIOUS
  <2>2. <<x - 1, x>> \in R
    BY <1>3, <1>5, <2>1
  <2> QED
    BY <1>4, <2>2
<1>7. x - 1 \in P
  BY <1>5, <1>6 DEF T
<1>8. (x - 1) + 1 = x
  OBVIOUS
<1>9. x \in P
  BY <1>5, <1>7, <1>8
<1> QED
  BY <1>9 DEF T

\* A sequence that is not empty is a sequence and one element more.
LEMMA LastAppended ==
    ASSUME NEW S, NEW s \in Seq(S), s # <<>>
    PROVE  \E t \in Seq(S), e \in S : s = Append(t, e) /\ Len(s) = Len(t) + 1
<1> DEFINE n == Len(s)
           t == [i \in 1..(n - 1) |-> s[i]]
<1>1. n \in Nat /\ n # 0 /\ s[n] \in S
  OBVIOUS
<1>2. t \in Seq(S) /\ Len(t) = n - 1
  BY <1>1
<1>3. s = Append(t, s[n])
  BY <1>1, <1>2
<1> HIDE DEF t
<1> QED
  BY <1>1, <1>2, <1>3

LEMMA AppendTyped ==
    ASSUME NEW S, NEW s \in Seq(S), NEW e \in S
    PROVE  /\ Append(s, e) \in Seq(S) /\ Len(Append(s, e)) = Len(s) + 1 /\ Len(s) \in Nat
           /\ Append(s, e) # <<>> /\ Append(s, e)[Len(s) + 1] = e
           /\ \A i \in 1..Len(s) : Append(s, e)[i] = s[i]
  OBVIOUS

LEMMA FunctionTyped ==
    ASSUME NEW S, NEW n \in Nat, NEW f \in [1..n -> S]
    PROVE  f \in Seq(S) /\ Len(f) = n
  OBVIOUS

LEMMA EmptyTyped == \A S : <<>> \in Seq(S)
  OBVIOUS

LEMMA ConcatPlaces ==
    ASSUME NEW S, NEW s \in Seq(S), NEW t \in Seq(S)
    PROVE  /\ s \o t \in Seq(S) /\ Len(s \o t) = Len(s) + Len(t) /\ Len(s) \in Nat /\ Len(t) \in Nat
           /\ \A i \in 1..Len(s) : (s \o t)[i] = s[i]
           /\ \A i \in 1..Len(t) : (s \o t)[Len(s) + i] = t[i]
           /\ \A k \in 1..Len(s \o t) :
                \/ k \in 1..Len(s) /\ (s \o t)[k] = s[k]
                \/ k - Len(s) \in 1..Len(t) /\ (s \o t)[k] = t[k - Len(s)]
<1>1. /\ s \o t \in Seq(S) /\ Len(s \o t) = Len(s) + Len(t) /\ Len(s) \in Nat /\ Len(t) \in Nat
      /\ \A i \in 1..Len(s) : (s \o t)[i] = s[i]
      /\ \A i \in 1..Len(t) : (s \o t)[Len(s) + i] = t[i]
  OBVIOUS
<1>2. ASSUME NEW k \in 1..Len(s \o t)
      PROVE  \/ k \in 1..Len(s) /\ (s \o t)[k] = s[k]
             \/ k - Len(s) \in 1..Len(t) /\ (s \o t)[k] = t[k - Len(s)]
  OBVIOUS
<1> QED
  BY <1>1, <1>2

LEMMA SeqSet ==
    ASSUME NEW S, NEW P, <<>> \in P,
           \A s \in Seq(S), e \in S : s \in P => Append(s, e) \in P
    PROVE  Seq(S) \subseteq P
<1> DEFINE N == {n \in Nat : \A s \in Seq(S) : Len(s) = n => s \in P}
<1>1. 0 \in N
  OBVIOUS
<1>2. ASSUME NEW n \in Nat, n \in N PROVE n + 1 \in N
  <2> SUFFICES ASSUME NEW s \in Seq(S), Len(s) = n + 1 PROVE s \in P
    OBVIOUS
  <2>1. PICK t \in Seq(S), e \in S : s = Append(t, e) /\ Len(s) = Len(t) + 1
    BY LastAppended
  <2>2. t \in P
    BY <1>2, <2>1
  <2> QED
    BY <2>1, <2>2
<1> HIDE DEF N
<1>3. Nat \subseteq N
  BY <1>1, <1>2, NatSet
<1> QED
  BY <1>3 DEF N

-----------------------------------------------------------------------------
(* Only.                                                                   *)

\* f is the function that Only computes with.
Selecting(s, G, f) ==
    f = [i \in 0..Len(s) |-> IF i = 0 THEN <<>>
                             ELSE IF s[i] \in G THEN Append(f[i - 1], s[i])
                             ELSE f[i - 1]]

LEMMA SelectingExtends ==
    ASSUME NEW S, NEW s \in Seq(S), NEW e \in S, NEW G, NEW f, Selecting(s, G, f)
    PROVE  \E g : /\ Selecting(Append(s, e), G, g)
                  /\ \A i \in 0..Len(s) : g[i] = f[i]
                  /\ g[Len(s) + 1] = IF e \in G THEN Append(f[Len(s)], e) ELSE f[Len(s)]
<1> DEFINE n == Len(s)
           t == Append(s, e)
           g == [i \in 0..(n + 1) |->
                   IF i <= n THEN f[i] ELSE IF e \in G THEN Append(f[n], e) ELSE f[n]]
<1>1. /\ n \in Nat /\ Len(t) = n + 1 /\ t[n + 1] = e
      /\ \A i \in 1..n : t[i] = s[i]
  OBVIOUS
<1>2. \A i \in 0..n : g[i] = f[i]
  BY <1>1
<1>3. g[n + 1] = IF e \in G THEN Append(f[n], e) ELSE f[n]
  BY <1>1
<1>4. ASSUME NEW i \in 0..(n + 1)
      PROVE  g[i] = IF i = 0 THEN <<>>
                    ELSE IF t[i] \in G THEN Append(g[i - 1], t[i]) ELSE g[i - 1]
  <2>1. CASE i = n + 1
    <3>1. i # 0 /\ t[i] = e /\ i - 1 = n /\ n \in 0..n
      BY <1>1, <2>1
    <3>2. g[i - 1] = f[n]
      BY <1>2, <3>1
    <3> HIDE DEF g, t
    <3> QED
      BY <1>3, <2>1, <3>1, <3>2
  <2>2. CASE i = 0
    <3>1. f[0] = <<>>
      BY <1>1 DEF Selecting
    <3> QED
      BY <1>1, <1>2, <2>2, <3>1
  <2>3. CASE i \in 1..n
    <3>1. f[i] = IF s[i] \in G THEN Append(f[i - 1], s[i]) ELSE f[i - 1]
      <4>1. i \in 0..n /\ i # 0
        BY <1>1, <2>3
      <4> QED
        BY <4>1 DEF Selecting
    <3>2. g[i] = f[i] /\ g[i - 1] = f[i - 1] /\ t[i] = s[i] /\ i # 0
      BY <1>1, <1>2, <2>3
    <3> HIDE DEF g, t
    <3> QED
      BY <3>1, <3>2
  <2> QED
    BY <1>1, <2>1, <2>2, <2>3
<1>5. Selecting(t, G, g)
  <2>1. g = [i \in 0..(n + 1) |-> g[i]]
    OBVIOUS
  <2> HIDE DEF g
  <2>2. [i \in 0..(n + 1) |-> g[i]]
          = [i \in 0..(n + 1) |-> IF i = 0 THEN <<>>
                    ELSE IF t[i] \in G THEN Append(g[i - 1], t[i]) ELSE g[i - 1]]
    BY <1>4
  <2> QED
    BY <1>1, <2>1, <2>2 DEF Selecting
<1> HIDE DEF g
<1> QED
  BY <1>2, <1>3, <1>5

LEMMA SelectingExists ==
    ASSUME NEW S, NEW G
    PROVE  \A s \in Seq(S) : \E f : Selecting(s, G, f)
<1> DEFINE P == {s \in Seq(S) : \E f : Selecting(s, G, f)}
<1>1. <<>> \in P
  <2>1. Selecting(<<>>, G, [i \in 0..0 |-> <<>>])
    BY DEF Selecting
  <2> QED
    BY <2>1
<1>2. ASSUME NEW s \in Seq(S), NEW e \in S, s \in P PROVE Append(s, e) \in P
  BY <1>2, SelectingExtends
<1> HIDE DEF P
<1>3. Seq(S) \subseteq P
  BY <1>1, <1>2, SeqSet
<1> QED
  BY <1>3 DEF P

LEMMA SelectingUnique ==
    ASSUME NEW S, NEW s \in Seq(S), NEW G, NEW f, NEW g,
           Selecting(s, G, f), Selecting(s, G, g)
    PROVE  f[Len(s)] = g[Len(s)]
<1> DEFINE P == {n \in Nat : n <= Len(s) => f[n] = g[n]}
<1>1. 0 \in P
  BY DEF Selecting
<1>2. ASSUME NEW n \in Nat, n \in P PROVE n + 1 \in P
  <2> SUFFICES ASSUME n + 1 <= Len(s) PROVE f[n + 1] = g[n + 1]
    OBVIOUS
  <2>1. n + 1 \in 0..Len(s) /\ n + 1 # 0 /\ (n + 1) - 1 = n
    OBVIOUS
  <2>2. f[n] = g[n]
    BY <1>2
  <2>3. /\ f[n + 1] = IF s[n + 1] \in G THEN Append(f[n], s[n + 1]) ELSE f[n]
        /\ g[n + 1] = IF s[n + 1] \in G THEN Append(g[n], s[n + 1]) ELSE g[n]
    BY <2>1 DEF Selecting
  <2> QED
    BY <2>2, <2>3
<1> HIDE DEF P
<1>3. Nat \subseteq P
  BY <1>1, <1>2, NatSet
<1>4. Len(s) \in P
  BY <1>3
<1> QED
  BY <1>4 DEF P

LEMMA OnlySelects ==
    ASSUME NEW S, NEW s \in Seq(S), NEW G, NEW f, Selecting(s, G, f)
    PROVE  Only(s, G) = f[Len(s)]
<1> DEFINE g == CHOOSE g : Selecting(s, G, g)
<1>1. Selecting(s, G, g)
  BY SelectingExists
<1>2. Only(s, G) = g[Len(s)]
  BY DEF Only, Selecting
<1> HIDE DEF g
<1> QED
  BY <1>1, <1>2, SelectingUnique

\* Only of a sequence and one element more.
LEMMA OnlyAppend ==
    ASSUME NEW S, NEW s \in Seq(S), NEW e \in S, NEW G
    PROVE  Only(Append(s, e), G) = IF e \in G THEN Append(Only(s, G), e) ELSE Only(s, G)
<1>1. PICK f : Selecting(s, G, f)
  BY SelectingExists
<1>2. PICK g : /\ Selecting(Append(s, e), G, g)
               /\ g[Len(s) + 1] = IF e \in G THEN Append(f[Len(s)], e) ELSE f[Len(s)]
  BY <1>1, SelectingExtends
<1>3. Only(s, G) = f[Len(s)]
  BY <1>1, OnlySelects
<1>4. Append(s, e) \in Seq(S) /\ Len(Append(s, e)) = Len(s) + 1
  OBVIOUS
<1>5. Only(Append(s, e), G) = g[Len(s) + 1]
  BY <1>2, <1>4, OnlySelects
<1> QED
  BY <1>2, <1>3, <1>5

LEMMA OnlyEmpty ==
    ASSUME NEW G
    PROVE  Only(<<>>, G) = <<>>
<1>1. Selecting(<<>>, G, [i \in 0..0 |-> <<>>])
  BY DEF Selecting
<1>2. <<>> \in Seq({}) /\ Len(<<>>) = 0
  OBVIOUS
<1>3. Only(<<>>, G) = [i \in 0..0 |-> <<>>][0]
  BY <1>1, <1>2, OnlySelects
<1> QED
  BY <1>3

\* o has elements of S that belong to G, those of s and no other.
Selects(S, G, s, o) ==
    /\ o \in Seq(S \intersect G)
    /\ \A i \in 1..Len(s) : s[i] \in G => \E j \in 1..Len(o) : o[j] = s[i]
    /\ \A j \in 1..Len(o) : \E i \in 1..Len(s) : s[i] = o[j]

LEMMA OnlySelection ==
    ASSUME NEW S, NEW G, NEW s \in Seq(S)
    PROVE  Selects(S, G, s, Only(s, G))
<1> DEFINE Right(t, o) == Selects(S, G, t, o)
           P == {t \in Seq(S) : Right(t, Only(t, G))}
<1>1. <<>> \in P
  <2>1. Right(<<>>, <<>>)
    BY DEF Selects
  <2> HIDE DEF Right
  <2> QED
    BY <2>1, OnlyEmpty
<1>2. ASSUME NEW t \in Seq(S), NEW e \in S, t \in P PROVE Append(t, e) \in P
  <2> DEFINE o == Only(t, G)
             u == Append(t, e)
  <2>1. Right(t, o)
    BY <1>2
  <2>2. Only(u, G) = IF e \in G THEN Append(o, e) ELSE o
    BY OnlyAppend
  <2>3. /\ u \in Seq(S) /\ Len(u) = Len(t) + 1 /\ u[Len(t) + 1] = e
        /\ \A i \in 1..Len(t) : u[i] = t[i]
    OBVIOUS
  <2> HIDE DEF o, u
  <2> USE DEF Selects
  <2>4. CASE e \notin G
    <3>1. ASSUME NEW i \in 1..Len(u), u[i] \in G PROVE \E j \in 1..Len(o) : o[j] = u[i]
      <4>1. i \in 1..Len(t) /\ u[i] = t[i]
        BY <2>3, <2>4, <3>1
      <4> QED
        BY <2>1, <3>1, <4>1
    <3>2. ASSUME NEW j \in 1..Len(o) PROVE \E i \in 1..Len(u) : u[i] = o[j]
      <4>1. PICK i \in 1..Len(t) : t[i] = o[j]
        BY <2>1
      <4>2. i \in 1..Len(u) /\ u[i] = o[j]
        BY <2>3, <4>1
      <4> QED
        BY <4>2
    <3>3. Right(u, o)
      BY <2>1, <3>1, <3>2
    <3> QED
      BY <2>2, <2>3, <2>4, <3>3 DEF u
  <2>5. CASE e \in G
    <3> DEFINE p == Append(o, e)
    <3>1. /\ p \in Seq(S \intersect G) /\ Len(p) = Len(o) + 1 /\ p[Len(o) + 1] = e
          /\ \A i \in 1..Len(o) : p[i] = o[i]
      BY <2>1, <2>5
    <3> HIDE DEF p
    <3>2. ASSUME NEW i \in 1..Len(u), u[i] \in G PROVE \E j \in 1..Len(p) : p[j] = u[i]
      <4>1. CASE i = Len(t) + 1
        <5>1. Len(p) \in 1..Len(p) /\ p[Len(p)] = e
          BY <2>1, <3>1
        <5> QED
          BY <2>3, <4>1, <5>1
      <4>2. CASE i \in 1..Len(t)
        <5>1. PICK j \in 1..Len(o) : o[j] = t[i]
          BY <2>1, <2>3, <3>2, <4>2
        <5>2. j \in 1..Len(p) /\ p[j] = u[i]
          BY <2>1, <2>3, <3>1, <4>2, <5>1
        <5> QED
          BY <5>2
      <4> QED
        BY <2>3, <4>1, <4>2
    <3>3. ASSUME NEW j \in 1..Len(p) PROVE \E i \in 1..Len(u) : u[i] = p[j]
      <4>1. CASE j = Len(o) + 1
        <5>1. Len(t) + 1 \in 1..Len(u) /\ u[Len(t) + 1] = p[j]
          BY <2>3, <3>1, <4>1
        <5> QED
          BY <5>1
      <4>2. CASE j \in 1..Len(o)
        <5>1. PICK i \in 1..Len(t) : t[i] = o[j]
          BY <2>1, <4>2
        <5>2. i \in 1..Len(u) /\ u[i] = p[j]
          BY <2>3, <3>1, <4>2, <5>1
        <5> QED
          BY <5>2
      <4> QED
        BY <2>1, <3>1, <4>1, <4>2
    <3>4. Right(u, p)
      BY <3>1, <3>2, <3>3
    <3> QED
      BY <2>2, <2>3, <2>5, <3>4 DEF p, u
  <2> QED
    BY <2>4, <2>5
<1> HIDE DEF P
<1>3. Seq(S) \subseteq P
  BY <1>1, <1>2, SeqSet
<1> QED
  BY <1>3 DEF P

LEMMA OnlyElements ==
    ASSUME NEW S, NEW G, NEW s \in Seq(S), NEW o, o = Only(s, G)
    PROVE  /\ o \in Seq(S \intersect G) /\ o \in Seq(S)
           /\ \A i \in 1..Len(s) : s[i] \in G => \E j \in 1..Len(o) : o[j] = s[i]
           /\ \A j \in 1..Len(o) : \E i \in 1..Len(s) : s[i] = o[j]
<1>1. Selects(S, G, s, o)
  BY OnlySelection
<1> QED
  BY <1>1 DEF Selects

LEMMA OnlyTyped ==
    ASSUME NEW S, NEW G, NEW s \in Seq(S)
    PROVE  Only(s, G) \in Seq(S) /\ Only(s, G) \in Seq(S \intersect G)
  BY OnlyElements

LEMMA ConcatAppend ==
    ASSUME NEW S, NEW s \in Seq(S), NEW t \in Seq(S), NEW e \in S
    PROVE  s \o Append(t, e) = Append(s \o t, e) /\ s \o t \in Seq(S)
  OBVIOUS

LEMMA OnlyConcat ==
    ASSUME NEW S, NEW s \in Seq(S), NEW r \in Seq(S), NEW G
    PROVE  Only(s \o r, G) = Only(s, G) \o Only(r, G)
<1> DEFINE P == {t \in Seq(S) : Only(s \o t, G) = Only(s, G) \o Only(t, G)}
<1>1. <<>> \in P
  <2>1. Only(s, G) \in Seq(S) /\ Only(<<>>, G) = <<>>
    BY OnlyTyped, OnlyEmpty
  <2>2. s \o <<>> = s /\ Only(s, G) \o <<>> = Only(s, G)
    BY <2>1
  <2> QED
    BY <2>1, <2>2
<1>2. ASSUME NEW t \in Seq(S), NEW e \in S, t \in P PROVE Append(t, e) \in P
  <2>1. s \o Append(t, e) = Append(s \o t, e) /\ s \o t \in Seq(S)
    BY ConcatAppend
  <2>2. Only(s, G) \in Seq(S) /\ Only(t, G) \in Seq(S)
    BY OnlyTyped
  <2>3. /\ Only(Append(s \o t, e), G)
             = IF e \in G THEN Append(Only(s \o t, G), e) ELSE Only(s \o t, G)
        /\ Only(Append(t, e), G) = IF e \in G THEN Append(Only(t, G), e) ELSE Only(t, G)
    BY <2>1, OnlyAppend
  <2>4. Append(Only(s, G) \o Only(t, G), e) = Only(s, G) \o Append(Only(t, G), e)
    <3> DEFINE p == Only(s, G)
               q == Only(t, G)
    <3>1. p \in Seq(S) /\ q \in Seq(S)
      BY <2>2
    <3> HIDE DEF p, q
    <3>2. p \o Append(q, e) = Append(p \o q, e)
      BY <3>1, ConcatAppend
    <3> QED
      BY <3>2 DEF p, q
  <2>5. Only(s \o t, G) = Only(s, G) \o Only(t, G)
    BY <1>2
  <2>6. Only(s \o Append(t, e), G) = Only(s, G) \o Only(Append(t, e), G)
    BY <2>1, <2>3, <2>4, <2>5
  <2> QED
    BY <2>6
<1> HIDE DEF P
<1>3. Seq(S) \subseteq P
  BY <1>1, <1>2, SeqSet
<1> QED
  BY <1>3 DEF P

LEMMA OnlyNone ==
    ASSUME NEW S, NEW s \in Seq(S), NEW G, \A i \in 1..Len(s) : s[i] \notin G
    PROVE  Only(s, G) = <<>>
<1> DEFINE o == Only(s, G)
<1> HIDE DEF o
<1>1. o \in Seq(S \intersect G) /\ \A j \in 1..Len(o) : \E i \in 1..Len(s) : s[i] = o[j]
  <2>1. Selects(S, G, s, o)
    BY OnlySelection DEF o
  <2> QED
    BY <2>1 DEF Selects
<1>2. ASSUME NEW j \in 1..Len(o) PROVE FALSE
  <2>1. o[j] \in G
    BY <1>1
  <2> QED
    BY <1>1, <2>1
<1>3. o = <<>>
  BY <1>1, <1>2
<1> QED
  BY <1>3 DEF o

\* Nothing is selected twice.
LEMMA OnlyDistinct ==
    ASSUME NEW S, NEW G, NEW r \in Seq(S), IsInjective(r)
    PROVE  IsInjective(Only(r, G))
<1> DEFINE P == {s \in Seq(S) : IsInjective(s) => IsInjective(Only(s, G))}
<1>1. <<>> \in P
  <2>1. IsInjective(<<>>)
    BY DEF IsInjective
  <2> QED
    BY <2>1, OnlyEmpty
<1>2. ASSUME NEW s \in Seq(S), NEW e \in S, s \in P PROVE Append(s, e) \in P
  <2> DEFINE t == Append(s, e)
             o == Only(s, G)
             p == Append(o, e)
  <2>1. /\ t \in Seq(S) /\ Len(t) = Len(s) + 1 /\ t[Len(s) + 1] = e
        /\ \A i \in 1..Len(s) : t[i] = s[i]
    OBVIOUS
  <2> SUFFICES ASSUME IsInjective(t) PROVE IsInjective(Only(t, G))
    BY <2>1
  <2>2. Only(t, G) = IF e \in G THEN p ELSE o
    BY OnlyAppend
  <2> HIDE DEF t, o
  <2>3. o \in Seq(S) /\ \A j \in 1..Len(o) : \E i \in 1..Len(s) : s[i] = o[j]
    <3>1. Selects(S, G, s, o)
      BY OnlySelection DEF o
    <3> QED
      BY <3>1 DEF Selects
  <2>5. IsInjective(s) /\ \A i \in 1..Len(s) : s[i] # e
    <3>1. \A i \in 1..Len(s) : i \in 1..Len(t) /\ i # Len(s) + 1
      BY <2>1
    <3>2. Len(s) + 1 \in 1..Len(t)
      BY <2>1
    <3>3. \A i, j \in 1..Len(t) : t[i] = t[j] => i = j
      <4>1. IsInjective(t) /\ DOMAIN t = 1..Len(t)
        BY <2>1
      <4> QED
        BY <4>1 DEF IsInjective
    <3>4. \A i, j \in 1..Len(s) : s[i] = s[j] => i = j
      BY <2>1, <3>1, <3>3
    <3>5. \A i \in 1..Len(s) : s[i] # e
      BY <2>1, <3>1, <3>2, <3>3
    <3>6. DOMAIN s = 1..Len(s)
      OBVIOUS
    <3> QED
      BY <3>4, <3>5, <3>6 DEF IsInjective
  <2>6. IsInjective(o)
    BY <1>2, <2>5 DEF o
  <2>7. \A j \in 1..Len(o) : o[j] # e
    BY <2>3, <2>5
  <2>8. IsInjective(p)
    BY <2>3, <2>6, <2>7 DEF IsInjective
  <2> QED
    BY <2>2, <2>6, <2>8
<1> HIDE DEF P
<1>3. Seq(S) \subseteq P
  BY <1>1, <1>2, SeqSet
<1> QED
  BY <1>3 DEF P

-----------------------------------------------------------------------------
(* FlattenSeq.                                                             *)

\* f is the function that FlattenSeq computes with.
Flattening(ss, f) ==
    f = [i \in 1..Len(ss) |-> IF i = 1 THEN ss[i] ELSE f[i - 1] \o ss[i]]

LEMMA FlatteningExtends ==
    ASSUME NEW S, NEW ss \in Seq(Seq(S)), NEW t \in Seq(S), NEW f, Flattening(ss, f)
    PROVE  \E g : /\ Flattening(Append(ss, t), g)
                  /\ \A i \in 1..Len(ss) : g[i] = f[i]
                  /\ g[Len(ss) + 1] = IF ss = <<>> THEN t ELSE f[Len(ss)] \o t
<1> DEFINE n == Len(ss)
           u == Append(ss, t)
           g == [i \in 1..(n + 1) |->
                   IF i <= n THEN f[i] ELSE IF ss = <<>> THEN t ELSE f[n] \o t]
<1>1. /\ n \in Nat /\ Len(u) = n + 1 /\ u[n + 1] = t /\ (n = 0 <=> ss = <<>>)
      /\ \A i \in 1..n : u[i] = ss[i]
  OBVIOUS
<1>2. \A i \in 1..n : g[i] = f[i]
  BY <1>1
<1>3. g[n + 1] = IF ss = <<>> THEN t ELSE f[n] \o t
  BY <1>1
<1>4. ASSUME NEW i \in 1..(n + 1)
      PROVE  g[i] = IF i = 1 THEN u[i] ELSE g[i - 1] \o u[i]
  <2>1. CASE i = n + 1
    <3>1. u[i] = t /\ i - 1 = n /\ (i = 1 <=> ss = <<>>)
      BY <1>1, <2>1
    <3>2. i # 1 => g[i - 1] = f[n]
      <4> SUFFICES ASSUME i # 1 PROVE g[i - 1] = f[n]
        OBVIOUS
      <4>1. n \in 1..n
        BY <1>1, <2>1
      <4> QED
        BY <1>2, <3>1, <4>1
    <3> HIDE DEF g, u
    <3> QED
      BY <1>3, <2>1, <3>1, <3>2
  <2>2. CASE i \in 1..n
    <3>1. f[i] = IF i = 1 THEN ss[i] ELSE f[i - 1] \o ss[i]
      BY <2>2 DEF Flattening
    <3>2. g[i] = f[i] /\ u[i] = ss[i]
      BY <1>1, <1>2, <2>2
    <3>3. i # 1 => g[i - 1] = f[i - 1]
      <4> SUFFICES ASSUME i # 1 PROVE g[i - 1] = f[i - 1]
        OBVIOUS
      <4>1. i - 1 \in 1..n
        BY <1>1, <2>2
      <4> QED
        BY <1>2, <4>1
    <3> HIDE DEF g, u
    <3> QED
      BY <3>1, <3>2, <3>3
  <2> QED
    BY <1>1, <2>1, <2>2
<1>5. Flattening(u, g)
  <2>1. g = [i \in 1..(n + 1) |-> g[i]]
    OBVIOUS
  <2> HIDE DEF g
  <2>2. [i \in 1..(n + 1) |-> g[i]]
          = [i \in 1..(n + 1) |-> IF i = 1 THEN u[i] ELSE g[i - 1] \o u[i]]
    BY <1>4
  <2> QED
    BY <1>1, <2>1, <2>2 DEF Flattening
<1> HIDE DEF g
<1> QED
  BY <1>2, <1>3, <1>5

LEMMA FlatteningExists ==
    ASSUME NEW S
    PROVE  \A ss \in Seq(Seq(S)) : \E f : Flattening(ss, f)
<1> DEFINE P == {ss \in Seq(Seq(S)) : \E f : Flattening(ss, f)}
<1>1. <<>> \in P
  <2>1. Flattening(<<>>, [i \in 1..0 |-> <<>>])
    BY DEF Flattening
  <2> QED
    BY <2>1
<1>2. ASSUME NEW ss \in Seq(Seq(S)), NEW t \in Seq(S), ss \in P PROVE Append(ss, t) \in P
  BY <1>2, FlatteningExtends
<1> HIDE DEF P
<1>3. Seq(Seq(S)) \subseteq P
  BY <1>1, <1>2, SeqSet
<1> QED
  BY <1>3 DEF P

LEMMA FlatteningUnique ==
    ASSUME NEW S, NEW ss \in Seq(Seq(S)), NEW f, NEW g, Flattening(ss, f), Flattening(ss, g)
    PROVE  \A n \in 1..Len(ss) : f[n] = g[n]
<1> DEFINE P == {n \in Nat : n + 1 <= Len(ss) => f[n + 1] = g[n + 1]}
<1>1. 0 \in P
  BY DEF Flattening
<1>2. ASSUME NEW n \in Nat, n \in P PROVE n + 1 \in P
  <2> SUFFICES ASSUME n + 2 <= Len(ss) PROVE f[n + 2] = g[n + 2]
    OBVIOUS
  <2>1. n + 2 \in 1..Len(ss) /\ n + 2 # 1 /\ (n + 2) - 1 = n + 1
    OBVIOUS
  <2>2. f[n + 1] = g[n + 1]
    BY <1>2
  <2>3. f[n + 2] = f[n + 1] \o ss[n + 2] /\ g[n + 2] = g[n + 1] \o ss[n + 2]
    BY <2>1 DEF Flattening
  <2> QED
    BY <2>2, <2>3
<1> HIDE DEF P
<1>3. Nat \subseteq P
  BY <1>1, <1>2, NatSet
<1>4. ASSUME NEW n \in 1..Len(ss) PROVE f[n] = g[n]
  <2>1. n - 1 \in P /\ (n - 1) + 1 = n
    BY <1>3
  <2> QED
    BY <2>1 DEF P
<1> QED
  BY <1>4

LEMMA FlattenSeqIs ==
    ASSUME NEW S, NEW ss \in Seq(Seq(S)), NEW f, Flattening(ss, f)
    PROVE  FlattenSeq(ss) = IF ss = <<>> THEN <<>> ELSE f[Len(ss)]
<1>1. CASE ss = <<>>
  BY <1>1 DEF FlattenSeq
<1>2. CASE ss # <<>>
  <2> DEFINE g == CHOOSE g : Flattening(ss, g)
  <2>1. Flattening(ss, g)
    BY FlatteningExists
  <2>2. FlattenSeq(ss) = g[Len(ss)]
    BY <1>2 DEF FlattenSeq, Flattening
  <2>3. Len(ss) \in 1..Len(ss)
    BY <1>2
  <2> HIDE DEF g
  <2> QED
    BY <1>2, <2>1, <2>2, <2>3, FlatteningUnique
<1> QED
  BY <1>1, <1>2

\* FlattenSeq of a sequence and one element more.
LEMMA FlattenAppend ==
    ASSUME NEW S, NEW ss \in Seq(Seq(S)), NEW t \in Seq(S)
    PROVE  FlattenSeq(Append(ss, t)) = FlattenSeq(ss) \o t
<1>1. PICK f : Flattening(ss, f)
  BY FlatteningExists
<1>2. PICK g : /\ Flattening(Append(ss, t), g)
               /\ g[Len(ss) + 1] = IF ss = <<>> THEN t ELSE f[Len(ss)] \o t
  BY <1>1, FlatteningExtends
<1>3. FlattenSeq(ss) = IF ss = <<>> THEN <<>> ELSE f[Len(ss)]
  BY <1>1, FlattenSeqIs
<1>4. /\ Append(ss, t) \in Seq(Seq(S)) /\ Len(Append(ss, t)) = Len(ss) + 1
      /\ Append(ss, t) # <<>>
  BY AppendTyped
<1>5. FlattenSeq(Append(ss, t)) = g[Len(ss) + 1]
  BY <1>2, <1>4, FlattenSeqIs
<1>6. <<>> \o t = t
  OBVIOUS
<1> QED
  BY <1>2, <1>3, <1>5, <1>6

LEMMA FlattenNext ==
    ASSUME NEW S, NEW n \in Nat, NEW F \in [1..(n + 1) -> Seq(S)]
    PROVE  FlattenSeq(F) = FlattenSeq([i \in 1..n |-> F[i]]) \o F[n + 1]
<1> DEFINE ss == [i \in 1..n |-> F[i]]
           t == F[n + 1]
<1>1. t \in Seq(S) /\ ss \in [1..n -> Seq(S)]
  OBVIOUS
<1>2. ss \in Seq(Seq(S)) /\ Len(ss) = n
  BY <1>1, FunctionTyped
<1>3. Append(ss, t) = F
  <2>1. Append(ss, t) = [i \in 1..(n + 1) |-> IF i \in 1..n THEN ss[i] ELSE t]
    BY <1>1, <1>2
  <2>2. \A i \in 1..(n + 1) : (IF i \in 1..n THEN ss[i] ELSE t) = F[i]
    OBVIOUS
  <2> QED
    BY <2>1, <2>2
<1> HIDE DEF ss, t
<1>4. FlattenSeq(Append(ss, t)) = FlattenSeq(ss) \o t
  BY <1>1, <1>2, FlattenAppend
<1> QED
  BY <1>3, <1>4 DEF ss, t

LEMMA FlattenEmpty == FlattenSeq(<<>>) = <<>>
  BY DEF FlattenSeq

LEMMA FlattenTyped ==
    ASSUME NEW S
    PROVE  \A ss \in Seq(Seq(S)) : FlattenSeq(ss) \in Seq(S)
<1> DEFINE P == {ss \in Seq(Seq(S)) : FlattenSeq(ss) \in Seq(S)}
<1>1. <<>> \in P
  BY FlattenEmpty, EmptyTyped
<1>2. ASSUME NEW ss \in Seq(Seq(S)), NEW t \in Seq(S), ss \in P PROVE Append(ss, t) \in P
  <2>1. FlattenSeq(Append(ss, t)) = FlattenSeq(ss) \o t
    BY FlattenAppend
  <2>2. FlattenSeq(ss) \in Seq(S)
    BY <1>2
  <2>3. FlattenSeq(ss) \o t \in Seq(S)
    BY <2>2
  <2>4. Append(ss, t) \in Seq(Seq(S))
    BY AppendTyped
  <2> QED
    BY <2>1, <2>3, <2>4
<1> HIDE DEF P
<1>3. Seq(Seq(S)) \subseteq P
  BY <1>1, <1>2, SeqSet
<1> QED
  BY <1>3 DEF P

\* What FlattenSeq joins is what it is given.
LEMMA FlattenElements ==
    ASSUME NEW S
    PROVE  \A ss \in Seq(Seq(S)) : \A k \in 1..Len(FlattenSeq(ss)) :
             \E i \in 1..Len(ss) : \E a \in 1..Len(ss[i]) : FlattenSeq(ss)[k] = ss[i][a]
<1> DEFINE Right(ss, o) ==
             \A k \in 1..Len(o) : \E i \in 1..Len(ss) : \E a \in 1..Len(ss[i]) : o[k] = ss[i][a]
           P == {ss \in Seq(Seq(S)) : Right(ss, FlattenSeq(ss))}
<1>1. <<>> \in P
  <2>1. Right(<<>>, <<>>)
    OBVIOUS
  <2> HIDE DEF Right
  <2> QED
    BY <2>1, FlattenEmpty, EmptyTyped
<1>2. ASSUME NEW ss \in Seq(Seq(S)), NEW t \in Seq(S), ss \in P PROVE Append(ss, t) \in P
  <2> DEFINE o == FlattenSeq(ss)
             u == Append(ss, t)
  <2>1. FlattenSeq(u) = o \o t
    BY FlattenAppend
  <2>2. o \in Seq(S)
    BY FlattenTyped
  <2>3. /\ u \in Seq(Seq(S)) /\ Len(u) = Len(ss) + 1 /\ u[Len(ss) + 1] = t /\ Len(ss) \in Nat
        /\ \A i \in 1..Len(ss) : u[i] = ss[i]
    BY AppendTyped
  <2>4. Right(ss, o)
    BY <1>2
  <2> HIDE DEF o, u
  <2>5. ASSUME NEW k \in 1..Len(o \o t)
        PROVE  \E i \in 1..Len(u) : \E a \in 1..Len(u[i]) : (o \o t)[k] = u[i][a]
    <3>1. CASE k \in 1..Len(o) /\ (o \o t)[k] = o[k]
      <4>1. PICK i \in 1..Len(ss) : \E a \in 1..Len(ss[i]) : o[k] = ss[i][a]
        BY <2>4, <3>1
      <4>2. i \in 1..Len(u) /\ u[i] = ss[i]
        BY <2>3
      <4> QED
        BY <3>1, <4>1, <4>2
    <3>2. CASE k - Len(o) \in 1..Len(t) /\ (o \o t)[k] = t[k - Len(o)]
      <4>1. Len(ss) + 1 \in 1..Len(u)
        BY <2>3
      <4> QED
        BY <2>3, <3>2, <4>1
    <3> QED
      BY <2>2, <3>1, <3>2, ConcatPlaces
  <2>6. Right(u, o \o t)
    BY <2>5
  <2> HIDE DEF Right
  <2>7. u \in Seq(Seq(S)) /\ Right(u, FlattenSeq(u))
    BY <2>1, <2>3, <2>6
  <2> QED
    BY <2>7 DEF u
<1> HIDE DEF P
<1>3. Seq(Seq(S)) \subseteq P
  BY <1>1, <1>2, SeqSet
<1> QED
  BY <1>3 DEF P

-----------------------------------------------------------------------------
(* SetToSeqs: the orders in which the elements of a set can be met.        *)

Enumerates(S, o) ==
    o \in Seq(S) /\ IsInjective(o) /\ \A x \in S : \E i \in 1..Len(o) : o[i] = x

LEMMA Orders ==
    ASSUME NEW S, IsFiniteSet(S), NEW o
    PROVE  o \in SetToSeqs(S) <=> Enumerates(S, o)
<1> DEFINE n == Cardinality(S)
           D == 1..n
<1>1. n \in Nat /\ IsFiniteSet(D) /\ Cardinality(D) = n
  BY FS_CardinalityType, FS_Interval
<1>2. ASSUME o \in SetToSeqs(S)
      PROVE  o \in Seq(S) /\ IsInjective(o) /\ \A x \in S : \E i \in 1..Len(o) : o[i] = x
  <2>1. o \in [D -> S] /\ \A i, j \in D : i # j => o[i] # o[j]
    BY <1>2 DEF SetToSeqs
  <2>2. o \in Injection(D, S)
    BY <2>1 DEF Injection, IsInjective
  <2>3. o \in Surjection(D, S)
    BY <1>1, <2>2, FS_Injection
  <2>4. o \in Seq(S) /\ Len(o) = n /\ DOMAIN o = D
    BY <1>1, <2>1
  <2> QED
    BY <2>1, <2>3, <2>4 DEF Surjection, IsInjective
<1>3. ASSUME o \in Seq(S), IsInjective(o), \A x \in S : \E i \in 1..Len(o) : o[i] = x
      PROVE  o \in SetToSeqs(S)
  <2> DEFINE E == 1..Len(o)
  <2>1. Len(o) \in Nat /\ o \in [E -> S] /\ DOMAIN o = E
    BY <1>3
  <2>2. o \in Injection(E, S)
    BY <1>3, <2>1 DEF Injection, IsInjective
  <2>3. o \in Surjection(E, S)
    BY <1>3, <2>1 DEF Surjection
  <2>4. IsFiniteSet(E) /\ Cardinality(E) = Len(o)
    BY <2>1, FS_Interval
  <2>5. Cardinality(E) = Cardinality(S)
    BY <2>2, <2>3, FS_Injection
  <2>6. o \in [D -> S] /\ \A i, j \in D : i # j => o[i] # o[j]
    BY <1>3, <2>1, <2>4, <2>5 DEF IsInjective
  <2> QED
    BY <2>6 DEF SetToSeqs
<1> QED
  BY <1>2, <1>3 DEF Enumerates
=============================================================================
