------------------------- MODULE Interpreter_proofs -------------------------
(***************************************************************************)
(* TLAPS proofs about Interpreter, for every tame program and every depth  *)
(* of the stack.                                                           *)
(***************************************************************************)
EXTENDS InterpreterInvariant, SequenceTheorems, TLAPS

-----------------------------------------------------------------------------
(* Sequences.                                                              *)

LEMMA FrontFacts ==
    ASSUME NEW S, NEW s \in Seq(S), s # <<>>
    PROVE  /\ Front(s) \in Seq(S) /\ Len(Front(s)) = Len(s) - 1
           /\ \A n \in 1..(Len(s) - 1) : Front(s)[n] = s[n]
           /\ Len(s) \in Nat \ {0} /\ Last(s) = s[Len(s)] /\ Last(s) \in S
<1>1. Len(s) \in Nat \ {0}
  BY EmptySeq
<1>2. \A i \in 1..(Len(s) - 1) : s[i] \in S
  BY <1>1, ElementOfSeq
<1>3. /\ SubSeq(s, 1, Len(s) - 1) \in Seq(S)
      /\ Len(SubSeq(s, 1, Len(s) - 1)) = IF 1 <= Len(s) - 1 THEN Len(s) - 1 - 1 + 1 ELSE 0
      /\ \A i \in 1..(Len(s) - 1 - 1 + 1) : SubSeq(s, 1, Len(s) - 1)[i] = s[1 + i - 1]
  BY <1>1, <1>2, SubSeqProperties
<1>4. Len(SubSeq(s, 1, Len(s) - 1)) = Len(s) - 1
  <2>1. ASSUME NEW m \in Nat PROVE (IF 1 <= m THEN m - 1 + 1 ELSE 0) = m
    <3>1. CASE 1 <= m
      BY <3>1
    <3>2. CASE ~(1 <= m)
      BY <3>2
    <3> QED
      BY <3>1, <3>2
  <2>2. Len(s) - 1 \in Nat
    BY <1>1
  <2> QED
    BY <1>3, <2>1, <2>2
<1>5. \A i \in 1..(Len(s) - 1) : SubSeq(s, 1, Len(s) - 1)[i] = s[i]
  BY <1>1, <1>3
<1>6. s[Len(s)] \in S
  BY <1>1, ElementOfSeq
<1> QED
  BY <1>1, <1>3, <1>4, <1>5, <1>6 DEF Front, Last

LEMMA AtLeastTwo ==
    ASSUME NEW n \in Nat \ {0}
    PROVE  /\ n # 1 => n >= 2
           /\ n >= 2 => n - 1 \in 1..(n - 1) /\ n - 1 # 0 /\ n + 1 - 2 = n - 1
  OBVIOUS

LEMMA FunctionIsSeq ==
    ASSUME NEW S, NEW k \in Nat, NEW c \in [1..k -> S]
    PROVE  c \in Seq(S) /\ Len(c) = k
<1>1. c \in Seq(S)
  BY SeqDef
<1>2. DOMAIN c = 1..Len(c) /\ Len(c) \in Nat
  BY <1>1, LenProperties
<1> QED
  BY <1>1, <1>2

-----------------------------------------------------------------------------
(* The chain of a stack.                                                   *)

\* A stack, a program counter and a register E that make a chain.
Proper(s, p, r) ==
  /\ s \in Seq(Words) /\ s # <<>> /\ p \in Links
  /\ \A n \in 1..Len(s) : s[n].ret = Outside <=> n = 1
  /\ p.at = "unwinding" => r \in Place

Length(s, p) == IF p.at = "unwinding" THEN Len(s) + 1 ELSE Len(s)

LEMMA ChainFacts ==
    ASSUME NEW s, NEW p, NEW r, Proper(s, p, r)
    PROVE  /\ ChainOf(s, p, r) \in Seq(Links) /\ ChainOf(s, p, r) # <<>>
           /\ Len(ChainOf(s, p, r)) = Length(s, p)
           /\ Len(s) \in Nat \ {0}
           /\ \A n \in 1..Length(s, p) :
                ChainOf(s, p, r)[n] = IF n < Len(s) THEN s[n + 1].ret
                                      ELSE IF n = Len(s) /\ p.at = "unwinding" THEN r
                                      ELSE p
<1>1. s \in Seq(Words) /\ p \in Links /\ s # <<>>
  BY DEF Proper
<1>2. Len(s) \in Nat \ {0}
  BY <1>1, EmptySeq
<1>3. Length(s, p) \in Nat \ {0}
  BY <1>2 DEF Length
<1>4. \A n \in 1..Length(s, p) : n < Len(s) => s[n + 1].ret \in Links
  <2> SUFFICES ASSUME NEW n \in 1..Length(s, p), n < Len(s) PROVE s[n + 1].ret \in Links
    OBVIOUS
  <2>1. n + 1 \in 1..Len(s) /\ n + 1 # 1
    BY <1>2, <1>3
  <2>2. s[n + 1] \in Words
    BY <1>1, <2>1, ElementOfSeq
  <2>3. s[n + 1].ret # Outside
    BY <2>1 DEF Proper
  <2> QED
    BY <2>2, <2>3 DEF Words
<1>5. p.at = "unwinding" => r \in Links
  BY DEF Proper, Links
<1>6. ChainOf(s, p, r) \in [1..Length(s, p) -> Links]
  BY <1>1, <1>4, <1>5 DEF ChainOf, Length
<1>7. ChainOf(s, p, r) \in Seq(Links) /\ Len(ChainOf(s, p, r)) = Length(s, p)
  BY <1>3, <1>6, FunctionIsSeq
<1>8. ChainOf(s, p, r) # <<>>
  BY <1>3, <1>7, EmptySeq
<1> QED
  BY <1>2, <1>7, <1>8 DEF ChainOf, Length

\* Two chains that agree everywhere are the same.
LEMMA SameChain ==
    ASSUME NEW c \in Seq(Links), NEW d \in Seq(Links), Len(c) = Len(d),
           \A n \in 1..Len(c) : c[n] = d[n]
    PROVE  c = d
  BY SeqEqual

LEMMA AppendFacts ==
    ASSUME NEW S, NEW c \in Seq(S), NEW e \in S
    PROVE  /\ Append(c, e) \in Seq(S) /\ Append(c, e) # <<>>
           /\ Len(Append(c, e)) = Len(c) + 1 /\ Len(c) \in Nat
           /\ \A n \in 1..Len(c) : Append(c, e)[n] = c[n]
           /\ Append(c, e)[Len(c) + 1] = e
  BY AppendProperties, LenProperties

-----------------------------------------------------------------------------
(* Chains that grow and shrink.                                            *)

LEMMA LinkedFront ==
    ASSUME NEW c \in Seq(Links), c # <<>>, Linked(c)
    PROVE  Linked(Front(c))
<1>1. /\ Front(c) \in Seq(Links) /\ Len(Front(c)) = Len(c) - 1 /\ Len(c) \in Nat \ {0}
      /\ \A n \in 1..(Len(c) - 1) : Front(c)[n] = c[n]
  BY FrontFacts
<1>2. ASSUME Front(c) # <<>> PROVE Front(c)[1].at = "code"
  <2>1. Len(Front(c)) # 0
    BY <1>1, <1>2, EmptySeq
  <2>2. 1 \in 1..(Len(c) - 1)
    BY <1>1, <2>1
  <2> QED
    BY <1>1, <2>2 DEF Linked
<1>3. ASSUME NEW n \in 1..Len(Front(c)), n + 1 <= Len(Front(c)) PROVE Leads(Front(c)[n], Front(c)[n + 1])
  <2>1. n \in 1..(Len(c) - 1) /\ n + 1 \in 1..(Len(c) - 1) /\ n \in 1..Len(c) /\ n + 1 <= Len(c)
    BY <1>1, <1>3
  <2> QED
    BY <1>1, <2>1 DEF Linked
<1> QED
  BY <1>2, <1>3 DEF Linked

LEMMA LinkedAppend ==
    ASSUME NEW c \in Seq(Links), NEW e \in Links, Linked(c),
           IF c = <<>> THEN e.at = "code" ELSE Leads(Last(c), e)
    PROVE  Linked(Append(c, e))
<1>1. /\ Append(c, e) \in Seq(Links) /\ Len(Append(c, e)) = Len(c) + 1 /\ Len(c) \in Nat
      /\ \A n \in 1..Len(c) : Append(c, e)[n] = c[n]
      /\ Append(c, e)[Len(c) + 1] = e
  BY AppendFacts
<1>2. Append(c, e)[1].at = "code"
  <2>1. CASE c = <<>>
    <3>1. Len(c) = 0
      BY <2>1
    <3> QED
      BY <1>1, <2>1, <3>1
  <2>2. CASE c # <<>>
    <3>1. 1 \in 1..Len(c)
      BY <1>1, <2>2, EmptySeq
    <3> QED
      BY <1>1, <2>2, <3>1 DEF Linked
  <2> QED
    BY <2>1, <2>2
<1>3. ASSUME NEW n \in 1..Len(Append(c, e)), n + 1 <= Len(Append(c, e))
      PROVE  Leads(Append(c, e)[n], Append(c, e)[n + 1])
  <2>1. n \in 1..Len(c)
    BY <1>1, <1>3
  <2>2. CASE n = Len(c)
    <3>1. c # <<>>
      BY <2>1, EmptySeq
    <3> QED
      BY <1>1, <2>1, <2>2, <3>1 DEF Last
  <2>3. CASE n # Len(c)
    <3>1. n + 1 \in 1..Len(c) /\ n + 1 <= Len(c)
      BY <1>1, <2>1, <2>3
    <3> QED
      BY <1>1, <2>1, <3>1 DEF Linked
  <2> QED
    BY <2>2, <2>3
<1> QED
  BY <1>2, <1>3 DEF Linked

LEMMA LinkedSwap ==
    ASSUME NEW c \in Seq(Links), c # <<>>, Linked(c),
           NEW e \in Links, e.at = Last(c).at, e.func = Last(c).func
    PROVE  Linked(Append(Front(c), e))
<1>1. /\ Front(c) \in Seq(Links) /\ Len(Front(c)) = Len(c) - 1 /\ Len(c) \in Nat \ {0}
      /\ \A n \in 1..(Len(c) - 1) : Front(c)[n] = c[n]
      /\ Last(c) = c[Len(c)]
  BY FrontFacts
<1>2. CASE Front(c) = <<>>
  <2>1. Len(Front(c)) = 0
    BY <1>2
  <2>2. Len(c) = 1
    BY <1>1, <2>1
  <2>3. e.at = "code"
    BY <1>1, <2>2 DEF Linked
  <2> QED
    BY <1>1, <1>2, <2>3, LinkedFront, LinkedAppend
<1>3. CASE Front(c) # <<>>
  <2>1. Len(Front(c)) # 0
    BY <1>1, <1>3, EmptySeq
  <2>2. Len(c) - 1 \in 1..Len(c) /\ Len(c) - 1 + 1 = Len(c) /\ Len(c) - 1 \in 1..(Len(c) - 1)
    BY <1>1, <2>1
  <2>3. Leads(c[Len(c) - 1], c[Len(c)])
    BY <1>1, <2>2 DEF Linked
  <2>4. Leads(Last(Front(c)), e)
    BY <1>1, <2>2, <2>3 DEF Leads, Last
  <2> QED
    BY <1>1, <1>3, <2>4, LinkedFront, LinkedAppend
<1> QED
  BY <1>2, <1>3

LEMMA LinkKinds ==
    ASSUME NEW a \in Links
    PROVE  /\ a.func \in Func /\ a.at \in {"code", "unwinding"}
           /\ a.at = "code" => a \in Place /\ a.pos \in Nat \ {0}
           /\ a.at = "unwinding" => a \in Sections /\ a.next \in Nat \ {0}
  BY DEF Links, Place, Sections

LEMMA NewLinks ==
    ASSUME NEW f \in Func, NEW k \in Nat \ {0}
    PROVE  /\ At(f, k) \in Links /\ At(f, k) \in Place /\ At(f, k).at = "code" /\ At(f, k).func = f
           /\ Section(f, k) \in Links /\ Section(f, k).at = "unwinding" /\ Section(f, k).func = f
  BY DEF At, Section, Links, Place, Sections

LEMMA WithAboveFacts ==
    ASSUME NEW s \in Seq(Words), s # <<>>, NEW n \in Nat
    PROVE  /\ WithAbove(s, n) \in Seq(Words) /\ WithAbove(s, n) # <<>>
           /\ Len(WithAbove(s, n)) = Len(s) /\ Len(s) \in Nat \ {0}
           /\ \A i \in 1..Len(s) : /\ WithAbove(s, n)[i].ret = s[i].ret
                                   /\ i # Len(s) => WithAbove(s, n)[i] = s[i]
           /\ WithAbove(s, n)[Len(s)].above = n
           /\ Above(s) \in Nat /\ s[Len(s)] \in Words
<1>1. Len(s) \in Nat \ {0}
  BY EmptySeq
<1>2. Len(s) \in 1..Len(s) /\ s[Len(s)] \in Words
  BY <1>1, ElementOfSeq
<1> DEFINE e == [s[Len(s)] EXCEPT !.above = n]
<1>3. e \in Words /\ e.ret = s[Len(s)].ret /\ e.above = n
  BY <1>2 DEF Words
<1>4. WithAbove(s, n) = [s EXCEPT ![Len(s)] = e]
  BY DEF WithAbove
<1> HIDE DEF e
<1>5. /\ WithAbove(s, n) \in Seq(Words) /\ Len(WithAbove(s, n)) = Len(s)
      /\ \A j \in 1..Len(s) : WithAbove(s, n)[j] = IF j = Len(s) THEN e ELSE s[j]
  BY <1>2, <1>3, <1>4, ExceptSeq
<1>6. WithAbove(s, n) # <<>>
  BY <1>1, <1>5, EmptySeq
<1>7. Above(s) \in Nat
  BY <1>2 DEF Above, Last, Words
<1> QED
  BY <1>1, <1>2, <1>3, <1>5, <1>6, <1>7

Extends(t, s, w, f) ==
  /\ t \in Seq(Words) /\ t # <<>> /\ Len(t) = Len(s) + 1 /\ Len(s) \in Nat
  /\ \A n \in 1..Len(s) : t[n] = s[n]
  /\ t[Len(s) + 1].ret = w /\ t[Len(s) + 1].above = FrameSize[f]

LEMMA EnteredFacts ==
    ASSUME NEW s \in Seq(Words), NEW w \in Links \cup {Outside}, NEW f \in Func,
           FrameSize \in [Func -> Nat]
    PROVE  Extends(Entered(s, w, f), s, w, f)
<1>1. [ret |-> w, above |-> FrameSize[f]] \in Words
  BY DEF Words
<1> QED
  BY <1>1, AppendFacts DEF Entered, Extends

-----------------------------------------------------------------------------
(* Steps, on a stack whose chain is linked and whose heights are right.    *)

Fits(s, c) == \A n \in 1..Len(s) : s[n].above = Height(c, n)

Good(s, p, r) == Proper(s, p, r) /\ Linked(ChainOf(s, p, r)) /\ Fits(s, ChainOf(s, p, r))

\* The call (t, q, r2) is (s, p, r) with k more return addresses, and q above its chain.
Grows(t, q, r2, s, p, r, k) ==
  /\ Good(t, q, r2) /\ Len(t) = Len(s) + k
  /\ ChainOf(t, q, r2) = Append(ChainOf(s, p, r), q)

\* It has k less, and q in the place of the last two of its chain.
Shrinks(t, q, r2, s, p, r, k) ==
  /\ Good(t, q, r2) /\ Len(t) = Len(s) - k
  /\ ChainOf(t, q, r2) = Append(Front(Front(ChainOf(s, p, r))), q)

LEMMA HeightSame ==
    ASSUME NEW c, NEW d, NEW n, c[n] = d[n], n < Len(c) <=> n < Len(d)
    PROVE  Height(c, n) = Height(d, n)
  BY DEF Height

\* A place in a function: what is on top is its frame.
LEMMA TopInCode ==
    ASSUME NEW s, NEW p, NEW r, Good(s, p, r), p.at = "code"
    PROVE  /\ Above(s) = FrameSize[p.func]
           /\ Last(ChainOf(s, p, r)) = p
<1>1. /\ Len(ChainOf(s, p, r)) = Len(s) /\ Len(s) \in Nat \ {0}
      /\ ChainOf(s, p, r)[Len(s)] = p
  BY ChainFacts DEF Good, Length
<1>2. Len(s) \in 1..Len(s) /\ ~(Len(s) < Len(s))
  BY <1>1
<1>3. s[Len(s)].above = Height(ChainOf(s, p, r), Len(s))
  BY <1>2 DEF Good, Fits
<1>4. Height(ChainOf(s, p, r), Len(s)) = FrameSize[p.func] + 0
  BY <1>1, <1>2 DEF Height
<1>5. p.func \in Func
  BY LinkKinds DEF Good, Proper
<1>6. FrameSize[p.func] + 0 = FrameSize[p.func]
  BY <1>5, ProgramAssumption
<1>7. Above(s) = s[Len(s)].above /\ Last(ChainOf(s, p, r)) = p
  BY <1>1 DEF Above, Last
<1> QED
  BY <1>3, <1>4, <1>6, <1>7

\* An unwinding is above the place its function panicked at.
LEMMA TopUnwinding ==
    ASSUME NEW s, NEW p, NEW r, Good(s, p, r), p.at = "unwinding"
    PROVE  /\ Last(ChainOf(s, p, r)) = p
           /\ Len(ChainOf(s, p, r)) = Len(s) + 1 /\ Len(s) \in Nat \ {0}
           /\ ChainOf(s, p, r)[Len(s)] = r
           /\ r \in Place /\ Panicking(r) /\ p.func = r.func
           /\ Above(s) = FrameSize[r.func] + Pushed(r)
<1>0. Proper(s, p, r) /\ Length(s, p) = Len(s) + 1
  BY DEF Good, Length
<1>1. /\ Len(ChainOf(s, p, r)) = Len(s) + 1 /\ Len(s) \in Nat \ {0}
      /\ \A n \in 1..(Len(s) + 1) :
           ChainOf(s, p, r)[n] = IF n < Len(s) THEN s[n + 1].ret ELSE IF n = Len(s) THEN r ELSE p
  BY <1>0, ChainFacts
<1>2. /\ Len(s) \in 1..(Len(s) + 1) /\ Len(s) + 1 \in 1..(Len(s) + 1) /\ Len(s) \in 1..Len(s)
      /\ ~(Len(s) < Len(s)) /\ ~(Len(s) + 1 < Len(s)) /\ Len(s) + 1 # Len(s)
      /\ Len(s) < Len(s) + 1 /\ Len(s) + 1 <= Len(s) + 1
  BY <1>1
<1>3. ChainOf(s, p, r)[Len(s)] = r /\ ChainOf(s, p, r)[Len(s) + 1] = p
  BY <1>1, <1>2
<1>4. Leads(r, p)
  BY <1>1, <1>2, <1>3 DEF Good, Linked
<1>5. r \in Place /\ r.at = "code"
  BY DEF Good, Proper, Place
<1>6. Panicking(r) /\ p.func = r.func
  BY <1>4, <1>5 DEF Leads
<1>7. s[Len(s)].above = Height(ChainOf(s, p, r), Len(s))
  BY <1>2 DEF Good, Fits
<1>8. Height(ChainOf(s, p, r), Len(s)) = FrameSize[r.func] + Pushed(r)
  BY <1>1, <1>2, <1>3, <1>5 DEF Height
<1> QED
  BY <1>1, <1>3, <1>5, <1>6, <1>7, <1>8 DEF Above, Last

\* A chain read off a new stack.
LEMMA Becomes ==
    ASSUME NEW s, NEW p, NEW r, NEW d \in Seq(Links),
           Proper(s, p, r), Len(d) = Length(s, p), Linked(d), Fits(s, d),
           \A n \in 1..Length(s, p) : d[n] = IF n < Len(s) THEN s[n + 1].ret
                                            ELSE IF n = Len(s) /\ p.at = "unwinding" THEN r
                                            ELSE p
    PROVE  Good(s, p, r) /\ ChainOf(s, p, r) = d
<1>1. ChainOf(s, p, r) = d
  BY ChainFacts, SameChain
<1> QED
  BY <1>1 DEF Good

LEMMA FirstStep ==
    ASSUME NEW f \in Func, NEW r
    PROVE  /\ Good(Entered(<<>>, Outside, f), At(f, 1), r)
           /\ ChainOf(Entered(<<>>, Outside, f), At(f, 1), r) = <<At(f, 1)>>
<1> DEFINE s == Entered(<<>>, Outside, f)
           p == At(f, 1)
<1>1. p \in Links /\ p.at = "code" /\ p.func = f
  BY NewLinks
<1>2. /\ s \in Seq(Words) /\ s # <<>> /\ Len(s) = 1
      /\ s[1].ret = Outside /\ s[1].above = FrameSize[f]
  <2>1. <<>> \in Seq(Words) /\ Len(<<>>) = 0 /\ Outside \in Links \cup {Outside}
    BY EmptySeq
  <2>2. FrameSize \in [Func -> Nat]
    BY ProgramAssumption
  <2>3. /\ s \in Seq(Words) /\ s # <<>> /\ Len(s) = Len(<<>>) + 1
        /\ s[Len(<<>>) + 1].ret = Outside /\ s[Len(<<>>) + 1].above = FrameSize[f]
    <3>1. Extends(s, <<>>, Outside, f)
      BY <2>1, <2>2, EnteredFacts
    <3> QED
      BY <3>1 DEF Extends
  <2>4. Len(<<>>) + 1 = 1
    BY <2>1
  <2> QED
    BY <2>3, <2>4
<1> HIDE DEF s, p
<1>3. Proper(s, p, r)
  BY <1>1, <1>2 DEF Proper
<1>4. <<p>> \in Seq(Links) /\ Len(<<p>>) = 1 /\ <<p>>[1] = p
  BY <1>1
<1>5. Linked(<<p>>)
  BY <1>1, <1>4 DEF Linked
<1>6. FrameSize[f] + 0 = FrameSize[f]
  BY ProgramAssumption
<1>7. Height(<<p>>, 1) = FrameSize[f]
  BY <1>1, <1>4, <1>6 DEF Height
<1>8. Fits(s, <<p>>)
  BY <1>2, <1>7 DEF Fits
<1>9. /\ Length(s, p) = 1
      /\ \A n \in 1..1 : ~(n < 1) /\ n = 1
  BY <1>1, <1>2 DEF Length
<1> QED
  BY <1>1, <1>2, <1>3, <1>4, <1>5, <1>8, <1>9, Becomes DEF s, p

\* Control moves within its function, or its unwinding.
LEMMA MoveStep ==
    ASSUME NEW s, NEW p, NEW r, Good(s, p, r), NEW q \in Links, NEW r2,
           q.at = p.at, q.func = p.func, p.at = "unwinding" => r2 = r
    PROVE  Good(s, q, r2) /\ ChainOf(s, q, r2) = Append(Front(ChainOf(s, p, r)), q)
<1> DEFINE c == ChainOf(s, p, r)
           d == Append(Front(c), q)
<1>1. /\ c \in Seq(Links) /\ c # <<>> /\ Len(c) = Length(s, p) /\ Len(s) \in Nat \ {0}
      /\ \A n \in 1..Length(s, p) :
           c[n] = IF n < Len(s) THEN s[n + 1].ret ELSE IF n = Len(s) /\ p.at = "unwinding" THEN r ELSE p
  BY ChainFacts DEF Good
<1>2. Linked(c) /\ Fits(s, c) /\ Proper(s, p, r)
  BY DEF Good
<1> HIDE DEF c, d
<1>3. /\ Front(c) \in Seq(Links) /\ Len(Front(c)) = Len(c) - 1 /\ Len(c) \in Nat \ {0}
      /\ \A n \in 1..(Len(c) - 1) : Front(c)[n] = c[n]
      /\ Last(c) = c[Len(c)]
  BY <1>1, FrontFacts
<1>4. /\ d \in Seq(Links) /\ Len(d) = Len(Front(c)) + 1
      /\ \A n \in 1..Len(Front(c)) : d[n] = Front(c)[n]
      /\ d[Len(Front(c)) + 1] = q
  BY <1>3, AppendFacts DEF d
<1>5. /\ Len(d) = Len(c)
      /\ \A n \in 1..Len(c) : IF n = Len(c) THEN d[n] = q ELSE d[n] = c[n]
  BY <1>3, <1>4
<1>6. Length(s, q) = Length(s, p) /\ Length(s, p) \in {Len(s), Len(s) + 1}
      /\ (p.at = "unwinding" <=> Length(s, p) = Len(s) + 1)
  BY <1>1 DEF Length
<1>7. c[Len(c)] = p
  BY <1>1, <1>3, <1>6
<1>8. Linked(d)
  BY <1>1, <1>2, <1>3, <1>7, LinkedSwap DEF d
<1>9. Fits(s, d)
  <2> SUFFICES ASSUME NEW n \in 1..Len(s) PROVE s[n].above = Height(d, n)
    BY DEF Fits
  <2>1. n \in 1..Len(c)
    BY <1>1, <1>6
  <2>2. s[n].above = Height(c, n)
    BY <1>2 DEF Fits
  <2>3. CASE n = Len(c)
    <3>1. ~(n < Len(c)) /\ ~(n < Len(d)) /\ d[n] = q /\ c[n] = p
      BY <1>1, <1>3, <1>5, <1>7, <2>1, <2>3
    <3> QED
      BY <2>2, <3>1 DEF Height
  <2>4. CASE n # Len(c)
    BY <1>5, <2>1, <2>2, <2>4, HeightSame
  <2> QED
    BY <2>3, <2>4
<1>10. Proper(s, q, r2)
  BY <1>2 DEF Proper
<1>11. \A n \in 1..Length(s, q) : d[n] = IF n < Len(s) THEN s[n + 1].ret
                                       ELSE IF n = Len(s) /\ q.at = "unwinding" THEN r2
                                       ELSE q
  <2> SUFFICES ASSUME NEW n \in 1..Length(s, q)
               PROVE  d[n] = IF n < Len(s) THEN s[n + 1].ret
                             ELSE IF n = Len(s) /\ q.at = "unwinding" THEN r2
                             ELSE q
    OBVIOUS
  <2>1. CASE n = Len(c)
    <3>1. d[n] = q /\ ~(n < Len(s)) /\ (n = Len(s) => q.at # "unwinding")
      BY <1>1, <1>5, <1>6, <2>1
    <3> QED
      BY <3>1
  <2>2. CASE n # Len(c)
    <3>1. n < Len(c) /\ d[n] = c[n]
      BY <1>1, <1>3, <1>5, <1>6, <2>2
    <3>2. c[n] = IF n < Len(s) THEN s[n + 1].ret ELSE IF n = Len(s) /\ p.at = "unwinding" THEN r ELSE p
      BY <1>1, <1>6
    <3>3. n < Len(s) \/ (n = Len(s) /\ p.at = "unwinding")
      BY <1>1, <1>6, <3>1
    <3> QED
      BY <3>1, <3>2, <3>3
  <2> QED
    BY <2>1, <2>2
<1>12. Good(s, q, r2) /\ ChainOf(s, q, r2) = d
  BY <1>1, <1>4, <1>5, <1>6, <1>8, <1>9, <1>10, <1>11, Becomes
<1> QED
  BY <1>12 DEF c, d

LEMMA EnterStep ==
    ASSUME NEW s, NEW p, NEW r, Good(s, p, r), p.at = "code", Calls(p), Pushed(p) \in Nat,
           NEW g \in Func, StepAt(p).func = g, NEW r2
    PROVE  Grows(Entered(WithAbove(s, Above(s) + Pushed(p)), p, g), At(g, 1), r2, s, p, r, 1)
<1> DEFINE c == ChainOf(s, p, r)
           q == At(g, 1)
           d == Append(c, q)
           s1 == WithAbove(s, Above(s) + Pushed(p))
           s2 == Entered(s1, p, g)
<1>1. /\ c \in Seq(Links) /\ c # <<>> /\ Len(c) = Len(s) /\ Len(s) \in Nat \ {0}
      /\ \A n \in 1..Len(s) : c[n] = IF n < Len(s) THEN s[n + 1].ret ELSE p
  BY ChainFacts DEF Good, Length
<1>2. Linked(c) /\ Fits(s, c) /\ Proper(s, p, r) /\ s \in Seq(Words) /\ s # <<>> /\ p \in Links
  BY DEF Good, Proper
<1>3. Above(s) = FrameSize[p.func] /\ Last(c) = p
  BY TopInCode
<1>4. FrameSize \in [Func -> Nat] /\ p.func \in Func
  BY <1>2, ProgramAssumption, LinkKinds
<1>5. q \in Links /\ q.at = "code" /\ q.func = g
  BY NewLinks
<1>6. Above(s) + Pushed(p) \in Nat
  BY <1>3, <1>4
<1>7. /\ s1 \in Seq(Words) /\ s1 # <<>> /\ Len(s1) = Len(s)
      /\ \A i \in 1..Len(s) : s1[i].ret = s[i].ret /\ (i # Len(s) => s1[i] = s[i])
      /\ s1[Len(s)].above = FrameSize[p.func] + Pushed(p)
  BY <1>2, <1>3, <1>6, WithAboveFacts
<1> HIDE DEF c, q, s1
<1>8. /\ s2 \in Seq(Words) /\ s2 # <<>> /\ Len(s2) = Len(s) + 1
      /\ \A n \in 1..Len(s) : s2[n] = s1[n]
      /\ s2[Len(s) + 1].ret = p /\ s2[Len(s) + 1].above = FrameSize[g]
  <2>1. p \in Links \cup {Outside}
    BY <1>2
  <2>2. /\ s2 \in Seq(Words) /\ s2 # <<>> /\ Len(s2) = Len(s1) + 1
        /\ \A n \in 1..Len(s1) : s2[n] = s1[n]
        /\ s2[Len(s1) + 1].ret = p /\ s2[Len(s1) + 1].above = FrameSize[g]
    <3>1. Extends(s2, s1, p, g)
      BY <1>4, <1>7, <2>1, EnteredFacts
    <3> QED
      BY <3>1 DEF Extends
  <2> HIDE DEF s2
  <2> QED
    BY <1>7, <2>2
<1> HIDE DEF s2
<1>9. /\ d \in Seq(Links) /\ Len(d) = Len(s) + 1
      /\ \A n \in 1..Len(s) : d[n] = c[n]
      /\ d[Len(s) + 1] = q
  BY <1>1, <1>5, AppendFacts
<1>10. Linked(d)
  <2>1. Leads(p, q)
    BY <1>5 DEF Leads
  <2> QED
    BY <1>1, <1>2, <1>3, <1>5, <2>1, LinkedAppend
<1> HIDE DEF d
<1>11. Proper(s2, q, r2)
  <2>1. ASSUME NEW n \in 1..Len(s2) PROVE s2[n].ret = Outside <=> n = 1
    <3>1. CASE n = Len(s) + 1
      BY <1>1, <1>2, <1>8, <3>1, LinkKinds DEF Outside
    <3>2. CASE n # Len(s) + 1
      <4>1. n \in 1..Len(s)
        BY <1>1, <1>8, <3>2
      <4> QED
        BY <1>2, <1>7, <1>8, <4>1 DEF Proper
    <3> QED
      BY <3>1, <3>2
  <2> QED
    BY <1>5, <1>8, <2>1 DEF Proper
<1>12. \A n \in 1..Len(s2) : d[n] = IF n < Len(s2) THEN s2[n + 1].ret ELSE q
  <2> SUFFICES ASSUME NEW n \in 1..Len(s2) PROVE d[n] = IF n < Len(s2) THEN s2[n + 1].ret ELSE q
    OBVIOUS
  <2>1. CASE n = Len(s) + 1
    BY <1>1, <1>8, <1>9, <2>1
  <2>2. CASE n = Len(s)
    <3>1. d[n] = p
      BY <1>1, <1>9, <2>2
    <3> QED
      BY <1>1, <1>8, <2>2, <3>1
  <2>3. CASE n < Len(s)
    <3>1. n \in 1..Len(s) /\ n + 1 \in 1..Len(s)
      BY <1>1, <1>8, <2>3
    <3>2. d[n] = s[n + 1].ret /\ s2[n + 1].ret = s[n + 1].ret
      BY <1>1, <1>7, <1>8, <1>9, <2>3, <3>1
    <3> QED
      BY <1>1, <1>8, <2>3, <3>2
  <2> QED
    BY <1>1, <1>8, <2>1, <2>2, <2>3
<1>13. Fits(s2, d)
  <2> SUFFICES ASSUME NEW n \in 1..Len(s2) PROVE s2[n].above = Height(d, n)
    BY DEF Fits
  <2>1. CASE n = Len(s) + 1
    <3>1. Height(d, n) = FrameSize[g] + 0
      BY <1>1, <1>5, <1>9, <2>1 DEF Height
    <3> QED
      BY <1>4, <1>8, <2>1, <3>1
  <2>2. CASE n = Len(s)
    <3>1. d[n] = p /\ n < Len(d)
      BY <1>1, <1>9, <2>2
    <3>2. Height(d, n) = FrameSize[p.func] + Pushed(p)
      BY <3>1 DEF Height
    <3> QED
      BY <1>1, <1>7, <1>8, <2>2, <3>2
  <2>3. CASE n < Len(s)
    <3>1. n \in 1..Len(s) /\ n # Len(s) /\ n < Len(c) /\ n < Len(d)
      BY <1>1, <1>8, <1>9, <2>3
    <3>2. s2[n].above = Height(c, n)
      BY <1>2, <1>7, <1>8, <3>1 DEF Fits
    <3> QED
      BY <1>9, <3>1, <3>2, HeightSame
  <2> QED
    BY <1>1, <1>8, <2>1, <2>2, <2>3
<1>14. Length(s2, q) = Len(s2)
  BY <1>5 DEF Length
<1>15. Good(s2, q, r2) /\ ChainOf(s2, q, r2) = d
  BY <1>5, <1>8, <1>9, <1>10, <1>11, <1>12, <1>13, <1>14, Becomes
<1> QED
  BY <1>8, <1>15 DEF Grows, c, d, q, s1, s2

\* A panic: the unwinding of the function is above the place it is at.
LEMMA PanicStep ==
    ASSUME NEW s, NEW p, NEW r, Good(s, p, r), p.at = "code", Panicking(p), Pushed(p) = 0
    PROVE  /\ Good(s, Section(p.func, 1), p)
           /\ ChainOf(s, Section(p.func, 1), p) = Append(ChainOf(s, p, r), Section(p.func, 1))
<1> DEFINE c == ChainOf(s, p, r)
           q == Section(p.func, 1)
           d == Append(c, q)
<1>1. /\ c \in Seq(Links) /\ c # <<>> /\ Len(c) = Len(s) /\ Len(s) \in Nat \ {0}
      /\ \A n \in 1..Len(s) : c[n] = IF n < Len(s) THEN s[n + 1].ret ELSE p
  BY ChainFacts DEF Good, Length
<1>2. Linked(c) /\ Fits(s, c) /\ Proper(s, p, r) /\ p \in Links
  BY DEF Good, Proper
<1>3. Last(c) = p
  BY TopInCode
<1>4. p \in Place /\ p.func \in Func
  BY <1>2, LinkKinds
<1>5. q \in Links /\ q.at = "unwinding" /\ q.func = p.func
  BY <1>4, NewLinks
<1> HIDE DEF c, q
<1>6. /\ d \in Seq(Links) /\ Len(d) = Len(s) + 1
      /\ \A n \in 1..Len(s) : d[n] = c[n]
      /\ d[Len(s) + 1] = q
  BY <1>1, <1>5, AppendFacts
<1>7. Linked(d)
  <2>1. Leads(p, q)
    BY <1>5 DEF Leads
  <2> QED
    BY <1>1, <1>2, <1>3, <1>5, <2>1, LinkedAppend
<1> HIDE DEF d
<1>8. Proper(s, q, p)
  BY <1>2, <1>4, <1>5 DEF Proper
<1>9. \A n \in 1..(Len(s) + 1) : d[n] = IF n < Len(s) THEN s[n + 1].ret ELSE IF n = Len(s) THEN p ELSE q
  <2> SUFFICES ASSUME NEW n \in 1..(Len(s) + 1)
               PROVE  d[n] = IF n < Len(s) THEN s[n + 1].ret ELSE IF n = Len(s) THEN p ELSE q
    OBVIOUS
  <2>1. CASE n = Len(s) + 1
    BY <1>1, <1>6, <2>1
  <2>2. CASE n # Len(s) + 1
    <3>1. n \in 1..Len(s)
      BY <1>1, <2>2
    <3>2. d[n] = IF n < Len(s) THEN s[n + 1].ret ELSE p
      BY <1>1, <1>6, <3>1
    <3> QED
      BY <1>1, <3>1, <3>2
  <2> QED
    BY <2>1, <2>2
<1>10. Fits(s, d)
  <2> SUFFICES ASSUME NEW n \in 1..Len(s) PROVE s[n].above = Height(d, n)
    BY DEF Fits
  <2>0. s[n].above = Height(c, n)
    BY <1>2 DEF Fits
  <2>1. CASE n = Len(s)
    <3>1. d[n] = p /\ c[n] = p /\ ~(n < Len(c)) /\ n < Len(d)
      BY <1>1, <1>6, <2>1
    <3>2. Height(c, n) = FrameSize[p.func] + 0 /\ Height(d, n) = FrameSize[p.func] + 0
      BY <3>1 DEF Height
    <3> QED
      BY <2>0, <3>2
  <2>2. CASE n # Len(s)
    <3>1. n < Len(c) /\ n < Len(d)
      BY <1>1, <1>6, <2>2
    <3> QED
      BY <1>6, <2>0, <3>1, HeightSame
  <2> QED
    BY <2>1, <2>2
<1>11. Length(s, q) = Len(s) + 1
  BY <1>5 DEF Length
<1>12. Good(s, q, p) /\ ChainOf(s, q, p) = d
  BY <1>5, <1>6, <1>7, <1>8, <1>9, <1>10, <1>11, Becomes
<1> QED
  BY <1>12 DEF c, d, q

\* Unwinding calls the destructor of a variable: E and the address are pushed.
LEMMA DestroyStep ==
    ASSUME NEW s, NEW p, NEW r, Good(s, p, r), p.at = "unwinding",
           NEW g \in Func, Destructor(p, g), NEW r2
    PROVE  Grows(Entered(Append(s, [ret |-> r, above |-> 0]), p, g), At(g, 1), r2, s, p, r, 2)
<1> DEFINE c == ChainOf(s, p, r)
           q == At(g, 1)
           d == Append(c, q)
           s1 == Append(s, [ret |-> r, above |-> 0])
           s2 == Entered(s1, p, g)
<1>1. /\ c \in Seq(Links) /\ c # <<>> /\ Len(c) = Len(s) + 1 /\ Len(s) \in Nat \ {0}
      /\ \A n \in 1..(Len(s) + 1) : c[n] = IF n < Len(s) THEN s[n + 1].ret ELSE IF n = Len(s) THEN r ELSE p
  BY ChainFacts DEF Good, Length
<1>2. Linked(c) /\ Fits(s, c) /\ Proper(s, p, r) /\ s \in Seq(Words) /\ s # <<>> /\ p \in Links /\ r \in Place
  BY DEF Good, Proper
<1>3. Last(c) = p
  BY TopUnwinding
<1>4. FrameSize \in [Func -> Nat] /\ p.func \in Func
  BY <1>2, ProgramAssumption, LinkKinds
<1>5. q \in Links /\ q.at = "code" /\ q.func = g
  BY NewLinks
<1>6. /\ s1 \in Seq(Words) /\ Len(s1) = Len(s) + 1
      /\ \A i \in 1..Len(s) : s1[i] = s[i]
      /\ s1[Len(s) + 1].ret = r /\ s1[Len(s) + 1].above = 0
  <2>1. [ret |-> r, above |-> 0] \in Words
    BY <1>2 DEF Words, Links
  <2> QED
    BY <1>2, <2>1, AppendFacts
<1> HIDE DEF c, q, s1
<1>7. Extends(s2, s1, p, g)
  <2>1. p \in Links \cup {Outside}
    BY <1>2
  <2> QED
    BY <1>4, <1>6, <2>1, EnteredFacts
<1> HIDE DEF s2
<1>8. /\ s2 \in Seq(Words) /\ s2 # <<>> /\ Len(s2) = Len(s) + 2
      /\ \A n \in 1..Len(s) : s2[n] = s[n]
      /\ s2[Len(s) + 1].ret = r /\ s2[Len(s) + 1].above = 0
      /\ s2[Len(s) + 2].ret = p /\ s2[Len(s) + 2].above = FrameSize[g]
  <2>1. /\ s2 \in Seq(Words) /\ s2 # <<>> /\ Len(s2) = Len(s) + 1 + 1
        /\ \A n \in 1..(Len(s) + 1) : s2[n] = s1[n]
        /\ s2[Len(s) + 1 + 1].ret = p /\ s2[Len(s) + 1 + 1].above = FrameSize[g]
    BY <1>6, <1>7 DEF Extends
  <2>2. Len(s) + 1 + 1 = Len(s) + 2 /\ Len(s) + 1 \in 1..(Len(s) + 1)
        /\ \A n \in 1..Len(s) : n \in 1..(Len(s) + 1)
    BY <1>1
  <2> QED
    BY <1>6, <2>1, <2>2
<1>9. /\ d \in Seq(Links) /\ Len(d) = Len(s) + 2
      /\ \A n \in 1..(Len(s) + 1) : d[n] = c[n]
      /\ d[Len(s) + 2] = q
  <2>1. /\ d \in Seq(Links) /\ Len(d) = Len(s) + 1 + 1
        /\ \A n \in 1..(Len(s) + 1) : d[n] = c[n]
        /\ d[Len(s) + 1 + 1] = q
    BY <1>1, <1>5, AppendFacts
  <2>2. Len(s) + 1 + 1 = Len(s) + 2
    BY <1>1
  <2> QED
    BY <2>1, <2>2
<1>10. Linked(d)
  <2>1. Leads(p, q)
    BY <1>5 DEF Leads
  <2> QED
    BY <1>1, <1>2, <1>3, <1>5, <2>1, LinkedAppend
<1> HIDE DEF d
<1>11. Proper(s2, q, r2)
  <2>1. ASSUME NEW n \in 1..Len(s2) PROVE s2[n].ret = Outside <=> n = 1
    <3>1. CASE n = Len(s) + 2
      BY <1>1, <1>2, <1>8, <3>1, LinkKinds DEF Outside
    <3>2. CASE n = Len(s) + 1
      <4>1. r # Outside
        BY <1>2 DEF Place, Outside
      <4> QED
        BY <1>1, <1>8, <3>2, <4>1
    <3>3. CASE n \in 1..Len(s)
      BY <1>2, <1>8, <3>3 DEF Proper
    <3>4. n = Len(s) + 2 \/ n = Len(s) + 1 \/ n \in 1..Len(s)
      BY <1>1, <1>8
    <3> QED
      BY <3>1, <3>2, <3>3, <3>4
  <2> QED
    BY <1>5, <1>8, <2>1 DEF Proper
<1>12. \A n \in 1..Len(s2) : d[n] = IF n < Len(s2) THEN s2[n + 1].ret ELSE q
  <2> SUFFICES ASSUME NEW n \in 1..Len(s2) PROVE d[n] = IF n < Len(s2) THEN s2[n + 1].ret ELSE q
    OBVIOUS
  <2>1. CASE n = Len(s) + 2
    BY <1>1, <1>8, <1>9, <2>1
  <2>2. CASE n = Len(s) + 1
    <3>1. d[n] = p /\ n + 1 = Len(s) + 2 /\ n < Len(s2)
      BY <1>1, <1>8, <1>9, <2>2
    <3> QED
      BY <1>8, <3>1
  <2>3. CASE n = Len(s)
    <3>1. d[n] = r /\ n + 1 = Len(s) + 1 /\ n < Len(s2)
      BY <1>1, <1>8, <1>9, <2>3
    <3> QED
      BY <1>8, <3>1
  <2>4. CASE n < Len(s)
    <3>1. n \in 1..(Len(s) + 1) /\ n + 1 \in 1..Len(s) /\ n < Len(s2)
      BY <1>1, <1>8, <2>4
    <3>2. d[n] = s[n + 1].ret /\ s2[n + 1].ret = s[n + 1].ret
      BY <1>1, <1>8, <1>9, <2>4, <3>1
    <3> QED
      BY <3>1, <3>2
  <2> QED
    BY <1>1, <1>8, <2>1, <2>2, <2>3, <2>4
<1>13. Fits(s2, d)
  <2> SUFFICES ASSUME NEW n \in 1..Len(s2) PROVE s2[n].above = Height(d, n)
    BY DEF Fits
  <2>1. CASE n = Len(s) + 2
    <3>1. Height(d, n) = FrameSize[g] + 0
      BY <1>1, <1>5, <1>9, <2>1 DEF Height
    <3> QED
      BY <1>4, <1>8, <2>1, <3>1
  <2>2. CASE n = Len(s) + 1
    <3>1. d[n] = p
      BY <1>1, <1>9, <2>2
    <3> QED
      BY <1>8, <2>2, <3>1 DEF Height
  <2>3. CASE n \in 1..Len(s)
    <3>1. n \in 1..(Len(s) + 1) /\ n < Len(c) /\ n < Len(d)
      BY <1>1, <1>9, <2>3
    <3>2. s2[n].above = Height(c, n)
      BY <1>2, <1>8, <2>3 DEF Fits
    <3> QED
      BY <1>9, <3>1, <3>2, HeightSame
  <2>4. n = Len(s) + 2 \/ n = Len(s) + 1 \/ n \in 1..Len(s)
    BY <1>1, <1>8
  <2> QED
    BY <2>1, <2>2, <2>3, <2>4
<1>14. Length(s2, q) = Len(s2)
  BY <1>5 DEF Length
<1>15. Good(s2, q, r2) /\ ChainOf(s2, q, r2) = d
  BY <1>5, <1>8, <1>9, <1>10, <1>11, <1>12, <1>13, <1>14, Becomes
<1> QED
  BY <1>8, <1>15 DEF Grows, c, d, q, s1, s2

\* The chain without its last two, and something in their place.
LEMMA ShortFacts ==
    ASSUME NEW c \in Seq(Links), Len(c) >= 2, NEW q \in Links
    PROVE  /\ Append(Front(Front(c)), q) \in Seq(Links)
           /\ Len(Append(Front(Front(c)), q)) = Len(c) - 1
           /\ \A n \in 1..(Len(c) - 2) : Append(Front(Front(c)), q)[n] = c[n]
           /\ Append(Front(Front(c)), q)[Len(c) - 1] = q
           /\ c # <<>> /\ Front(c) # <<>> /\ Last(Front(c)) = c[Len(c) - 1]
           /\ Front(Front(c)) \in Seq(Links) /\ Len(Front(Front(c))) = Len(c) - 2
           /\ \A n \in 1..(Len(c) - 2) : Front(Front(c))[n] = c[n]
<1>1. Len(c) \in Nat /\ c # <<>>
  BY LenProperties, EmptySeq
<1>2. /\ Front(c) \in Seq(Links) /\ Len(Front(c)) = Len(c) - 1
      /\ \A n \in 1..(Len(c) - 1) : Front(c)[n] = c[n]
  BY <1>1, FrontFacts
<1>3. Front(c) # <<>>
  <2>1. Len(Front(c)) # 0
    BY <1>1, <1>2
  <2> QED
    BY <2>1
<1> DEFINE b == Front(c)
<1> HIDE DEF b
<1>4. /\ Front(b) \in Seq(Links) /\ Len(Front(b)) = Len(b) - 1
      /\ \A n \in 1..(Len(b) - 1) : Front(b)[n] = b[n]
      /\ Last(b) = b[Len(b)]
  BY <1>2, <1>3, FrontFacts DEF b
<1>5. b \in Seq(Links) /\ b # <<>> /\ Len(b) = Len(c) - 1 /\ \A n \in 1..(Len(c) - 1) : b[n] = c[n]
  BY <1>2, <1>3 DEF b
<1>6. /\ Len(Front(b)) = Len(c) - 2 /\ \A n \in 1..(Len(c) - 2) : Front(b)[n] = c[n]
      /\ Last(b) = c[Len(c) - 1]
  BY <1>1, <1>4, <1>5
<1>7. /\ Append(Front(b), q) \in Seq(Links) /\ Len(Append(Front(b), q)) = Len(Front(b)) + 1
      /\ \A n \in 1..Len(Front(b)) : Append(Front(b), q)[n] = Front(b)[n]
      /\ Append(Front(b), q)[Len(Front(b)) + 1] = q
  BY <1>4, AppendFacts
<1>8. Len(c) - 2 + 1 = Len(c) - 1
  BY <1>1
<1>9. /\ Append(Front(b), q) \in Seq(Links) /\ Len(Append(Front(b), q)) = Len(c) - 1
      /\ \A n \in 1..(Len(c) - 2) : Append(Front(b), q)[n] = c[n]
      /\ Append(Front(b), q)[Len(c) - 1] = q
  BY <1>6, <1>7, <1>8
<1> QED
  BY <1>1, <1>4, <1>5, <1>6, <1>9 DEF b

\* What is under a place in a function.
LEMMA UnderCode ==
    ASSUME NEW s, NEW p, NEW r, Good(s, p, r), p.at = "code", Last(s).ret # Outside
    PROVE  LET c == ChainOf(s, p, r) w == Last(s).ret
           IN  /\ Len(s) \in Nat /\ Len(s) >= 2 /\ Len(c) = Len(s) /\ w \in Links
               /\ w = c[Len(s) - 1] /\ Leads(w, p) /\ Last(Front(c)) = w
               /\ Above(Front(s)) = Height(c, Len(s) - 1)
               /\ Linked(Front(c)) /\ Front(c) # <<>> /\ Front(c) \in Seq(Links)
<1> DEFINE c == ChainOf(s, p, r)
           w == Last(s).ret
<1>1. /\ c \in Seq(Links) /\ c # <<>> /\ Len(c) = Len(s) /\ Len(s) \in Nat \ {0}
      /\ \A n \in 1..Len(s) : c[n] = IF n < Len(s) THEN s[n + 1].ret ELSE p
  BY ChainFacts DEF Good, Length
<1>2. Linked(c) /\ Fits(s, c) /\ Proper(s, p, r) /\ s \in Seq(Words) /\ s # <<>> /\ p \in Links
  BY DEF Good, Proper
<1>3. w = s[Len(s)].ret
  BY DEF Last
<1>4. Len(s) >= 2
  <2>1. Len(s) \in 1..Len(s)
    BY <1>1
  <2>2. Len(s) # 1
    BY <1>2, <1>3, <2>1 DEF Proper
  <2> QED
    BY <1>1, <2>2
<1>5. /\ Len(s) - 1 \in 1..Len(s) /\ Len(s) - 1 < Len(s) /\ Len(s) - 1 + 1 = Len(s) /\ Len(s) \in 1..Len(s)
      /\ ~(Len(s) < Len(s)) /\ Len(s) - 1 \in 1..(Len(s) - 1)
  BY <1>1, <1>4
<1>6. c[Len(s) - 1] = w /\ c[Len(s)] = p
  BY <1>1, <1>3, <1>5
<1> HIDE DEF w
<1>7. w \in Links
  BY <1>1, <1>5, <1>6, ElementOfSeq
<1>8. Leads(w, p)
  BY <1>1, <1>2, <1>5, <1>6 DEF Linked
<1>9. Above(Front(s)) = s[Len(s) - 1].above
  <2>1. /\ Front(s) \in Seq(Words) /\ Len(Front(s)) = Len(s) - 1
        /\ \A n \in 1..(Len(s) - 1) : Front(s)[n] = s[n]
    BY <1>2, FrontFacts
  <2> QED
    BY <1>5, <2>1 DEF Above, Last
<1>10. s[Len(s) - 1].above = Height(c, Len(s) - 1)
  BY <1>2, <1>5 DEF Fits
<1>11. /\ Front(c) # <<>> /\ Front(c) \in Seq(Links) /\ Last(Front(c)) = w
  <2>1. /\ Front(c) \in Seq(Links) /\ Len(Front(c)) = Len(s) - 1
        /\ \A n \in 1..(Len(s) - 1) : Front(c)[n] = c[n]
    BY <1>1, FrontFacts
  <2>2. Front(c) # <<>>
    <3>1. Len(Front(c)) # 0
      BY <1>1, <1>4, <2>1
    <3> QED
      BY <2>1, <3>1, EmptySeq
  <2>3. Last(Front(c)) = w
    BY <1>5, <1>6, <2>1 DEF Last
  <2> QED
    BY <2>1, <2>2, <2>3
<1>12. Linked(Front(c))
  BY <1>1, <1>2, LinkedFront
<1> QED
  BY <1>1, <1>4, <1>6, <1>7, <1>8, <1>9, <1>10, <1>11, <1>12 DEF w

\* A return to the function that called.
LEMMA ReturnStep ==
    ASSUME NEW s, NEW p, NEW r, Good(s, p, r), p.at = "code", Last(s).ret # Outside,
           Last(s).ret.at = "code", Pushed(Last(s).ret) \in Nat, NEW r2
    PROVE  Shrinks(WithAbove(Front(s), Above(Front(s)) - Pushed(Last(s).ret)),
                   At(Last(s).ret.func, Last(s).ret.pos + 1), r2, s, p, r, 1)
<1> DEFINE c == ChainOf(s, p, r)
           w == Last(s).ret
           q == At(w.func, w.pos + 1)
           d == Append(Front(Front(c)), q)
           s2 == WithAbove(Front(s), Above(Front(s)) - Pushed(w))
<1>1. /\ c \in Seq(Links) /\ c # <<>> /\ Len(c) = Len(s) /\ Len(s) \in Nat \ {0}
      /\ \A n \in 1..Len(s) : c[n] = IF n < Len(s) THEN s[n + 1].ret ELSE p
  BY ChainFacts DEF Good, Length
<1>2. Linked(c) /\ Fits(s, c) /\ Proper(s, p, r) /\ s \in Seq(Words) /\ s # <<>>
  BY DEF Good, Proper
<1>3. /\ Len(s) >= 2 /\ w \in Links /\ w = c[Len(s) - 1] /\ Last(Front(c)) = w
      /\ Above(Front(s)) = Height(c, Len(s) - 1)
      /\ Linked(Front(c)) /\ Front(c) # <<>> /\ Front(c) \in Seq(Links)
  BY UnderCode
<1>4. w.func \in Func /\ w.pos \in Nat \ {0} /\ w.at = "code" /\ Pushed(w) \in Nat
  BY <1>3, LinkKinds
<1>5. q \in Links /\ q.at = "code" /\ q.func = w.func
  BY <1>4, NewLinks
<1> HIDE DEF c, w, q
<1>6. /\ d \in Seq(Links) /\ Len(d) = Len(s) - 1
      /\ \A n \in 1..(Len(s) - 2) : d[n] = c[n]
      /\ d[Len(s) - 1] = q
  BY <1>1, <1>3, <1>5, ShortFacts
<1>7. Linked(d)
  BY <1>3, <1>4, <1>5, LinkedSwap
<1> HIDE DEF d
<1>8. Above(Front(s)) - Pushed(w) = FrameSize[w.func]
  <2>1. Len(s) - 1 < Len(c)
    BY <1>1
  <2>2. Above(Front(s)) = FrameSize[w.func] + Pushed(w)
    BY <1>3, <1>4, <2>1 DEF Height
  <2>3. FrameSize[w.func] \in Nat
    BY <1>4, ProgramAssumption
  <2> QED
    BY <1>4, <2>2, <2>3
<1>9. /\ Front(s) \in Seq(Words) /\ Front(s) # <<>> /\ Len(Front(s)) = Len(s) - 1
      /\ \A n \in 1..(Len(s) - 1) : Front(s)[n] = s[n]
  <2>1. /\ Front(s) \in Seq(Words) /\ Len(Front(s)) = Len(s) - 1
        /\ \A n \in 1..(Len(s) - 1) : Front(s)[n] = s[n]
    BY <1>2, FrontFacts
  <2>2. Len(Front(s)) # 0
    BY <1>1, <1>3, <2>1
  <2> QED
    BY <2>1, <2>2
<1>10. /\ s2 \in Seq(Words) /\ s2 # <<>> /\ Len(s2) = Len(s) - 1
       /\ \A n \in 1..(Len(s) - 1) : s2[n].ret = s[n].ret /\ (n # Len(s) - 1 => s2[n] = s[n])
       /\ s2[Len(s) - 1].above = FrameSize[w.func]
  <2>1. FrameSize[w.func] \in Nat
    BY <1>4, ProgramAssumption
  <2>2. s2 = WithAbove(Front(s), FrameSize[w.func])
    BY <1>8
  <2> HIDE DEF s2
  <2>3. /\ s2 \in Seq(Words) /\ s2 # <<>> /\ Len(s2) = Len(Front(s))
        /\ \A i \in 1..Len(Front(s)) : /\ s2[i].ret = Front(s)[i].ret
                                       /\ i # Len(Front(s)) => s2[i] = Front(s)[i]
        /\ s2[Len(Front(s))].above = FrameSize[w.func]
    BY <1>9, <2>1, <2>2, WithAboveFacts
  <2> QED
    BY <1>9, <2>3
<1> HIDE DEF s2
<1>11. Proper(s2, q, r2)
  <2>1. \A n \in 1..Len(s2) : n \in 1..Len(s) /\ n \in 1..(Len(s) - 1)
    BY <1>1, <1>3, <1>10
  <2>2. \A n \in 1..Len(s2) : s2[n].ret = Outside <=> n = 1
    BY <1>2, <1>10, <2>1 DEF Proper
  <2> QED
    BY <1>5, <1>10, <2>2 DEF Proper
<1>12. \A n \in 1..Len(s2) : d[n] = IF n < Len(s2) THEN s2[n + 1].ret ELSE q
  <2> SUFFICES ASSUME NEW n \in 1..Len(s2) PROVE d[n] = IF n < Len(s2) THEN s2[n + 1].ret ELSE q
    OBVIOUS
  <2>1. CASE n = Len(s) - 1
    BY <1>1, <1>6, <1>10, <2>1
  <2>2. CASE n < Len(s) - 1
    <3>1. n \in 1..(Len(s) - 2) /\ n \in 1..Len(s) /\ n + 1 \in 1..(Len(s) - 1) /\ n < Len(s2) /\ n < Len(s)
      BY <1>1, <1>3, <1>10, <2>2
    <3> QED
      BY <1>1, <1>6, <1>10, <3>1
  <2> QED
    BY <1>1, <1>3, <1>10, <2>1, <2>2
<1>13. Fits(s2, d)
  <2> SUFFICES ASSUME NEW n \in 1..Len(s2) PROVE s2[n].above = Height(d, n)
    BY DEF Fits
  <2>1. CASE n = Len(s) - 1
    <3>1. d[n] = q /\ ~(n < Len(d))
      BY <1>1, <1>6, <2>1
    <3>2. Height(d, n) = FrameSize[w.func] + 0
      BY <1>5, <3>1 DEF Height
    <3>3. FrameSize[w.func] + 0 = FrameSize[w.func]
      BY <1>4, ProgramAssumption
    <3> QED
      BY <1>10, <2>1, <3>2, <3>3
  <2>2. CASE n < Len(s) - 1
    <3>1. /\ n \in 1..(Len(s) - 2) /\ n \in 1..Len(s) /\ n \in 1..(Len(s) - 1) /\ n # Len(s) - 1
          /\ n < Len(c) /\ n < Len(d)
      BY <1>1, <1>3, <1>6, <1>10, <2>2
    <3>2. s2[n].above = Height(c, n)
      BY <1>2, <1>10, <3>1 DEF Fits
    <3> QED
      BY <1>6, <3>1, <3>2, HeightSame
  <2> QED
    BY <1>1, <1>3, <1>10, <2>1, <2>2
<1>14. Length(s2, q) = Len(s2)
  BY <1>5 DEF Length
<1>15. Good(s2, q, r2) /\ ChainOf(s2, q, r2) = d
  BY <1>5, <1>6, <1>7, <1>10, <1>11, <1>12, <1>13, <1>14, Becomes
<1> QED
  BY <1>10, <1>15 DEF Shrinks, c, d, q, w, s2

\* A destructor returns to the unwinding that called it, which pops E.
LEMMA BackStep ==
    ASSUME NEW s, NEW p, NEW r, Good(s, p, r), p.at = "code", Last(s).ret # Outside,
           Last(s).ret.at = "unwinding"
    PROVE  /\ Above(Front(s)) = 0 /\ Last(Front(s)).ret \in Place
           /\ Shrinks(Front(Front(s)), Section(Last(s).ret.func, Last(s).ret.next + 1),
                      Last(Front(s)).ret, s, p, r, 2)
<1> DEFINE c == ChainOf(s, p, r)
           w == Last(s).ret
           q == Section(w.func, w.next + 1)
           d == Append(Front(Front(c)), q)
           r2 == Last(Front(s)).ret
           s2 == Front(Front(s))
<1>1. /\ c \in Seq(Links) /\ c # <<>> /\ Len(c) = Len(s) /\ Len(s) \in Nat \ {0}
      /\ \A n \in 1..Len(s) : c[n] = IF n < Len(s) THEN s[n + 1].ret ELSE p
  BY ChainFacts DEF Good, Length
<1>2. Linked(c) /\ Fits(s, c) /\ Proper(s, p, r) /\ s \in Seq(Words) /\ s # <<>>
  BY DEF Good, Proper
<1>3. /\ Len(s) >= 2 /\ w \in Links /\ w = c[Len(s) - 1] /\ Last(Front(c)) = w
      /\ Above(Front(s)) = Height(c, Len(s) - 1)
      /\ Linked(Front(c)) /\ Front(c) # <<>> /\ Front(c) \in Seq(Links)
  BY UnderCode
<1>4. w.func \in Func /\ w.next \in Nat \ {0} /\ w.at = "unwinding"
  BY <1>3, LinkKinds
<1>5. q \in Links /\ q.at = "unwinding" /\ q.func = w.func
  BY <1>4, NewLinks
<1> HIDE DEF c, w, q
<1>6. Above(Front(s)) = 0
  BY <1>3, <1>4 DEF Height
<1>7. Len(s) >= 3
  <2>1. Len(s) - 1 # 1
    BY <1>1, <1>2, <1>3, <1>4 DEF Linked
  <2> QED
    BY <1>1, <1>3, <2>1
<1>8. /\ d \in Seq(Links) /\ Len(d) = Len(s) - 1
      /\ \A n \in 1..(Len(s) - 2) : d[n] = c[n]
      /\ d[Len(s) - 1] = q
  BY <1>1, <1>3, <1>5, ShortFacts
<1>9. Linked(d)
  BY <1>3, <1>4, <1>5, LinkedSwap
<1> HIDE DEF d
<1>10. /\ Front(s) \in Seq(Words) /\ Front(s) # <<>> /\ Len(Front(s)) = Len(s) - 1
       /\ \A n \in 1..(Len(s) - 1) : Front(s)[n] = s[n]
  <2>1. /\ Front(s) \in Seq(Words) /\ Len(Front(s)) = Len(s) - 1
        /\ \A n \in 1..(Len(s) - 1) : Front(s)[n] = s[n]
    BY <1>2, FrontFacts
  <2>2. Len(Front(s)) # 0
    BY <1>1, <1>3, <2>1
  <2> QED
    BY <2>1, <2>2
<1>11. /\ s2 \in Seq(Words) /\ s2 # <<>> /\ Len(s2) = Len(s) - 2
       /\ \A n \in 1..(Len(s) - 2) : s2[n] = s[n]
       /\ r2 = s[Len(s) - 1].ret
  <2> DEFINE b == Front(s)
  <2> HIDE DEF b
  <2>1. /\ Front(b) \in Seq(Words) /\ Len(Front(b)) = Len(b) - 1
        /\ \A n \in 1..(Len(b) - 1) : Front(b)[n] = b[n]
        /\ Last(b) = b[Len(b)]
    BY <1>10, FrontFacts DEF b
  <2>2. /\ b # <<>> /\ Len(b) = Len(s) - 1 /\ \A n \in 1..(Len(s) - 1) : b[n] = s[n]
    BY <1>10 DEF b
  <2>3. /\ Len(Front(b)) = Len(s) - 2
        /\ \A n \in 1..(Len(s) - 2) : Front(b)[n] = s[n]
        /\ Last(b) = s[Len(s) - 1]
    BY <1>1, <1>7, <2>1, <2>2
  <2>4. Front(b) # <<>>
    <3>1. Len(Front(b)) # 0
      BY <1>1, <1>7, <2>3
    <3> QED
      BY <3>1
  <2>5. Front(b) \in Seq(Words) /\ Last(b).ret = s[Len(s) - 1].ret
    BY <2>1, <2>3
  <2> QED
    BY <2>3, <2>4, <2>5 DEF b
<1>12. r2 = c[Len(s) - 2] /\ Leads(r2, w) /\ r2 \in Links
  <2>1. /\ Len(s) - 2 \in 1..Len(s) /\ Len(s) - 2 < Len(s) /\ Len(s) - 2 + 1 = Len(s) - 1
        /\ Len(s) - 1 <= Len(s)
    BY <1>1, <1>7
  <2>2. c[Len(s) - 2] = s[Len(s) - 1].ret
    BY <1>1, <2>1
  <2>3. Leads(c[Len(s) - 2], c[Len(s) - 1])
    BY <1>1, <1>2, <2>1 DEF Linked
  <2>4. c[Len(s) - 2] \in Links
    BY <1>1, <2>1, ElementOfSeq
  <2> QED
    BY <1>3, <1>11, <2>2, <2>3, <2>4
<1> HIDE DEF r2, s2
<1>13. r2 \in Place
  <2>1. r2.at = "code"
    BY <1>4, <1>12 DEF Leads
  <2> QED
    BY <1>12, <2>1, LinkKinds
<1>14. Proper(s2, q, r2)
  <2>1. \A n \in 1..Len(s2) : n \in 1..Len(s) /\ n \in 1..(Len(s) - 2)
    BY <1>1, <1>7, <1>11
  <2>2. \A n \in 1..Len(s2) : s2[n].ret = Outside <=> n = 1
    BY <1>2, <1>11, <2>1 DEF Proper
  <2> QED
    BY <1>5, <1>11, <1>13, <2>2 DEF Proper
<1>15. \A n \in 1..(Len(s2) + 1) : d[n] = IF n < Len(s2) THEN s2[n + 1].ret ELSE IF n = Len(s2) THEN r2 ELSE q
  <2> SUFFICES ASSUME NEW n \in 1..(Len(s2) + 1)
               PROVE  d[n] = IF n < Len(s2) THEN s2[n + 1].ret ELSE IF n = Len(s2) THEN r2 ELSE q
    OBVIOUS
  <2>1. CASE n = Len(s) - 1
    BY <1>1, <1>8, <1>11, <2>1
  <2>2. CASE n = Len(s) - 2
    <3>1. n \in 1..(Len(s) - 2) /\ ~(n < Len(s2)) /\ n = Len(s2)
      BY <1>1, <1>7, <1>11, <2>2
    <3> QED
      BY <1>8, <1>12, <2>2, <3>1
  <2>3. CASE n < Len(s) - 2
    <3>1. n \in 1..(Len(s) - 2) /\ n \in 1..Len(s) /\ n + 1 \in 1..(Len(s) - 2) /\ n < Len(s2) /\ n < Len(s)
      BY <1>1, <1>7, <1>11, <2>3
    <3> QED
      BY <1>1, <1>8, <1>11, <3>1
  <2> QED
    BY <1>1, <1>7, <1>11, <2>1, <2>2, <2>3
<1>16. Fits(s2, d)
  <2> SUFFICES ASSUME NEW n \in 1..Len(s2) PROVE s2[n].above = Height(d, n)
    BY DEF Fits
  <2>1. n \in 1..(Len(s) - 2) /\ n \in 1..Len(s) /\ n < Len(c) /\ n < Len(d)
    BY <1>1, <1>7, <1>8, <1>11
  <2>2. s2[n].above = Height(c, n)
    BY <1>2, <1>11, <2>1 DEF Fits
  <2> QED
    BY <1>8, <2>1, <2>2, HeightSame
<1>17. Length(s2, q) = Len(s2) + 1 /\ Len(s2) + 1 = Len(d)
  BY <1>1, <1>5, <1>7, <1>8, <1>11 DEF Length
<1>18. Good(s2, q, r2) /\ ChainOf(s2, q, r2) = d
  <2>1. \A n \in 1..Length(s2, q) : d[n] = IF n < Len(s2) THEN s2[n + 1].ret
                                         ELSE IF n = Len(s2) /\ q.at = "unwinding" THEN r2
                                         ELSE q
    BY <1>5, <1>15, <1>17
  <2>2. d \in Seq(Links) /\ Len(d) = Length(s2, q)
    BY <1>8, <1>17
  <2> QED
    BY <1>9, <1>14, <1>16, <2>1, <2>2, Becomes
<1> QED
  BY <1>6, <1>11, <1>13, <1>18 DEF Shrinks, c, d, q, r2, s2, w

\* The unwinding of a function is done: that of its caller begins.
LEMMA NextStep ==
    ASSUME NEW s, NEW p, NEW r, Good(s, p, r), p.at = "unwinding", Last(s).ret # Outside, Tame
    PROVE  /\ Last(s).ret.at = "code" /\ Last(s).ret \in Place /\ Last(s).ret.func \in Listed
           /\ Len(ChainOf(s, p, r)) >= 3
           /\ Last(s).ret = Last(Front(Front(ChainOf(s, p, r))))
           /\ Front(Front(ChainOf(s, p, r))) # <<>>
           /\ Shrinks(Front(s), Section(Last(s).ret.func, 1), Last(s).ret, s, p, r, 1)
<1> DEFINE c == ChainOf(s, p, r)
           w == Last(s).ret
           q == Section(w.func, 1)
           d == Append(Front(Front(c)), q)
           s2 == Front(s)
<1>1. /\ c \in Seq(Links) /\ c # <<>> /\ Len(c) = Len(s) + 1 /\ Len(s) \in Nat \ {0}
      /\ \A n \in 1..(Len(s) + 1) : c[n] = IF n < Len(s) THEN s[n + 1].ret ELSE IF n = Len(s) THEN r ELSE p
  BY ChainFacts DEF Good, Length
<1>2. Linked(c) /\ Fits(s, c) /\ Proper(s, p, r) /\ s \in Seq(Words) /\ s # <<>>
  BY DEF Good, Proper
<1>3. c[Len(s)] = r /\ Panicking(r) /\ r \in Place /\ r.at = "code"
  BY TopUnwinding DEF Place
<1>4. w = s[Len(s)].ret
  BY DEF Last
<1> HIDE DEF c, w
<1>a. Len(s) \in Nat \ {0} /\ Len(c) = Len(s) + 1
  BY <1>1
<1>5. Len(s) >= 2
  <2>1. Len(s) \in 1..Len(s)
    BY <1>1
  <2>2. w # Outside
    BY DEF w
  <2>3. Len(s) # 1
    BY <1>2, <1>4, <2>1, <2>2 DEF Proper
  <2> QED
    BY <1>a, <2>3, AtLeastTwo
<1>6. /\ Len(s) - 1 \in 1..Len(c) /\ Len(s) - 1 \in 1..(Len(s) + 1) /\ Len(s) - 1 + 1 = Len(s)
      /\ Len(s) <= Len(c) /\ Len(s) - 1 < Len(s) /\ Len(c) - 2 = Len(s) - 1 /\ Len(c) >= 3
  BY <1>a, <1>5
<1>7. w = c[Len(s) - 1]
  BY <1>1, <1>4, <1>6
<1>8. w \in Links
  BY <1>1, <1>6, <1>7, ElementOfSeq
<1>9. Leads(w, r)
  BY <1>2, <1>3, <1>6, <1>7 DEF Linked
<1>10. /\ w.func \in Func /\ w.at \in {"code", "unwinding"}
       /\ w.at = "code" => w \in Place /\ w.pos \in Nat \ {0}
       /\ w.at = "unwinding" => w.next \in Nat \ {0}
  BY <1>8, LinkKinds
<1>11. r.func \in MayPanic
  BY <1>3 DEF Panicking
<1>12. w.at = "code"
  <2>1. ASSUME w.at = "unwinding" PROVE FALSE
    <3>1. Destructor(w, r.func)
      BY <1>9, <2>1 DEF Leads
    <3>2. w.next \in 1..Len(Code[w.func])
      <4>1. Code[w.func] \in Seq(Step)
        BY <1>10, ProgramAssumption
      <4>2. Len(Code[w.func]) \in Nat
        BY <4>1, LenProperties
      <4> QED
        BY <1>10, <2>1, <3>1, <4>2 DEF Destructor
    <3>3. Code[w.func][w.next].func \notin MayPanic
      BY <1>10, <3>1, <3>2 DEF Tame, Destructor
    <3> QED
      BY <1>11, <3>1, <3>3 DEF Destructor
  <2> QED
    BY <1>10, <2>1
<1>13. Panicking(w) /\ w.func \in Listed
  <2>1. Calls(w) /\ StepAt(w).func = r.func
    BY <1>3, <1>9, <1>12 DEF Leads
  <2>2. w.pos \in 1..Len(Code[w.func])
    <3>1. Code[w.func] \in Seq(Step)
      BY <1>10, ProgramAssumption
    <3>2. Len(Code[w.func]) \in Nat
      BY <3>1, LenProperties
    <3> QED
      BY <1>10, <1>12, <2>1, <3>2 DEF Calls, Is
  <2>3. StepAt(w).op # "drop"
    BY <1>10, <1>11, <2>1, <2>2 DEF Tame, StepAt
  <2>4. StepAt(w).op = "call"
    BY <2>1, <2>3 DEF Calls, Is
  <2>5. w.func \in MayPanic
    BY <1>10, <1>11, <2>1, <2>2, <2>4 DEF Tame, StepAt
  <2> QED
    BY <1>11, <2>1, <2>3, <2>4, <2>5 DEF Panicking, Tame, Calls, Is
<1>14. q \in Links /\ q.at = "unwinding" /\ q.func = w.func
  BY <1>10, NewLinks
<1> HIDE DEF q
<1>15. /\ d \in Seq(Links) /\ Len(d) = Len(s)
       /\ \A n \in 1..(Len(s) - 1) : d[n] = c[n]
       /\ d[Len(s)] = q
       /\ Front(c) # <<>> /\ Front(c) \in Seq(Links) /\ c # <<>>
       /\ Front(Front(c)) # <<>> /\ Front(Front(c)) \in Seq(Links) /\ Last(Front(Front(c))) = w
  <2>1. Len(c) - 1 = Len(s) /\ Len(c) >= 2
    BY <1>a, <1>5
  <2>2. /\ d \in Seq(Links) /\ Len(d) = Len(c) - 1
        /\ \A n \in 1..(Len(c) - 2) : d[n] = c[n]
        /\ d[Len(c) - 1] = q
        /\ c # <<>> /\ Front(c) # <<>>
        /\ Front(Front(c)) \in Seq(Links) /\ Len(Front(Front(c))) = Len(c) - 2
        /\ \A n \in 1..(Len(c) - 2) : Front(Front(c))[n] = c[n]
    BY <1>1, <1>14, <2>1, ShortFacts
  <2>3. Front(c) \in Seq(Links)
    BY <1>1, FrontFacts
  <2>4. Len(Front(Front(c))) = Len(s) - 1 /\ Len(s) - 1 \in 1..(Len(c) - 2) /\ Len(s) - 1 # 0
    <3>1. Len(Front(Front(c))) = Len(c) - 2
      BY <2>2
    <3>2. Len(c) - 2 = Len(s) - 1 /\ Len(s) - 1 \in 1..(Len(c) - 2) /\ Len(s) - 1 # 0
      <4>1. Len(c) - 2 = Len(s) - 1
        BY <1>a
      <4>2. Len(s) - 1 \in 1..(Len(s) - 1) /\ Len(s) - 1 # 0
        BY <1>a, <1>5, AtLeastTwo
      <4> QED
        BY <4>1, <4>2
    <3> QED
      BY <3>1, <3>2
  <2>5. Front(Front(c)) # <<>>
    BY <2>4
  <2>6. Last(Front(Front(c))) = w
    BY <1>7, <2>2, <2>4 DEF Last
  <2> QED
    BY <1>6, <2>1, <2>2, <2>3, <2>5, <2>6
<1>16. Linked(d)
  <2>1. Leads(w, q)
    BY <1>12, <1>13, <1>14 DEF Leads
  <2>2. Linked(Front(Front(c)))
    BY <1>1, <1>2, <1>15, LinkedFront
  <2> QED
    BY <1>14, <1>15, <2>1, <2>2, LinkedAppend
<1> HIDE DEF d
<1>17. /\ s2 \in Seq(Words) /\ s2 # <<>> /\ Len(s2) = Len(s) - 1
       /\ \A n \in 1..(Len(s) - 1) : s2[n] = s[n]
  <2>1. /\ s2 \in Seq(Words) /\ Len(s2) = Len(s) - 1
        /\ \A n \in 1..(Len(s) - 1) : s2[n] = s[n]
    BY <1>2, FrontFacts
  <2>2. Len(s2) # 0
    BY <1>1, <1>5, <2>1
  <2> QED
    BY <2>1, <2>2
<1> HIDE DEF s2
<1>18. Proper(s2, q, w)
  <2>1. \A n \in 1..Len(s2) : n \in 1..Len(s) /\ n \in 1..(Len(s) - 1)
    BY <1>1, <1>5, <1>17
  <2>2. \A n \in 1..Len(s2) : s2[n].ret = Outside <=> n = 1
    BY <1>2, <1>17, <2>1 DEF Proper
  <2> QED
    BY <1>10, <1>12, <1>14, <1>17, <2>2 DEF Proper
<1>19. \A n \in 1..(Len(s2) + 1) : d[n] = IF n < Len(s2) THEN s2[n + 1].ret ELSE IF n = Len(s2) THEN w ELSE q
  <2> SUFFICES ASSUME NEW n \in 1..(Len(s2) + 1)
               PROVE  d[n] = IF n < Len(s2) THEN s2[n + 1].ret ELSE IF n = Len(s2) THEN w ELSE q
    OBVIOUS
  <2>1. CASE n = Len(s)
    BY <1>1, <1>15, <1>17, <2>1
  <2>2. CASE n = Len(s) - 1
    <3>1. n \in 1..(Len(s) - 1) /\ ~(n < Len(s2)) /\ n = Len(s2)
      BY <1>1, <1>5, <1>17, <2>2
    <3> QED
      BY <1>7, <1>15, <2>2, <3>1
  <2>3. CASE n < Len(s) - 1
    <3>1. n \in 1..(Len(s) - 1) /\ n \in 1..(Len(s) + 1) /\ n + 1 \in 1..(Len(s) - 1) /\ n < Len(s2) /\ n < Len(s)
      BY <1>1, <1>5, <1>17, <2>3
    <3> QED
      BY <1>1, <1>15, <1>17, <3>1
  <2> QED
    BY <1>1, <1>5, <1>17, <2>1, <2>2, <2>3
<1>20. Fits(s2, d)
  <2> SUFFICES ASSUME NEW n \in 1..Len(s2) PROVE s2[n].above = Height(d, n)
    BY DEF Fits
  <2>1. n \in 1..(Len(s) - 1) /\ n \in 1..Len(s) /\ n < Len(c) /\ n < Len(d)
    BY <1>1, <1>5, <1>15, <1>17
  <2>2. s2[n].above = Height(c, n)
    BY <1>2, <1>17, <2>1 DEF Fits
  <2> QED
    BY <1>15, <2>1, <2>2, HeightSame
<1>21. Length(s2, q) = Len(s2) + 1 /\ Len(s2) + 1 = Len(d)
  BY <1>1, <1>5, <1>14, <1>15, <1>17 DEF Length
<1>22. Good(s2, q, w) /\ ChainOf(s2, q, w) = d
  <2>1. \A n \in 1..Length(s2, q) : d[n] = IF n < Len(s2) THEN s2[n + 1].ret
                                         ELSE IF n = Len(s2) /\ q.at = "unwinding" THEN w
                                         ELSE q
    BY <1>14, <1>19, <1>21
  <2>2. d \in Seq(Links) /\ Len(d) = Length(s2, q)
    BY <1>15, <1>21
  <2> QED
    BY <1>16, <1>18, <1>20, <2>1, <2>2, Becomes
<1>23. w.at = "code" /\ w \in Place /\ w.func \in Listed
  BY <1>10, <1>12, <1>13
<1>24. Len(c) >= 3 /\ w = c[Len(c) - 2]
  BY <1>6, <1>7
<1> QED
  BY <1>15, <1>17, <1>22, <1>23, <1>24 DEF Shrinks, c, d, q, s2, w

-----------------------------------------------------------------------------
(* The invariant of a state in terms of its chain.                         *)

LEMMA StepKinds ==
    ASSUME NEW p \in Place, p.pos <= Len(Code[p.func])
    PROVE  /\ p.pos \in 1..Len(Code[p.func]) /\ p.func \in Func /\ p.at = "code"
           /\ Calls(p) => StepAt(p).func \in Func /\ StepAt(p).pushed \in Nat
           /\ Is(p, "drop") => StepAt(p).slot \in Nat
           /\ Is(p, "branch") => StepAt(p).to \in Nat \ {0}
<1>1. p.func \in Func /\ p.pos \in Nat \ {0} /\ p.at = "code"
  BY DEF Place
<1>2. Code[p.func] \in Seq(Step)
  BY <1>1, ProgramAssumption
<1>3. p.pos \in 1..Len(Code[p.func])
  <2>1. Len(Code[p.func]) \in Nat
    BY <1>2, LenProperties
  <2> QED
    BY <1>1, <2>1
<1>4. StepAt(p) \in Step
  BY <1>2, <1>3, ElementOfSeq DEF StepAt
<1>5. /\ StepAt(p).op = "call" => StepAt(p).func \in Func /\ StepAt(p).pushed \in Nat
      /\ StepAt(p).op = "drop" => StepAt(p).func \in Func /\ StepAt(p).pushed \in Nat /\ StepAt(p).slot \in Nat
      /\ StepAt(p).op = "branch" => StepAt(p).to \in Nat \ {0}
  BY <1>4 DEF Step
<1> QED
  BY <1>1, <1>3, <1>5 DEF Calls, Is

LEMMA PushedNat ==
    ASSUME NEW p \in Place
    PROVE  Pushed(p) \in Nat
<1>1. CASE Calls(p)
  <2>1. p.pos <= Len(Code[p.func])
    BY <1>1 DEF Calls, Is
  <2> QED
    BY <1>1, <2>1, StepKinds DEF Pushed
<1>2. CASE ~Calls(p)
  BY <1>2 DEF Pushed
<1> QED
  BY <1>1, <1>2

\* What CallInv says of a call under way.
LEMMA InvGood ==
    ASSUME CallInv, pc # Host
    PROVE  /\ Good(stack, pc, ref) /\ pc \in Links
           /\ InCode => pc \in Place /\ pc.func \in Func /\ pc.pos \in Nat \ {0}
           /\ InUnwinding => pc.func \in Func /\ pc.next \in Nat \ {0} /\ ref \in Place
           /\ InCode \/ InUnwinding
<1>1. stack \in Seq(Words) /\ pc \in Links
  BY DEF CallInv, TypeOK, Words, Links
<1>2. Proper(stack, pc, ref)
  BY <1>1 DEF CallInv, StackOK, Proper, InUnwinding
<1>3. Linked(ChainOf(stack, pc, ref))
  BY DEF CallInv, Chain
<1>4. Fits(stack, ChainOf(stack, pc, ref))
  BY DEF CallInv, Aligned, Chain, Fits, Height
<1> QED
  BY <1>1, <1>2, <1>3, <1>4, LinkKinds DEF Good, InCode, InUnwinding, Proper

\* What is not in the chain.
RestOK ==
  /\ left \in 0..MaxDepth /\ left + Len(stack) <= MaxDepth
  /\ ref \in Place \cup {Host} /\ this \in [frame : Nat, slot : Int]
  /\ panic \in Seq(Place \cup {[at |-> "none"]})
  /\ RetValue \in {"Null", "Success"} /\ status \in {"none", "Null", "Success", "exception"}

LEMMA InvRest == CallInv => RestOK
  BY DEF CallInv, TypeOK, StackOK, RestOK

LEMMA GoodInv ==
    ASSUME Good(stack', pc', ref'), RestOK'
    PROVE  CallInv'
<1>1. Proper(stack', pc', ref')
  BY DEF Good
<1>2. stack' \in Seq(Words) /\ pc' \in Links /\ stack' # <<>>
  BY <1>1 DEF Proper
<1>3. TypeOK'
  BY <1>2 DEF RestOK, TypeOK, Words, Links
<1>4. pc' # Host
  <2>1. pc'.at \in {"code", "unwinding"}
    BY <1>2, LinkKinds
  <2> QED
    BY <2>1 DEF Host
<1>5. StackOK'
  BY <1>1, <1>2, <1>4 DEF StackOK, Proper, RestOK, InUnwinding
<1>6. Linked(Chain)'
  BY DEF Good, Chain
<1>7. Aligned'
  BY DEF Good, Fits, Height, Aligned, Chain
<1> QED
  BY <1>3, <1>5, <1>6, <1>7 DEF CallInv

LEMMA NoChain == ASSUME NEW r PROVE ChainOf(<<>>, Host, r) = <<>>
  <1>1. Len(<<>>) = 0 /\ Host.at # "unwinding"
    BY DEF Host
  <1>2. 1..0 = {}
    OBVIOUS
  <1>3. ChainOf(<<>>, Host, r) = [n \in {} |-> IF n < 0 THEN <<>>[n + 1].ret
                                              ELSE IF n = 0 /\ Host.at = "unwinding" THEN r ELSE Host]
    BY <1>1, <1>2 DEF ChainOf
  <1> QED
    BY <1>3

LEMMA OutsideInv ==
    ASSUME stack' = <<>>, pc' = Host, RestOK'
    PROVE  CallInv' /\ Chain' = <<>>
<1>1. Chain' = <<>>
  BY NoChain DEF Chain
<1>2. TypeOK'
  BY DEF RestOK, TypeOK
<1>3. StackOK'
  BY DEF StackOK, RestOK, InUnwinding, Host
<1>4. Linked(Chain)' /\ Aligned'
  BY <1>1 DEF Linked, Aligned
<1> QED
  BY <1>1, <1>2, <1>3, <1>4 DEF CallInv

-----------------------------------------------------------------------------
(* The actions: each keeps the invariant and is a step of CallService.     *)

LEMMA SameProgram ==
    /\ \A f, i : Service!At(f, i) = At(f, i) /\ Service!Section(f, i) = Section(f, i)
    /\ \A p : Service!StepAt(p) = StepAt(p)
    /\ \A p, o : Service!Is(p, o) <=> Is(p, o)
    /\ \A s : Service!Front(s) = Front(s) /\ Service!Last(s) = Last(s)
    /\ Service!Top = Last(Chain) /\ Service!NoPanic = NoPanic
    /\ \A a : Service!Advanced(a) = IF a.at = "code" THEN At(a.func, a.pos + 1)
                                    ELSE Section(a.func, a.next + 1)
<1>1. \A f, i : Service!At(f, i) = At(f, i) /\ Service!Section(f, i) = Section(f, i)
  BY DEF Service!At, At, Service!Section, Section
<1>2. \A p : Service!StepAt(p) = StepAt(p)
  BY DEF Service!StepAt, StepAt
<1>3. \A p, o : Service!Is(p, o) <=> Is(p, o)
  BY DEF Service!Is, Is, Service!StepAt, StepAt
<1>4. \A s : Service!Front(s) = Front(s) /\ Service!Last(s) = Last(s)
  BY DEF Service!Front, Front, Service!Last, Last
<1>5. Service!Top = Last(Chain) /\ Service!NoPanic = NoPanic
  BY DEF Service!Top, Service!Last, Last, Service!NoPanic, NoPanic
<1>6. \A a : Service!Advanced(a) = IF a.at = "code" THEN At(a.func, a.pos + 1)
                                  ELSE Section(a.func, a.next + 1)
  BY DEF Service!Advanced, Service!At, At, Service!Section, Section
<1> QED
  BY <1>1, <1>2, <1>3, <1>4, <1>5, <1>6

\* Where a call is, in its chain.
LEMMA Here ==
    ASSUME CallInv, InCode
    PROVE  /\ Good(stack, pc, ref) /\ pc \in Links /\ pc \in Place /\ pc.at = "code" /\ pc # Host
           /\ pc.func \in Func /\ pc.pos \in Nat \ {0}
           /\ Chain # <<>> /\ Last(Chain) = pc /\ Len(Chain) = Len(stack) /\ Service!Running
           /\ Len(stack) \in Nat \ {0} /\ stack # <<>> /\ stack \in Seq(Words) /\ Above(stack) = FrameSize[pc.func]
<1>1. pc.at = "code" /\ pc # Host
  BY DEF InCode, Host
<1>2. Good(stack, pc, ref) /\ pc \in Links /\ pc \in Place /\ pc.func \in Func /\ pc.pos \in Nat \ {0}
  BY <1>1, InvGood
<1>3. Chain # <<>> /\ Len(Chain) = Len(stack) /\ Len(stack) \in Nat \ {0}
  BY <1>1, <1>2, ChainFacts DEF Good, Length, Chain
<1>4. Last(Chain) = pc /\ Above(stack) = FrameSize[pc.func]
  BY <1>1, <1>2, TopInCode DEF Chain
<1>5. stack # <<>> /\ stack \in Seq(Words)
  BY <1>2 DEF Good, Proper
<1> QED
  BY <1>1, <1>2, <1>3, <1>4, <1>5, SameProgram DEF Service!Running

LEMMA CallStep == CallInv /\ Call => CallInv' /\ (Service!Start \/ Service!Refuse)
<1> SUFFICES ASSUME CallInv, Call PROVE CallInv' /\ (Service!Start \/ Service!Refuse)
  OBVIOUS
<1>1. PICK f \in Func :
        IF Room(1)
        THEN stack' = Entered(<<>>, Outside, f) /\ pc' = At(f, 1) /\ UNCHANGED status
        ELSE status' = "exception" /\ UNCHANGED <<stack, pc>>
  BY DEF Call
<1>2. pc = Host /\ stack = <<>> /\ RestOK /\ Chain = <<>>
  BY InvRest, NoChain DEF Call, CallInv, StackOK, Chain
<1>3. panic' = NoPanic /\ panic' \in Seq(Place \cup {[at |-> "none"]}) /\ UNCHANGED <<left, ref, this, RetValue>>
  BY DEF Call, NoPanic
<1>4. CASE Room(1)
  <2>1. stack' = Entered(<<>>, Outside, f) /\ pc' = At(f, 1) /\ UNCHANGED status
    BY <1>1, <1>4
  <2>2. Good(stack', pc', ref') /\ Chain' = <<At(f, 1)>>
    BY <2>1, FirstStep DEF Chain
  <2>3. Len(stack') = 1
    <3>1. Len(ChainOf(stack', pc', ref')) = Length(stack', pc')
      BY <2>2, ChainFacts DEF Good
    <3>2. pc'.at = "code"
      BY <2>1 DEF At
    <3>3. Len(Chain') = 1
      BY <2>2
    <3> QED
      BY <3>1, <3>2, <3>3 DEF Length, Chain
  <2>4. RestOK'
    <3>1. left + 1 <= MaxDepth
      BY <1>2, <1>4, DepthAssumption DEF Room, RestOK
    <3> QED
      BY <1>2, <1>3, <2>1, <2>3, <3>1 DEF RestOK
  <2>5. Service!Start
    BY <1>2, <1>3, <2>1, <2>2, SameProgram DEF Service!Start
  <2> QED
    BY <2>2, <2>4, <2>5, GoodInv
<1>5. CASE ~Room(1)
  <2>1. stack' = <<>> /\ pc' = Host /\ status' = "exception"
    BY <1>1, <1>2, <1>5
  <2>2. RestOK'
    BY <1>2, <1>3, <2>1 DEF RestOK
  <2>3. CallInv' /\ Chain' = <<>>
    BY <2>1, <2>2, OutsideInv
  <2>4. Service!Refuse
    BY <1>2, <1>3, <2>1, <2>3, SameProgram DEF Service!Refuse
  <2> QED
    BY <2>3, <2>4
<1> QED
  BY <1>4, <1>5

LEMMA GoStep == CallInv /\ Go => CallInv' /\ Service!Go
<1> SUFFICES ASSUME CallInv, Go PROVE CallInv' /\ Service!Go
  OBVIOUS
<1>1. InCode /\ (Is(pc, "plain") \/ Is(pc, "branch")) /\ UNCHANGED <<stack, left, ref, this, panic, RetValue, status>>
  BY DEF Go
<1>2. /\ Good(stack, pc, ref) /\ pc \in Place /\ pc.at = "code" /\ pc.func \in Func /\ pc.pos \in Nat \ {0}
      /\ Last(Chain) = pc /\ Service!Running
  BY <1>1, Here
<1>3. pc' = At(pc.func, pc.pos + 1) \/ (Is(pc, "branch") /\ pc' = At(pc.func, StepAt(pc).to))
  BY DEF Go
<1>4. PICK k \in Nat \ {0} : /\ pc' = At(pc.func, k)
                             /\ k = pc.pos + 1 \/ (Is(pc, "branch") /\ k = StepAt(pc).to)
  <2>1. CASE pc' = At(pc.func, pc.pos + 1)
    BY <1>2, <2>1
  <2>2. CASE Is(pc, "branch") /\ pc' = At(pc.func, StepAt(pc).to)
    <3>1. StepAt(pc).to \in Nat \ {0}
      BY <1>2, <2>2, StepKinds DEF Is
    <3> QED
      BY <2>2, <3>1
  <2> QED
    BY <1>3, <2>1, <2>2
<1>5. pc' \in Links /\ pc'.at = pc.at /\ pc'.func = pc.func
  BY <1>2, <1>4, NewLinks
<1>6. Good(stack', pc', ref') /\ Chain' = Append(Front(Chain), pc')
  BY <1>1, <1>2, <1>5, MoveStep DEF Chain
<1>7. RestOK'
  BY <1>1, InvRest DEF RestOK
<1>8. Service!Go
  BY <1>1, <1>2, <1>4, <1>6, SameProgram DEF Service!Go
<1> QED
  BY <1>6, <1>7, <1>8, GoodInv

LEMMA CallFuncStep == CallInv /\ CallFunc => CallInv' /\ Service!Enter
<1> SUFFICES ASSUME CallInv, CallFunc PROVE CallInv' /\ Service!Enter
  OBVIOUS
<1>1. /\ InCode /\ Is(pc, "call") /\ Room(1) /\ UNCHANGED <<left, ref, this, panic, RetValue, status>>
      /\ pc' = At(StepAt(pc).func, 1)
      /\ stack' = Entered(WithAbove(stack, Above(stack) + StepAt(pc).pushed), pc, StepAt(pc).func)
  BY DEF CallFunc
<1>2. /\ Good(stack, pc, ref) /\ pc \in Place /\ pc.at = "code"
      /\ Last(Chain) = pc /\ Service!Running
  BY <1>1, Here
<1>3. Calls(pc) /\ StepAt(pc).func \in Func /\ Pushed(pc) = StepAt(pc).pushed /\ Pushed(pc) \in Nat
  BY <1>1, <1>2, StepKinds, PushedNat DEF Calls, Is, Pushed
<1>4. Good(stack', pc', ref') /\ Len(stack') = Len(stack) + 1 /\ Chain' = Append(Chain, pc')
  <2> DEFINE g == StepAt(pc).func
             s2 == Entered(WithAbove(stack, Above(stack) + Pushed(pc)), pc, g)
  <2>1. stack' = s2 /\ pc' = At(g, 1)
    BY <1>1, <1>3
  <2>2. g \in Func /\ StepAt(pc).func = g
    BY <1>3
  <2> HIDE DEF g
  <2>3. Grows(s2, At(g, 1), ref', stack, pc, ref, 1)
    BY <1>2, <1>3, <2>2, EnterStep
  <2> HIDE DEF s2
  <2> QED
    BY <2>1, <2>3 DEF Grows, Chain
<1>5. RestOK'
  <2>1. left' + Len(stack') <= MaxDepth
    <3>1. left \in Nat /\ Len(stack) \in Nat
      BY <1>1, InvRest, Here DEF RestOK
    <3> QED
      BY <1>1, <1>4, <3>1, DepthAssumption DEF Room
  <2> QED
    BY <1>1, <2>1, InvRest DEF RestOK
<1>6. Service!Enter
  BY <1>1, <1>2, <1>4, SameProgram DEF Service!Enter
<1> QED
  BY <1>4, <1>5, <1>6, GoodInv

LEMMA CleanupFuncCallStep == CallInv /\ CleanupFuncCall => CallInv' /\ Service!Destroy
<1> SUFFICES ASSUME CallInv, CleanupFuncCall PROVE CallInv' /\ Service!Destroy
  OBVIOUS
<1>1. /\ InCode /\ Is(pc, "drop") /\ Room(1) /\ UNCHANGED <<left, ref, panic, RetValue, status>>
      /\ this' = [frame |-> Len(stack), slot |-> StepAt(pc).slot]
      /\ pc' = At(StepAt(pc).func, 1)
      /\ stack' = Entered(WithAbove(stack, Above(stack) + StepAt(pc).pushed), pc, StepAt(pc).func)
  BY DEF CleanupFuncCall
<1>2. /\ Good(stack, pc, ref) /\ pc \in Place /\ pc.at = "code" /\ Len(Chain) = Len(stack) /\ Len(stack) \in Nat
      /\ Last(Chain) = pc /\ Service!Running
  BY <1>1, Here
<1>3. /\ Calls(pc) /\ StepAt(pc).func \in Func /\ Pushed(pc) = StepAt(pc).pushed /\ Pushed(pc) \in Nat
      /\ StepAt(pc).slot \in Nat
  BY <1>1, <1>2, StepKinds, PushedNat DEF Calls, Is, Pushed
<1>4. Good(stack', pc', ref') /\ Len(stack') = Len(stack) + 1 /\ Chain' = Append(Chain, pc')
  <2> DEFINE g == StepAt(pc).func
             s2 == Entered(WithAbove(stack, Above(stack) + Pushed(pc)), pc, g)
  <2>1. stack' = s2 /\ pc' = At(g, 1)
    BY <1>1, <1>3
  <2>2. g \in Func /\ StepAt(pc).func = g
    BY <1>3
  <2> HIDE DEF g
  <2>3. Grows(s2, At(g, 1), ref', stack, pc, ref, 1)
    BY <1>2, <1>3, <2>2, EnterStep
  <2> HIDE DEF s2
  <2> QED
    BY <2>1, <2>3 DEF Grows, Chain
<1>5. RestOK'
  <2>1. left' + Len(stack') <= MaxDepth
    <3>1. left \in Nat
      BY InvRest DEF RestOK
    <3> QED
      BY <1>1, <1>2, <1>4, <3>1, DepthAssumption DEF Room
  <2>2. this' \in [frame : Nat, slot : Int]
    BY <1>1, <1>2, <1>3
  <2> QED
    BY <1>1, <2>1, <2>2, InvRest DEF RestOK
<1>6. Service!Destroy
  BY <1>1, <1>2, <1>4, SameProgram DEF Service!Destroy
<1> QED
  BY <1>4, <1>5, <1>6, GoodInv

\* The frame of f is dropped, and the return address under it popped.
LEMMA FramePopped ==
    ASSUME NEW s \in Seq(Words), s # <<>>, NEW f \in Func, Above(s) = FrameSize[f]
    PROVE  Popped(FrameDropped(s, f)) = [word |-> Last(s).ret, rest |-> Front(s)]
<1> DEFINE t == WithAbove(s, 0)
<1>1. FrameDropped(s, f) = t
  <2>1. FrameSize[f] \in Nat
    BY ProgramAssumption
  <2>2. Above(s) - FrameSize[f] = 0
    BY <2>1
  <2> QED
    BY <2>2 DEF FrameDropped
<1>2. /\ t \in Seq(Words) /\ t # <<>> /\ Len(t) = Len(s) /\ Len(s) \in Nat \ {0}
      /\ \A i \in 1..Len(s) : t[i].ret = s[i].ret /\ (i # Len(s) => t[i] = s[i])
      /\ t[Len(s)].above = 0
  BY WithAboveFacts
<1> HIDE DEF t
<1>3. /\ Front(t) \in Seq(Words) /\ Len(Front(t)) = Len(t) - 1 /\ Last(t) = t[Len(t)]
      /\ \A n \in 1..(Len(t) - 1) : Front(t)[n] = t[n]
  BY <1>2, FrontFacts
<1>4. /\ Front(s) \in Seq(Words) /\ Len(Front(s)) = Len(s) - 1 /\ Last(s) = s[Len(s)]
      /\ \A n \in 1..(Len(s) - 1) : Front(s)[n] = s[n]
  BY FrontFacts
<1>5. Front(t) = Front(s)
  <2>1. \A n \in 1..(Len(s) - 1) : n \in 1..Len(s) /\ n # Len(s)
    BY <1>2
  <2>2. \A n \in 1..Len(Front(s)) : Front(t)[n] = Front(s)[n]
    BY <1>2, <1>3, <1>4, <2>1
  <2>3. Len(Front(t)) = Len(Front(s))
    BY <1>2, <1>3, <1>4
  <2> QED
    BY <1>3, <1>4, <2>2, <2>3, SeqEqual
<1>6. Above(t) = 0 /\ Last(t).ret = Last(s).ret
  <2>1. Len(s) \in 1..Len(s)
    BY <1>2
  <2> QED
    BY <1>2, <1>3, <1>4, <2>1 DEF Above
<1> QED
  BY <1>1, <1>5, <1>6 DEF Popped

LEMMA ReturnCallStep == CallInv /\ Return => CallInv' /\ Service!Return
<1> SUFFICES ASSUME CallInv, Return PROVE CallInv' /\ Service!Return
  OBVIOUS
<1> DEFINE w == Last(stack).ret
           s == Front(stack)
<1>1. InCode /\ pc.pos > Len(Code[pc.func]) /\ UNCHANGED <<left, this, panic>>
  BY DEF Return
<1>2. /\ Good(stack, pc, ref) /\ pc \in Place /\ pc.at = "code" /\ pc.func \in Func
      /\ Len(Chain) = Len(stack) /\ Len(stack) \in Nat \ {0} /\ stack # <<>> /\ stack \in Seq(Words)
      /\ Last(Chain) = pc /\ Service!Running /\ Above(stack) = FrameSize[pc.func]
  BY <1>1, Here
<1>3. Popped(FrameDropped(stack, pc.func)) = [word |-> w, rest |-> s]
  BY <1>2, FramePopped
<1>4. ReturnTo(w, s)
  BY <1>3 DEF Return
<1>5. RetValue' = "Success"
  BY <1>4 DEF ReturnTo
<1>6. Service!Running /\ Service!Top.pos > Len(Code[Service!Top.func])
  BY <1>1, <1>2, SameProgram
<1>7. RestOK /\ w = stack[Len(stack)].ret
  BY InvRest DEF Last
<1> HIDE DEF w, s
<1>8. CASE w = Outside
  <2>1. stack' = <<>> /\ pc' = Host /\ status' = "Success" /\ UNCHANGED ref
    BY <1>4, <1>8 DEF ReturnTo, Ends, Outside
  <2>2. RestOK'
    <3>1. Len(<<>>) = 0
      OBVIOUS
    <3>2. left + 0 <= MaxDepth
      BY <1>7, DepthAssumption DEF RestOK
    <3> QED
      BY <1>1, <1>5, <1>7, <2>1, <3>1, <3>2 DEF RestOK
  <2>3. CallInv' /\ Chain' = <<>>
    BY <2>1, <2>2, OutsideInv
  <2>4. Len(Chain) = 1
    <3>1. Len(stack) \in 1..Len(stack)
      BY <1>2
    <3> QED
      BY <1>2, <1>7, <1>8, <3>1 DEF Good, Proper
  <2>5. Service!Return
    BY <1>1, <1>6, <2>1, <2>3, <2>4 DEF Service!Return
  <2> QED
    BY <2>3, <2>5
<1>9. CASE w # Outside
  <2>1. /\ Len(stack) >= 2 /\ w \in Links /\ w = Chain[Len(stack) - 1]
    BY <1>2, <1>9, UnderCode DEF Chain, w
  <2>2. Service!Left = w /\ Len(Chain) > 1
    BY <1>2, <2>1 DEF Service!Left
  <2>3. CASE w.at = "code"
    <3> DEFINE s2 == WithAbove(Front(stack), Above(Front(stack)) - Pushed(w))
               q == At(w.func, w.pos + 1)
    <3>1. pc' = q /\ stack' = s2 /\ UNCHANGED <<ref, status>>
      BY <1>4, <1>9, <2>3 DEF ReturnTo, s
    <3>2. Pushed(w) \in Nat
      BY <2>1, <2>3, PushedNat DEF Links, Sections
    <3>3. Shrinks(s2, q, ref', stack, pc, ref, 1)
      BY <1>2, <1>9, <2>3, <3>2, ReturnStep DEF w
    <3> HIDE DEF s2
    <3>4. /\ Good(stack', pc', ref') /\ Len(stack') = Len(stack) - 1
          /\ Chain' = Append(Front(Front(Chain)), pc')
      BY <3>1, <3>3 DEF Shrinks, Chain
    <3>5. RestOK'
      <4>1. left' + Len(stack') <= MaxDepth
        BY <1>1, <1>2, <1>7, <3>4, DepthAssumption DEF RestOK
      <4> QED
        BY <1>1, <1>5, <1>7, <3>1, <4>1 DEF RestOK
    <3>6. Service!Return
      <4>1. Service!Advanced(w) = q
        BY <2>3, SameProgram
      <4> QED
        BY <1>1, <1>6, <2>2, <3>1, <3>4, <4>1, SameProgram DEF Service!Return
    <3> QED
      BY <3>4, <3>5, <3>6, GoodInv
  <2>4. CASE w.at = "unwinding"
    <3> DEFINE q == Section(w.func, w.next + 1)
    <3>1. /\ Above(Front(stack)) = 0 /\ Last(Front(stack)).ret \in Place
          /\ Shrinks(Front(Front(stack)), q, Last(Front(stack)).ret, stack, pc, ref, 2)
      BY <1>2, <1>9, <2>4, BackStep DEF w
    <3>2. Popped(s) = [word |-> Last(Front(stack)).ret, rest |-> Front(Front(stack))]
      BY <3>1 DEF Popped, s
    <3>3. pc' = q /\ ref' = Popped(s).word /\ stack' = Popped(s).rest /\ UNCHANGED status
      BY <1>4, <1>9, <2>4 DEF ReturnTo
    <3>4. ref' = Last(Front(stack)).ret /\ stack' = Front(Front(stack)) /\ ref' \in Place
      BY <3>1, <3>2, <3>3
    <3>5. /\ Good(stack', pc', ref') /\ Len(stack') = Len(stack) - 2
          /\ Chain' = Append(Front(Front(Chain)), pc')
      BY <3>1, <3>3, <3>4 DEF Shrinks, Chain
    <3>6. RestOK'
      <4>1. left' + Len(stack') <= MaxDepth
        BY <1>1, <1>2, <1>7, <3>5, DepthAssumption DEF RestOK
      <4> QED
        BY <1>1, <1>5, <1>7, <3>3, <3>4, <4>1 DEF RestOK
    <3>7. Service!Return
      <4>1. Service!Advanced(w) = q
        BY <2>4, SameProgram
      <4> QED
        BY <1>1, <1>6, <2>2, <3>3, <3>5, <4>1, SameProgram DEF Service!Return
    <3> QED
      BY <3>5, <3>6, <3>7, GoodInv
  <2> QED
    BY <2>1, <2>3, <2>4, LinkKinds
<1> QED
  BY <1>8, <1>9

\* Where a panicking call is, nothing is pushed.
LEMMA NothingPushed ==
    ASSUME Tame, NEW a \in Place, Panicking(a)
    PROVE  Pushed(a) = 0
<1>1. a.pos <= Len(Code[a.func])
  BY DEF Panicking, Is
<1>2. a.pos \in 1..Len(Code[a.func]) /\ a.func \in Func
  BY <1>1, StepKinds
<1>3. CASE StepAt(a).op = "throw"
  BY <1>3 DEF Pushed, Calls, Is
<1>4. CASE StepAt(a).op = "call" /\ StepAt(a).func \in MayPanic
  <2>1. StepAt(a).pushed = 0
    BY <1>2, <1>4 DEF Tame, StepAt
  <2> QED
    BY <2>1 DEF Pushed
<1> QED
  BY <1>3, <1>4 DEF Panicking, Is

\* Where an unwinding is, in its chain.
LEMMA HereUnwinding ==
    ASSUME CallInv, InUnwinding, Tame
    PROVE  /\ Good(stack, pc, ref) /\ pc \in Links /\ pc.at = "unwinding" /\ pc # Host
           /\ pc.func \in Func /\ pc.next \in Nat \ {0} /\ pc.func = ref.func
           /\ Chain # <<>> /\ Last(Chain) = pc /\ Len(Chain) = Len(stack) + 1 /\ Service!Unwinding
           /\ Service!Left = ref /\ ref \in Place /\ Pushed(ref) = 0
           /\ Len(stack) \in Nat \ {0} /\ stack # <<>> /\ stack \in Seq(Words)
           /\ Above(stack) = FrameSize[pc.func]
<1>1. pc.at = "unwinding" /\ pc # Host
  BY DEF InUnwinding, Host
<1>2. Good(stack, pc, ref) /\ pc \in Links /\ pc.func \in Func /\ pc.next \in Nat \ {0}
  BY <1>1, InvGood
<1>3. /\ Last(Chain) = pc /\ Len(Chain) = Len(stack) + 1 /\ Len(stack) \in Nat \ {0}
      /\ Chain[Len(stack)] = ref
      /\ ref \in Place /\ Panicking(ref) /\ pc.func = ref.func
      /\ Above(stack) = FrameSize[ref.func] + Pushed(ref)
  BY <1>1, <1>2, TopUnwinding DEF Chain
<1>4. Pushed(ref) = 0
  BY <1>3, NothingPushed
<1>5. Above(stack) = FrameSize[pc.func]
  <2>1. FrameSize[pc.func] \in Nat
    BY <1>2, ProgramAssumption
  <2> QED
    BY <1>3, <1>4, <2>1
<1>6. Chain # <<>>
  <2>1. Len(Chain) # 0
    BY <1>3
  <2> QED
    BY <2>1
<1>7. Service!Unwinding
  BY <1>1, <1>3, <1>6, SameProgram DEF Service!Unwinding
<1>8. Service!Left = ref
  <2>1. Len(Chain) - 1 = Len(stack)
    BY <1>3
  <2> QED
    BY <1>3, <2>1 DEF Service!Left
<1>9. stack # <<>> /\ stack \in Seq(Words)
  BY <1>2 DEF Good, Proper
<1> QED
  BY <1>1, <1>2, <1>3, <1>4, <1>5, <1>6, <1>7, <1>8, <1>9

LEMMA ThrowExceptionStep ==
    ASSUME Tame
    PROVE  CallInv /\ ThrowException => CallInv' /\ Service!Panic
<1> SUFFICES ASSUME CallInv, ThrowException PROVE CallInv' /\ Service!Panic
  OBVIOUS
<1>1. InCode /\ Is(pc, "throw") /\ UNCHANGED <<left, this>>
  BY DEF ThrowException
<1>2. /\ Good(stack, pc, ref) /\ pc \in Place /\ pc.at = "code" /\ pc.func \in Func
      /\ Last(Chain) = pc /\ Service!Running
  BY <1>1, Here
<1>3. pc.func \in MayPanic /\ FrameSize[pc.func] > 0
  <2>1. pc.pos \in 1..Len(Code[pc.func]) /\ StepAt(pc).op = "throw"
    BY <1>1, <1>2, StepKinds DEF Is
  <2> QED
    BY <1>2, <2>1 DEF Tame, StepAt
<1>4. InCode /\ Is(pc, "throw") /\ Unwind(pc, stack, <<>>) /\ UNCHANGED <<left, this>>
  BY <1>1, <1>3 DEF ThrowException
<1>5. Panicking(pc)
  BY <1>4, <1>3 DEF Panicking
<1>6. pc.func \in Listed /\ Pushed(pc) = 0
  BY <1>2, <1>3, <1>5, NothingPushed DEF Tame
<1>7. /\ ref' = pc /\ pc' = Section(pc.func, 1) /\ stack' = stack /\ panic' = Append(<<>>, pc)
      /\ UNCHANGED <<RetValue, status>>
  BY <1>4, <1>2, <1>6 DEF Unwind, Outside, Data
<1>8. Good(stack', pc', ref') /\ Chain' = Append(Chain, pc')
  BY <1>2, <1>5, <1>6, <1>7, PanicStep DEF Chain
<1>9. panic' = <<pc>>
  BY <1>7
<1>10. RestOK'
  BY <1>4, <1>2, <1>7, <1>9, InvRest DEF RestOK
<1>11. Service!Panic
  BY <1>4, <1>2, <1>7, <1>8, <1>9, SameProgram DEF Service!Panic
<1> QED
  BY <1>8, <1>10, <1>11, GoodInv

LEMMA CleanUpVarStep ==
    ASSUME Tame
    PROVE  CallInv /\ CleanUpVar => CallInv' /\ Service!CleanUp
<1> SUFFICES ASSUME CallInv, CleanUpVar PROVE CallInv' /\ Service!CleanUp
  OBVIOUS
<1> DEFINE d == Code[pc.func][pc.next]
<1>1. InUnwinding /\ pc.next <= Len(Code[pc.func]) /\ UNCHANGED <<left, panic, RetValue, status>>
  BY DEF CleanUpVar
<1>2. /\ Good(stack, pc, ref) /\ pc.at = "unwinding" /\ pc.func \in Func /\ pc.next \in Nat \ {0}
      /\ pc.func = ref.func /\ Last(Chain) = pc /\ Len(Chain) = Len(stack) + 1 /\ Service!Unwinding
      /\ Service!Left = ref /\ ref \in Place /\ Pushed(ref) = 0 /\ Len(stack) \in Nat \ {0}
      /\ Above(stack) = FrameSize[pc.func]
  BY <1>1, HereUnwinding
<1>3. RestOK
  BY InvRest
<1>4. CleansUp(ref, pc.next) <=> Service!Alive(Service!Left, Service!Top.next)
  BY <1>2, SameProgram DEF CleansUp, Service!Alive
<1>5. CASE CleansUp(ref, pc.next)
  <2>1. /\ Room(2) /\ this' = [frame |-> Len(stack), slot |-> Above(stack) - (FrameSize[pc.func] - d.slot)]
        /\ stack' = Entered(Append(stack, [ret |-> ref, above |-> 0]), pc, d.func)
        /\ pc' = At(d.func, 1) /\ ref' = Host
    BY <1>5 DEF CleanUpVar
  <2>2. d.op = "drop" /\ d.func \in Func /\ d.slot \in Nat
    <3>1. d.op = "drop"
      BY <1>2, <1>5 DEF CleansUp
    <3>2. Code[pc.func] \in Seq(Step)
      BY <1>2, ProgramAssumption
    <3>3. pc.next \in 1..Len(Code[pc.func])
      <4>1. Len(Code[pc.func]) \in Nat
        BY <3>2, LenProperties
      <4> QED
        BY <1>1, <1>2, <4>1
    <3>4. d \in Step
      BY <3>2, <3>3, ElementOfSeq
    <3> QED
      BY <3>1, <3>4 DEF Step
  <2>3. Destructor(pc, d.func)
    BY <1>1, <2>2 DEF Destructor
  <2>4. Good(stack', pc', ref') /\ Len(stack') = Len(stack) + 2 /\ Chain' = Append(Chain, pc')
    <3> DEFINE g == d.func
               s2 == Entered(Append(stack, [ret |-> ref, above |-> 0]), pc, g)
    <3>1. stack' = s2 /\ pc' = At(g, 1)
      BY <2>1
    <3>2. g \in Func /\ Destructor(pc, g)
      BY <2>2, <2>3
    <3> HIDE DEF g
    <3>3. Grows(s2, At(g, 1), ref', stack, pc, ref, 2)
      BY <1>2, <3>2, DestroyStep
    <3> HIDE DEF s2
    <3> QED
      BY <3>1, <3>3 DEF Grows, Chain
  <2>5. this' = [frame |-> Len(stack), slot |-> d.slot]
    <3>1. FrameSize[pc.func] \in Nat
      BY <1>2, ProgramAssumption
    <3> HIDE DEF d
    <3>2. Above(stack) - (FrameSize[pc.func] - d.slot) = d.slot
      BY <1>2, <2>2, <3>1
    <3> QED
      BY <2>1, <3>2
  <2>6. RestOK'
    <3>1. left' + Len(stack') <= MaxDepth
      <4>1. left' = left /\ left \in Nat /\ Len(stack) \in Nat /\ Len(stack') = Len(stack) + 2
        BY <1>1, <1>2, <1>3, <2>4 DEF RestOK
      <4>2. left + Len(stack) + 2 <= MaxDepth
        BY <2>1 DEF Room
      <4> QED
        BY <4>1, <4>2, DepthAssumption
    <3>2. this' \in [frame : Nat, slot : Int]
      BY <1>2, <2>2, <2>5
    <3> QED
      BY <1>1, <1>3, <2>1, <3>1, <3>2 DEF RestOK
  <2>7. Service!CleanUp
    <3>1. Len(Chain) - 1 = Len(stack)
      BY <1>2
    <3>2. Service!Top = pc
      BY <1>2, SameProgram
    <3> QED
      BY <1>1, <1>2, <1>4, <1>5, <2>1, <2>4, <2>5, <3>1, <3>2, SameProgram DEF Service!CleanUp
  <2> QED
    BY <2>4, <2>6, <2>7, GoodInv
<1>6. CASE ~CleansUp(ref, pc.next)
  <2>1. pc' = Section(pc.func, pc.next + 1) /\ UNCHANGED <<stack, ref, this>>
    BY <1>6 DEF CleanUpVar
  <2>2. pc' \in Links /\ pc'.at = pc.at /\ pc'.func = pc.func
    BY <1>2, <2>1, NewLinks
  <2>3. Good(stack', pc', ref') /\ Chain' = Append(Front(Chain), pc')
    BY <1>2, <2>1, <2>2, MoveStep DEF Chain
  <2>4. RestOK'
    BY <1>1, <1>3, <2>1 DEF RestOK
  <2>5. Service!CleanUp
    <3>1. Service!Top = pc /\ Service!Advanced(pc) = pc'
      BY <1>2, <2>1, SameProgram
    <3> QED
      BY <1>1, <1>2, <1>4, <1>6, <2>1, <2>3, <3>1, SameProgram DEF Service!CleanUp
  <2> QED
    BY <2>3, <2>4, <2>5, GoodInv
<1> QED
  BY <1>5, <1>6

LEMMA NextFrameStep ==
    ASSUME Tame
    PROVE  CallInv /\ NextFrame => CallInv' /\ Service!NextFrame
<1> SUFFICES ASSUME CallInv, NextFrame PROVE CallInv' /\ Service!NextFrame
  OBVIOUS
<1> DEFINE w == Last(stack).ret
           s == Front(stack)
           below == Front(Front(Chain))
<1>1. InUnwinding /\ pc.next > Len(Code[pc.func]) /\ UNCHANGED <<left, this>>
  BY DEF NextFrame
<1>2. /\ Good(stack, pc, ref) /\ pc.at = "unwinding" /\ pc.func \in Func
      /\ Last(Chain) = pc /\ Len(Chain) = Len(stack) + 1 /\ Service!Unwinding
      /\ Len(stack) \in Nat \ {0} /\ stack # <<>> /\ stack \in Seq(Words)
      /\ Above(stack) = FrameSize[pc.func]
  BY <1>1, HereUnwinding
<1>3. Unwind(w, s, panic)
  <2>1. Popped(FrameDropped(stack, pc.func)) = [word |-> w, rest |-> s]
    BY <1>2, FramePopped
  <2> QED
    BY <2>1 DEF NextFrame
<1>4. Service!Unwinding /\ Service!Top.next > Len(Code[Service!Top.func])
  BY <1>1, <1>2, SameProgram
<1>5. RestOK /\ w = stack[Len(stack)].ret
  BY InvRest DEF Last
<1>6. CASE w = Outside
  <2>1. /\ stack' = <<>> /\ pc' = Host /\ status' = RetValue /\ panic' = panic
        /\ UNCHANGED <<ref, RetValue>>
    BY <1>3, <1>6 DEF Unwind, Ends, Outside, Data
  <2>2. RestOK'
    <3>1. Len(<<>>) = 0
      OBVIOUS
    <3>2. left + 0 <= MaxDepth
      BY <1>5, DepthAssumption DEF RestOK
    <3> QED
      BY <1>1, <1>5, <2>1, <3>1, <3>2 DEF RestOK
  <2>3. CallInv' /\ Chain' = <<>>
    BY <2>1, <2>2, OutsideInv
  <2>4. below = <<>>
    <3>1. Len(stack) = 1
      <4>1. Len(stack) \in 1..Len(stack)
        BY <1>2
      <4> QED
        BY <1>2, <1>5, <1>6, <4>1 DEF Good, Proper
    <3>2. Chain \in Seq(Links) /\ Len(Chain) = 2 /\ Chain # <<>>
      BY <1>2, <3>1, ChainFacts DEF Good, Chain
    <3>3. Front(Chain) \in Seq(Links) /\ Len(Front(Chain)) = 1
      <4>1. Front(Chain) \in Seq(Links) /\ Len(Front(Chain)) = Len(Chain) - 1
        BY <3>2, FrontFacts
      <4>2. Len(Chain) - 1 = 1
        BY <3>2
      <4> QED
        BY <4>1, <4>2
    <3>4. Front(Chain) # <<>>
      BY <3>3, EmptySeq
    <3>5. below \in Seq(Links) /\ Len(below) = 0
      BY <3>3, <3>4, FrontFacts
    <3> QED
      BY <3>5, EmptySeq
  <2>5. Service!NextFrame
    <3>1. status' \in {"Null", "Success"}
      BY <1>5, <2>1 DEF RestOK
    <3> HIDE DEF below
    <3>2. Service!Front(Service!Front(Chain)) = <<>>
      BY <2>4, SameProgram DEF below
    <3> QED
      BY <1>1, <1>4, <2>1, <2>3, <3>1, <3>2 DEF Service!NextFrame
  <2> QED
    BY <2>3, <2>5
<1>7. CASE w # Outside
  <2>1. /\ w.at = "code" /\ w \in Place /\ w.func \in Listed
        /\ w = Last(below) /\ below # <<>>
        /\ Shrinks(s, Section(w.func, 1), w, stack, pc, ref, 1)
    BY <1>2, <1>7, NextStep DEF Chain
  <2> HIDE DEF w, s, below
  <2>2. /\ ref' = w /\ pc' = Section(w.func, 1) /\ stack' = s /\ panic' = Append(panic, w)
        /\ UNCHANGED <<RetValue, status>>
    BY <1>3, <1>7, <2>1 DEF Unwind, Data
  <2>3. Good(stack', pc', ref') /\ Len(stack') = Len(stack) - 1 /\ Chain' = Append(below, pc')
    BY <2>1, <2>2 DEF Shrinks, Chain, below
  <2>4. RestOK'
    <3>1. left' + Len(stack') <= MaxDepth
      BY <1>1, <1>2, <1>5, <2>3, DepthAssumption DEF RestOK
    <3>2. panic' \in Seq(Place \cup {[at |-> "none"]})
      BY <1>5, <2>1, <2>2 DEF RestOK
    <3> QED
      BY <1>1, <1>5, <2>1, <2>2, <3>1, <3>2 DEF RestOK
  <2>5. Service!NextFrame
    <3>1. Service!Front(Service!Front(Chain)) = below
      BY SameProgram DEF below
    <3> QED
      BY <1>1, <1>4, <2>1, <2>2, <2>3, <3>1, SameProgram DEF Service!NextFrame
  <2> QED
    BY <2>3, <2>4, <2>5, GoodInv
<1> QED
  BY <1>6, <1>7

LEMMA ThrowStackOverflowStep == CallInv /\ ThrowStackOverflow => CallInv' /\ Service!Exception
<1> SUFFICES ASSUME CallInv, ThrowStackOverflow PROVE CallInv' /\ Service!Exception
  OBVIOUS
<1>1. /\ left' = left + Len(stack) /\ stack' = <<>> /\ pc' = Host /\ status' = "exception"
      /\ UNCHANGED <<ref, this, panic, RetValue>>
  BY DEF ThrowStackOverflow
<1>2. pc # Host
  BY DEF ThrowStackOverflow, InCode, InUnwinding, Host
<1>3. Good(stack, pc, ref)
  BY <1>2, InvGood
<1>4. Chain # <<>> /\ Len(stack) \in Nat
  BY <1>3, ChainFacts DEF Good, Chain
<1>5. RestOK'
  <2>1. left + Len(stack) <= MaxDepth /\ left \in Nat /\ RestOK
    BY InvRest DEF RestOK
  <2>2. left' \in 0..MaxDepth /\ left' + 0 <= MaxDepth
    BY <1>1, <1>4, <2>1, DepthAssumption
  <2>3. Len(stack') = 0
    BY <1>1
  <2> QED
    BY <1>1, <2>1, <2>2, <2>3 DEF RestOK
<1>6. CallInv' /\ Chain' = <<>>
  BY <1>1, <1>5, OutsideInv
<1>7. Service!Exception
  BY <1>1, <1>4, <1>6 DEF Service!Exception
<1> QED
  BY <1>6, <1>7

LEMMA InitStep == Init => CallInv /\ Service!ServiceInit
<1> SUFFICES ASSUME Init PROVE CallInv /\ Service!ServiceInit
  OBVIOUS
<1>1. /\ stack = <<>> /\ left = 0 /\ pc = Host /\ ref = Host /\ this = Nothing
      /\ panic = NoPanic /\ RetValue = "Null" /\ status = "none"
  BY DEF Init
<1>2. Chain = <<>>
  BY <1>1, NoChain DEF Chain
<1>3. TypeOK
  BY <1>1, DepthAssumption DEF TypeOK, Nothing, NoPanic
<1>4. StackOK
  <2>1. Len(<<>>) = 0
    OBVIOUS
  <2> QED
    BY <1>1, <2>1, DepthAssumption DEF StackOK, InUnwinding, Host
<1>5. Linked(Chain) /\ Aligned
  BY <1>1, <1>2 DEF Linked, Aligned
<1>6. Service!ServiceInit
  BY <1>1, <1>2 DEF Service!ServiceInit, NoPanic, Nothing, Service!NoPanic, Service!Nothing
<1> QED
  BY <1>3, <1>4, <1>5, <1>6 DEF CallInv

LEMMA StutterStep == CallInv /\ UNCHANGED vars => CallInv' /\ UNCHANGED Service!serviceVars
<1> SUFFICES ASSUME CallInv, UNCHANGED vars PROVE CallInv' /\ UNCHANGED Service!serviceVars
  OBVIOUS
<1>1. UNCHANGED <<stack, left, pc, ref, this, panic, RetValue, status>>
  BY DEF vars
<1>2. Chain' = Chain
  BY <1>1 DEF Chain
<1> QED
  BY <1>1, <1>2 DEF CallInv, TypeOK, StackOK, InUnwinding, Linked, Aligned, Service!serviceVars

\* Each step of a tame program keeps the invariant and is one of CallService.
LEMMA EachStep ==
    ASSUME Tame
    PROVE  CallInv /\ [Next]_vars => CallInv' /\ [Service!ServiceNext]_(Service!serviceVars)
<1> SUFFICES ASSUME CallInv, [Next]_vars
             PROVE  CallInv' /\ (Service!ServiceNext \/ UNCHANGED Service!serviceVars)
  OBVIOUS
<1>1. CASE Call
  BY <1>1, CallStep DEF Service!ServiceNext
<1>2. CASE Go
  BY <1>2, GoStep DEF Service!ServiceNext
<1>3. CASE CallFunc
  BY <1>3, CallFuncStep DEF Service!ServiceNext
<1>4. CASE CleanupFuncCall
  BY <1>4, CleanupFuncCallStep DEF Service!ServiceNext
<1>5. CASE Return
  BY <1>5, ReturnCallStep DEF Service!ServiceNext
<1>6. CASE ThrowException
  BY <1>6, ThrowExceptionStep DEF Service!ServiceNext
<1>7. CASE CleanUpVar
  BY <1>7, CleanUpVarStep DEF Service!ServiceNext
<1>8. CASE NextFrame
  BY <1>8, NextFrameStep DEF Service!ServiceNext
<1>9. CASE ThrowStackOverflow
  BY <1>9, ThrowStackOverflowStep DEF Service!ServiceNext
<1>10. CASE UNCHANGED vars
  BY <1>10, StutterStep
<1> QED
  BY <1>1, <1>2, <1>3, <1>4, <1>5, <1>6, <1>7, <1>8, <1>9, <1>10 DEF Next, Extecute

-----------------------------------------------------------------------------
(* The theorems.                                                           *)

LEMMA Invariance ==
    ASSUME Tame
    PROVE  Spec => []CallInv
<1>1. Init => CallInv
  BY InitStep
<1>2. CallInv /\ [Next]_vars => CallInv'
  BY EachStep
<1> QED
  BY <1>1, <1>2, PTL DEF Spec

\* In every tame program, control never goes where a word that is not a return
\* address says, whatever the program calls, returns from and throws (LinkFuncs).
THEOREM ControlStays ==
    ASSUME Tame
    PROVE  Spec => []TypeOK
<1>1. CallInv => TypeOK
  BY DEF CallInv
<1> QED
  BY <1>1, Invariance, PTL

\* In every tame program there is above each return address what its function and
\* its pending call put there, through calls, returns, panics and destructors
\* (FuncCallStart, FuncCallEnd, DropStack, LinkFuncs).
THEOREM StackAligned ==
    ASSUME Tame
    PROVE  Spec => []Aligned
<1>1. CallInv => Aligned
  BY DEF CallInv
<1> QED
  BY <1>1, Invariance, PTL

\* The stack of words and StackUnwinding give a tame program what CallService
\* promises: calls return to their callers, a panic destroys what there is, once
\* and through a pointer to it, and is told to the host call by call.
THEOREM InterpreterImplementsService ==
    ASSUME Tame
    PROVE  Spec => ImplementsCallService
<1>1. Init => Service!ServiceInit
  BY InitStep
<1>2. CallInv /\ [Next]_vars => [Service!ServiceNext]_(Service!serviceVars)
  BY EachStep
<1> QED
  BY <1>1, <1>2, Invariance, PTL DEF Spec, ImplementsCallService, Service!ServiceSpec

=============================================================================
