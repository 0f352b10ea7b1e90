----------------------------- MODULE Selection ------------------------------
(***************************************************************************)
(* The elements of a sequence that belong to a set, in their order.  It is *)
(* SelectSeq with a set in place of a test, and a recursive function that  *)
(* can be reasoned about.                                                  *)
(***************************************************************************)
EXTENDS Integers, Sequences

Only(s, G) ==
  LET only[i \in 0..Len(s)] ==
        IF i = 0 THEN <<>>
        ELSE IF s[i] \in G THEN Append(only[i - 1], s[i])
        ELSE only[i - 1]
  IN  only[Len(s)]
=============================================================================
