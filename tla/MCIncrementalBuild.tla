------------------------- MODULE MCIncrementalBuild -------------------------
(***************************************************************************)
(* IncrementalBuild on small instances: a chain of source files a, b, c,   *)
(* where c uses b, and b uses a and the library x when it holds 2.         *)
(***************************************************************************)
EXTENDS IncrementalBuildInvariant

CONSTANTS a, b, c, x

ChainUses ==
    [f \in Source |-> [n \in Content |->
        CASE f = a -> {}
          [] f = b -> IF n = 2 THEN (Source \intersect {a}) \union External ELSE {}
          [] f = c -> {b}]]

ASSUME AcyclicAssumption == Acyclic

\* Contents 1 and 2 have the same size.
SizeOfContent == [n \in Content |-> IF n = 3 THEN 5 ELSE 4]

\* Content 1 is that of an empty file.
SizeWithEmpty == [n \in Content |-> n - 1]
=============================================================================
