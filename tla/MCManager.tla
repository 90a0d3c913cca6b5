------------------------------- MODULE MCManager -------------------------------
(* A small instance of Manager.  "gone" does not open and is typed with a      *)
(* slash at its end; "protect", the /proc file, opens.                         *)
EXTENDS Manager

MCPath == {"", "gone", "protect"}
MCLookup == [p \in MCPath |-> IF p = "protect" THEN "i1" ELSE NULL]
MCTrim == [line \in Typed |-> IF line = "gone/" THEN "gone" ELSE line]

\* Three nodes in all are enough for a removal in the middle, and for a list
\* against another.
ThreeNodes == \A m \in Managers : \A o \in Managers \ {m} :
  Cardinality(allocated[m]) + Cardinality(allocated[o]) <= 3

Symmetric == Permutations(Managers) \cup Permutations(Cell)
=============================================================================
