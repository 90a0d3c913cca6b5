------------------------------ MODULE MCInodeLife ------------------------------
(* Two names and three files one after the other; the last has the number of  *)
(* the first.  Two addresses: what one file leaves the next one takes.         *)
EXTENDS InodeLife, TLC

MCIno == [f \in File |-> IF f = "f2" THEN 2 ELSE 1]

Symmetric == Permutations(Addr) \cup Permutations(Tasks) \cup Permutations(Paths)
=============================================================================
