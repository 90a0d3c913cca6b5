------------------------------- MODULE RuleBook -------------------------------
(***************************************************************************)
(* What the manager of User/complexuser.c shows its operator: numbered     *)
(* lists of files, one per running manager.  An order adds a file at the   *)
(* end or removes the entry with a given number, counted from 0; the list  *)
(* is then written to the kernel, and only after that comes the next       *)
(* order.  A manager that ends takes its list along.                       *)
(***************************************************************************)
EXTENDS Integers, Sequences, SequencesExt

CONSTANTS Managers, File, NULL

VARIABLES
  running,
  files,   \* the list of every manager
  order    \* what its operator asked for and was not written yet, or NULL

vars == <<running, files, order>>

Addition(f)     == [kind |-> "add", file |-> f]
Removal(number) == [kind |-> "remove", number |-> number]

Orders == [kind : {"add"}, file : File] \cup [kind : {"remove"}, number : Int]

\* What an order makes of a list; a number that is not in it removes nothing.
Obeyed(list, o) ==
  CASE o.kind = "add" -> Append(list, o.file)
    [] o.kind = "remove" /\ o.number \in 0 .. Len(list) - 1 -> RemoveAt(list, o.number + 1)
    [] OTHER -> list

Order(m) ==
  /\ m \in running /\ order[m] = NULL
  /\ order'[m] \in Orders
  /\ order' = [order EXCEPT ![m] = order'[m]]
  /\ files' = [files EXCEPT ![m] = Obeyed(@, order'[m])]
  /\ UNCHANGED running

Written(m) ==
  /\ m \in running
  /\ order' = [order EXCEPT ![m] = NULL]
  /\ UNCHANGED <<running, files>>

Begin(m) ==
  /\ m \notin running /\ running' = running \cup {m}
  /\ UNCHANGED <<files, order>>

End(m) ==
  /\ m \in running /\ running' = running \ {m}
  /\ files' = [files EXCEPT ![m] = <<>>]
  /\ order' = [order EXCEPT ![m] = NULL]

Init ==
  /\ running = {}
  /\ files = [m \in Managers |-> <<>>]
  /\ order = [m \in Managers |-> NULL]

Next == \E m \in Managers : Order(m) \/ Written(m) \/ Begin(m) \/ End(m)

Spec == Init /\ [][Next]_vars
=============================================================================
