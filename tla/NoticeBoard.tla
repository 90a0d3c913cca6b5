------------------------------ MODULE NoticeBoard ------------------------------
(***************************************************************************)
(* What a receiver of notifications shows its user: lines, each of them a  *)
(* message that was not shown before, and of every sender in the order it  *)
(* sent them; messages may be missing.  A line may be shown again when     *)
(* something was missed, once for each time messages began to be missed.   *)
(***************************************************************************)
EXTENDS Naturals, Sequences, FiniteSets

CONSTANTS
  Readers,
  Message,          \* what can be sent
  Before(_, _),     \* one sender's earlier and later message
  Blank             \* what is shown again when nothing was shown yet

VARIABLES
  shown,            \* per reader: the lines
  owed              \* how often it may still repeat itself

vars == <<shown, owed>>

Init == shown = [r \in Readers |-> <<>>] /\ owed = [r \in Readers |-> 0]

Show(r, m) ==
  /\ \A i \in DOMAIN shown[r] : shown[r][i] # m /\ ~Before(m, shown[r][i])
  /\ shown' = [shown EXCEPT ![r] = Append(@, m)]
  /\ UNCHANGED owed

Repeat(r) ==
  /\ owed[r] > 0
  /\ shown' = [shown EXCEPT ![r] = Append(@, IF @ = <<>> THEN Blank ELSE @[Len(@)])]
  /\ owed' = [owed EXCEPT ![r] = @ - 1]

Miss(r) ==
  /\ owed' = [owed EXCEPT ![r] = @ + 1]
  /\ UNCHANGED shown

\* Somebody else takes its place.
Leave(r) ==
  /\ shown' = [shown EXCEPT ![r] = <<>>]
  /\ owed' = [owed EXCEPT ![r] = 0]

Next ==
  \E r \in Readers : \/ Repeat(r) \/ Miss(r) \/ Leave(r)
                     \/ \E m \in Message : Show(r, m)

Spec == Init /\ [][Next]_vars
=============================================================================
