----------------------------- MODULE AccessPolicy -----------------------------
(***************************************************************************)
(* What the protection list promises to the system-call hooks, with no     *)
(* memory and no pointers: a sequence of rules that is withdrawn as a      *)
(* whole and then grows at its end, and checks that are answered in one    *)
(* step from the rules of that moment.  A check that is open while the     *)
(* rules are being withdrawn is disturbed; nothing is promised to it.  One *)
(* that is not may still die instead of being refused, when there is no    *)
(* memory to say so; one that no rule refuses is answered.                 *)
(***************************************************************************)
EXTENDS Naturals, Sequences

CONSTANTS
  Callers,      \* who asks
  Requests,     \* what they may ask
  Rule,         \* what can be in force
  Match(_, _),  \* a request falls under a rule
  MessageOf(_), \* what the log says of the rule that refused a call
  Switchable(_),\* the request is not checked while protection is off
  Unanswerable(_), \* checking the request kills the caller
  NULL

VARIABLES
  rules,       \* the rules in force
  replacing,   \* they are being withdrawn
  enabled,     \* the protection switch
  call         \* per caller: the check it is in

vars == <<rules, replacing, enabled, call>>

Idle == [phase |-> "idle", q |-> NULL, disturbed |-> FALSE,
         refused |-> FALSE, message |-> NULL]

Init ==
  /\ rules = <<>> /\ replacing = FALSE /\ enabled = TRUE
  /\ call = [c \in Callers |-> Idle]

-----------------------------------------------------------------------------
IsFirstMatch(q, i) ==
  /\ Match(q, rules[i])
  /\ \A j \in 1 .. i - 1 : ~Match(q, rules[j])

\* The one right answer: refuse by the first rule the request falls under and
\* say which; let it pass when there is none.
Right(q, answer) ==
  \/ \E i \in DOMAIN rules :
       /\ IsFirstMatch(q, i)
       /\ answer = [refused |-> TRUE, message |-> MessageOf(rules[i])]
  \/ /\ \A i \in DOMAIN rules : ~Match(q, rules[i])
     /\ answer = [refused |-> FALSE, message |-> NULL]

Withdraw ==
  /\ rules' = <<>>
  /\ replacing' = TRUE
  /\ \E C \in SUBSET {c \in Callers : call[c].phase = "open"} :
       call' = [c \in Callers |->
                  [call[c] EXCEPT !.disturbed = @ \/ c \in C]]
  /\ UNCHANGED enabled

Settle ==
  /\ replacing
  /\ replacing' = FALSE
  /\ UNCHANGED <<rules, enabled, call>>

Extend ==
  /\ ~replacing
  /\ \E rule \in Rule : rules' = Append(rules, rule)
  /\ UNCHANGED <<replacing, enabled, call>>

Switch ==
  /\ enabled' \in BOOLEAN
  /\ UNCHANGED <<rules, replacing, call>>

Ask(c, q) ==
  /\ call[c].phase = "idle"
  /\ call' = [call EXCEPT ![c].q = q,
                          ![c].phase = IF Switchable(q) /\ ~enabled THEN "closed"
                                       ELSE IF Unanswerable(q) THEN "dead"
                                       ELSE "open"]
  /\ UNCHANGED <<rules, replacing, enabled>>

Disturb(c) ==
  /\ replacing
  /\ call[c].phase = "open"
  /\ call' = [call EXCEPT ![c].disturbed = TRUE]
  /\ UNCHANGED <<rules, replacing, enabled>>

Close(c) ==
  /\ call[c].phase = "open"
  /\ \E d \in BOOLEAN, refused \in BOOLEAN, m \in {NULL} \cup {MessageOf(e) : e \in Rule} :
       /\ call' = [call EXCEPT ![c].phase = "closed", ![c].disturbed = d,
                               ![c].refused = refused, ![c].message = m]
       /\ IF call[c].disturbed \/ replacing
          THEN d
          ELSE ~d /\ Right(call[c].q, [refused |-> refused, message |-> m])
  /\ UNCHANGED <<rules, replacing, enabled>>

\* A check dies of the disturbance; or of a lack of memory, if a rule refuses it.
Die(c) ==
  /\ call[c].phase = "open"
  /\ call[c].disturbed \/ \E i \in DOMAIN rules : Match(call[c].q, rules[i])
  /\ call' = [call EXCEPT ![c].phase = "dead"]
  /\ UNCHANGED <<rules, replacing, enabled>>

Forget(c) ==
  /\ call[c].phase \in {"closed", "dead"}
  /\ call' = [call EXCEPT ![c] = Idle]
  /\ UNCHANGED <<rules, replacing, enabled>>

Next ==
  \/ Withdraw \/ Settle \/ Extend \/ Switch
  \/ \E c \in Callers :
       \/ Disturb(c) \/ Close(c) \/ Die(c) \/ Forget(c)
       \/ \E q \in Requests : Ask(c, q)

Spec == Init /\ [][Next]_vars
=============================================================================
