-------------------------------- MODULE Manager --------------------------------
(***************************************************************************)
(* User/complexuser.c: the program an operator edits the protection list   *)
(* with.  It keeps a linked list of files (fileList_root, tail) and after  *)
(* every change writes the whole of it to /proc/gsfileprotection/protect.  *)
(* Several managers may run; each knows only its own list.  The kernel     *)
(* side is what a whole write comes to (ProtectList shows its steps), with *)
(* the hooked write in front of it: a rule on the /proc files themselves   *)
(* is obeyed too.                                                          *)
(***************************************************************************)
EXTENDS ManagerText, FiniteSets

CONSTANTS
  Managers,
  Cell,        \* the addresses malloc may hand out, in any process
  Typed,       \* what the operator types for a path
  Answers,     \* what the operator answers for a letter
  Trim,        \* a typed line without one ' ' and then one '/' at its end
  ProtectFile  \* the inode of /proc/gsfileprotection/protect

ASSUME ManagerAssumption ==
  /\ NULL \notin Cell \cup Managers /\ IsFiniteSet(Cell)
  /\ NewLine \notin Letter
  /\ Answers \subseteq Letter \cup {NewLine}
  /\ Trim \in [Typed -> Path]
  /\ ProtectFile \in Inode

VARIABLES
  up,               \* managers that run
  pc,               \* "menu", or "refresh": about to write the list
  fileList_root, tail,
  allocated,        \* the nodes, with
  next, file,       \* ... their fields
  rules,            \* what the kernel enforces
  protect_enabeled,
  renewed,          \* the /proc file has another inode than the rules know
  \* history, read by no guard
  inStep,           \* the manager whose list the kernel took last, unchanged since
  order             \* what the operator of a manager asked for and was not written yet

procVars == <<up, pc>>
listVars == <<fileList_root, tail, allocated, next, file>>
kernel   == <<rules, protect_enabeled, renewed>>
vars     == <<procVars, listVars, kernel, inStep, order>>

-----------------------------------------------------------------------------
(* The list of a manager.                                                  *)

\* The k-th node after the head.
Nth(m) ==
  LET nth[k \in 0 .. Cardinality(Cell)] ==
        IF k = 0 THEN fileList_root[m]
        ELSE LET before == nth[k - 1] IN IF before = NULL THEN NULL ELSE next[m][before]
  IN nth

\* The nodes next leads to, one more than there can be when it leads in a ring.
Nodes(m) ==
  LET nth == Nth(m)
      met == {k \in DOMAIN nth : nth[k] # NULL}
  IN [i \in 1 .. Cardinality(met) |-> nth[i - 1]]

Files(m) ==
  LET nodes == Nodes(m) IN [i \in DOMAIN nodes |-> file[m][nodes[i]]]

\* The numbered lists the operators are to see.
Book == INSTANCE RuleBook
  WITH running <- up, files <- [m \in Managers |-> Files(m)]

-----------------------------------------------------------------------------
\* "Slip" marks a mistake that could be made in the definition below it; only
\* the experiments with the properties use it.

\* addFile: a node for the line that was typed goes to the end.
AddFile(m, c, line, type) ==
  /\ m \in up /\ pc[m] = "menu"
  /\ c \notin allocated[m]
  /\ allocated' = [allocated EXCEPT ![m] = @ \cup {c}]
  /\ file' = [file EXCEPT ![m][c] = [path |-> Trim[line], type |-> type]]
  /\ IF tail[m] = NULL
     THEN /\ fileList_root' = [fileList_root EXCEPT ![m] = c]
          /\ next' = [next EXCEPT ![m][c] = NULL]
     ELSE /\ next' = [next EXCEPT ![m][c] = NULL, ![m][tail[m]] = c]
          /\ UNCHANGED fileList_root
  /\ tail' = [tail EXCEPT ![m] = c]
  /\ pc' = [pc EXCEPT ![m] = "refresh"]
  /\ inStep' = IF inStep = m THEN NULL ELSE inStep
  /\ order' = [order EXCEPT ![m] = Book!Addition([path |-> Trim[line], type |-> type])]
  /\ UNCHANGED <<up, kernel>>

NoFile == [path |-> "", type |-> ""]

\* free: what the node held is not to be read again.
Release(m, c) ==
  /\ allocated' = [allocated EXCEPT ![m] = @ \ {c}]
  /\ file' = [file EXCEPT ![m][c] = NoFile]

\* Slip: the tail keeps pointing at the node that was removed.
TailKept(m, before) == tail[m]
TailBack(m, before) == before

\* removeFile, entry 0.
RemoveHead(m) ==
  LET c == fileList_root[m] IN
  /\ m \in up /\ pc[m] = "menu"
  /\ c # NULL
  /\ fileList_root' = [fileList_root EXCEPT ![m] = next[m][c]]
  /\ tail' = [tail EXCEPT ![m] = IF c = @ THEN TailBack(m, NULL) ELSE @]
  /\ next' = [next EXCEPT ![m][c] = NULL]
  /\ Release(m, c)
  /\ pc' = [pc EXCEPT ![m] = "refresh"]
  /\ inStep' = IF inStep = m THEN NULL ELSE inStep
  /\ order' = [order EXCEPT ![m] = Book!Removal(0)]
  /\ UNCHANGED <<up, kernel>>

\* Slip: the count starts one short of the numbers that are shown.
CountShort(number) == number + 1
Count(number) == number

\* removeFile, a later entry.
RemoveLater(m, number) ==
  /\ m \in up /\ pc[m] = "menu"
  /\ number > 0 /\ Count(number) \in DOMAIN Nth(m) /\ Nth(m)[Count(number)] # NULL
  /\ LET before == Nth(m)[Count(number) - 1]
         c == Nth(m)[Count(number)]
     IN /\ next' = [next EXCEPT ![m][before] = next[m][c], ![m][c] = NULL]
        /\ tail' = [tail EXCEPT ![m] = IF c = @ THEN TailBack(m, before) ELSE @]
        /\ Release(m, c)
  /\ pc' = [pc EXCEPT ![m] = "refresh"]
  /\ inStep' = IF inStep = m THEN NULL ELSE inStep
  /\ order' = [order EXCEPT ![m] = Book!Removal(number)]
  /\ UNCHANGED <<up, fileList_root, kernel>>

\* removeFile, no such entry: the list is written all the same.
RemoveNothing(m, number) ==
  /\ m \in up /\ pc[m] = "menu"
  /\ fileList_root[m] # NULL
  /\ number \in DOMAIN Nth(m) => Nth(m)[number] = NULL
  /\ pc' = [pc EXCEPT ![m] = "refresh"]
  /\ order' = [order EXCEPT ![m] = Book!Removal(number)]
  /\ UNCHANGED <<up, listVars, kernel, inStep>>

\* is_fd_protected, for a write to protectfd.
Refused ==
  /\ protect_enabeled /\ ~renewed
  /\ \E i \in DOMAIN rules : rules[i].inode = ProtectFile /\ rules[i].type = "write"

\* Nobody looks at the result of refreshFileList's write, which the hook refused.
RefreshRefused(m) ==
  /\ m \in up /\ pc[m] = "refresh"
  /\ Refused
  /\ pc' = [pc EXCEPT ![m] = "menu"]
  /\ order' = [order EXCEPT ![m] = NULL]
  /\ UNCHANGED <<up, listVars, kernel, inStep>>

\* refreshFileList: the kernel installs what it accepts of the text.
Refresh(m) ==
  LET text == TextOf(Files(m)) IN
  /\ m \in up /\ pc[m] = "refresh"
  /\ ~Refused /\ ~Unparsable(text)
  /\ pc' = [pc EXCEPT ![m] = "menu"]
  /\ order' = [order EXCEPT ![m] = NULL]
  /\ rules' = Accepted(text)
  /\ renewed' = FALSE
  /\ inStep' = m
  /\ UNCHANGED <<up, listVars, protect_enabeled>>

\* The manager's memory is gone with it.
Gone(m) ==
  /\ up' = up \ {m}
  /\ pc' = [pc EXCEPT ![m] = "menu"]
  /\ order' = [order EXCEPT ![m] = NULL]
  /\ fileList_root' = [fileList_root EXCEPT ![m] = NULL]
  /\ tail' = [tail EXCEPT ![m] = NULL]
  /\ allocated' = [allocated EXCEPT ![m] = {}]
  /\ next' = [next EXCEPT ![m] = [c \in Cell |-> NULL]]
  /\ file' = [file EXCEPT ![m] = [c \in Cell |-> NoFile]]

\* A text too long for its page kills the manager inside the kernel, after the
\* rules that were.  (A manager's line without '@' is empty and opens nothing.)
RefreshDies(m) ==
  /\ m \in up /\ pc[m] = "refresh"
  /\ ~Refused /\ Unparsable(TextOf(Files(m)))
  /\ Gone(m)
  /\ rules' = <<>>
  /\ inStep' = NULL
  /\ UNCHANGED <<protect_enabeled, renewed>>

\* The operator quits, input ends in the middle of a dialog, or the program is
\* killed; the rules stay.
Quit(m) ==
  /\ m \in up
  /\ Gone(m)
  /\ inStep' = IF inStep = m THEN NULL ELSE inStep
  /\ UNCHANGED kernel

\* main: an empty list; what the kernel enforces is not read back.  The first
\* open of the /proc file may make a new inode for it.
Start(m) ==
  /\ m \notin up
  /\ up' = up \cup {m}
  /\ IF up = {} THEN renewed' \in {renewed, TRUE} ELSE UNCHANGED renewed
  /\ UNCHANGED <<pc, listVars, rules, protect_enabeled, inStep, order>>

\* Another program writes "enable" or "disable" to the control file, which the
\* managers never do.
Switch ==
  /\ protect_enabeled' \in BOOLEAN
  /\ UNCHANGED <<procVars, listVars, rules, renewed, inStep, order>>

Init ==
  /\ up = {} /\ pc = [m \in Managers |-> "menu"]
  /\ fileList_root = [m \in Managers |-> NULL] /\ tail = [m \in Managers |-> NULL]
  /\ allocated = [m \in Managers |-> {}]
  /\ next = [m \in Managers |-> [c \in Cell |-> NULL]]
  /\ file = [m \in Managers |-> [c \in Cell |-> NoFile]]
  /\ rules = <<>> /\ protect_enabeled = TRUE /\ renewed = FALSE
  /\ inStep = NULL /\ order = [m \in Managers |-> NULL]

ManagerStep(m) ==
  \/ \E c \in Cell, line \in Typed, type \in Answers : AddFile(m, c, line, type)
  \/ RemoveHead(m)
  \/ \E number \in 1 .. Cardinality(Cell) : RemoveLater(m, number)
  \/ \E number \in -1 .. Cardinality(Cell) : RemoveNothing(m, number)
  \/ RefreshRefused(m) \/ Refresh(m) \/ RefreshDies(m)
  \/ Quit(m) \/ Start(m)

Next == Switch \/ \E m \in Managers : ManagerStep(m)

Spec == Init /\ [][Next]_vars

-----------------------------------------------------------------------------
(* Properties.                                                             *)

\* Every variable has a value of its kind.
TypeOK ==
  /\ up \subseteq Managers /\ pc \in [Managers -> {"menu", "refresh"}]
  /\ fileList_root \in [Managers -> Cell \cup {NULL}]
  /\ tail \in [Managers -> Cell \cup {NULL}]
  /\ allocated \in [Managers -> SUBSET Cell]
  /\ next \in [Managers -> [Cell -> Cell \cup {NULL}]]
  /\ file \in [Managers -> [Cell -> [path : Path, type : Letter \cup {NewLine}]]]
  /\ rules \in Seq(Entry) /\ protect_enabeled \in BOOLEAN /\ renewed \in BOOLEAN
  /\ inStep \in Managers \cup {NULL}
  /\ order \in [Managers -> Book!Orders \cup {NULL}]

\* The list a manager adds to and removes from (User/complexuser.c:129-135)
\* reaches each node it allocated exactly once, so none is lost, shared or
\* freed, and its tail pointer is the last of them, NULL for the empty list.
ListShape ==
  /\ TypeOK
  /\ \A m \in Managers :
       LET nodes == Nodes(m) IN
       /\ ToSet(nodes) = allocated[m] /\ IsInjective(nodes)
       /\ tail[m] = IF nodes = <<>> THEN NULL ELSE Last(nodes)

\* The pointer work of addFile and removeFile (User/complexuser.c:252-345),
\* crashes and failed writes included, shows every operator a numbered list
\* that does what he asked: an added file is the new last number, a removal
\* takes the entry whose number was given and no other, a number that is not
\* there takes none, and no list changes otherwise but with its manager's end.
ImplementsBook == Book!Spec

\* When the kernel took a manager's list and neither has changed since, the
\* kernel enforces what that list means, whatever other managers did before,
\* whatever writes were refused: refreshFileList and create_list agree on the
\* text between them.
InStep ==
  \A m \in up : inStep = m => rules = Meant(Files(m))
=============================================================================
