------------------------------ MODULE ManagedList ------------------------------
(***************************************************************************)
(* The managers of User/complexuser.c on top of the list of the kernel:    *)
(* where Manager takes a write as one step, here a manager's write() goes  *)
(* through the hooked write, whose check walks the list while the handlers *)
(* of other managers rebuild it, and then through a handler of its own.    *)
(* The list of a manager is the numbered list that Manager implements.     *)
(* The /proc file may have another inode each time the last manager has    *)
(* closed it; a rule on it holds the inode it had when it was written.     *)
(***************************************************************************)
EXTENDS ManagerText, FiniteSets

CONSTANTS
  Managers,
  Others,       \* programs that write to the control file
  Addr,         \* addresses of nodes in the kernel
  Files,        \* the files operators add
  MaxFiles,     \* bound of a manager's list
  Words,        \* what the other programs write
  InoOf, BufferLines,
  ProtectFiles, \* the inodes /proc/gsfileprotection/protect may have
  NameOf        \* the path Lookup finds each of them at

ASSUME ManagedAssumption ==
  /\ Managers \cap Others = {} /\ NULL \notin Managers
  /\ Files \subseteq File
  /\ ProtectFiles \subseteq Inode
  /\ NameOf \in [ProtectFiles -> Path] /\ \A i \in ProtectFiles : Lookup[NameOf[i]] = i
  /\ NULL \notin Addr \cup Seq(Line)
  /\ DOMAIN InoOf = Inode /\ NULL \notin Range(InoOf)
  /\ {"refresh", "clear", "disable", "enable"} \cup Words \subseteq Path
  /\ BufferLines \in Nat /\ PageLines <= BufferLines
  /\ MaxFiles \in Nat

VARIABLES
  book,    \* a manager's list
  mpc,     \* ... "down" while it does not run, "menu", "refresh", "hook" in
           \* modified_write, "write" in the real call, "dead" when the kernel
           \* has killed it
  protectFile,  \* the inode of the /proc file
  pinned,  \* a manager died between fget and fput of is_fd_protected: the inode stays
  inStep,  \* history: the manager whose list the last handler was given, if it
           \* has not changed since
  root, live, nxt, entry, protect_enabeled, raw_data_buff,
  wpc, job, cur, aux, tmp, rpc, req, p, verdict, notified,
  chain, lost, asked, goal, clashed, overlapped

inodeVars == <<protectFile, pinned>>
managerVars == <<book, mpc, inodeVars, inStep>>
kernelVars == <<root, live, nxt, entry, protect_enabeled, raw_data_buff,
                wpc, job, cur, aux, tmp, rpc, req, p, verdict, notified,
                chain, lost, asked, goal, clashed, overlapped>>
vars == <<managerVars, kernelVars>>

WriteOf(i) == [kind |-> "fd", key |-> i, type |-> "write"]
\* What the hook is asked when a manager writes.
WriteCheck == WriteOf(protectFile)

\* The list in the kernel, its handlers and its checks.
List == INSTANCE ProtectList WITH
  Writers <- Managers \cup Others, Readers <- Managers,
  Requests <- {WriteOf(i) : i \in ProtectFiles}, Texts <- {}

-----------------------------------------------------------------------------
\* "Slip" marks a mistake that could be made in the definition below it; only
\* the experiments with the properties use it.

Goto(m, place) == mpc' = [mpc EXCEPT ![m] = place]

\* The list of m is not the one the kernel was given.
OutOfStep(m) == inStep' = IF inStep = m THEN NULL ELSE inStep

Up(m) == mpc[m] \notin {"down", "dead"}

\* The program is gone, and its list with it.
Gone(m, place) ==
  /\ Goto(m, place)
  /\ book' = [book EXCEPT ![m] = <<>>]
  /\ OutOfStep(m)

\* addFile and removeFile, up to refreshFileList; a number that is not in the
\* list removes nothing.  (Bound: MaxFiles.)
AddFile(m, f) ==
  /\ mpc[m] = "menu" /\ Len(book[m]) < MaxFiles
  /\ book' = [book EXCEPT ![m] = Append(@, f)]
  /\ Goto(m, "refresh") /\ OutOfStep(m)
  /\ UNCHANGED <<inodeVars, kernelVars>>

RemoveFile(m, number) ==
  /\ mpc[m] = "menu" /\ book[m] # <<>>
  /\ IF number \in DOMAIN book[m]
     THEN book' = [book EXCEPT ![m] = RemoveAt(@, number)] /\ OutOfStep(m)
     ELSE UNCHANGED <<book, inStep>>
  /\ Goto(m, "refresh")
  /\ UNCHANGED <<inodeVars, kernelVars>>

\* write() enters the hook.
EnterHook(m) ==
  /\ mpc[m] = "refresh"
  /\ List!CallWhileDisabled(m, WriteCheck) \/ List!Call(m, WriteCheck)
  /\ Goto(m, "hook")
  /\ UNCHANGED <<book, inodeVars, inStep>>

\* is_fd_protected, node by node.  A manager it dies in keeps the file open.
HookStep(m) ==
  /\ mpc[m] = "hook"
  /\ List!ReaderStep(m)
  /\ IF rpc'[m] \in List!Dead
     THEN Gone(m, "dead") /\ pinned' = TRUE
     ELSE UNCHANGED <<mpc, book, pinned, inStep>>
  /\ UNCHANGED protectFile

\* Slip: the answer is not looked at.
Heedless(m) == "write"
\* A refused manager goes on as if nothing had happened.
AfterCheck(m) == IF verdict[m] THEN "menu" ELSE "write"

LeaveHook(m) ==
  /\ mpc[m] = "hook" /\ rpc[m] = "done"
  /\ List!Return(m)
  /\ Goto(m, AfterCheck(m))
  /\ UNCHANGED <<book, inodeVars, inStep>>

\* The files of m as filp_open finds them now: the /proc file is the one m has
\* open.
Present(m) ==
  [i \in DOMAIN book[m] |->
     IF \E j \in ProtectFiles : book[m][i].path = NameOf[j]
     THEN [book[m][i] EXCEPT !.path = NameOf[protectFile]]
     ELSE book[m][i]]

\* Slip: the file added last is not written.
AllButLast(m) == TextOf(IF book[m] = <<>> THEN <<>> ELSE Front(Present(m)))
Text(m) == TextOf(Present(m))

\* The real write calls the handler.
EnterHandler(m) ==
  /\ mpc[m] = "write" /\ wpc[m] = "idle"
  /\ IF Text(m) = <<>> THEN List!EmptyWrite(m) ELSE List!ProtectWrite(m, Text(m))
  /\ IF wpc'[m] \in List!Dead
     THEN Gone(m, "dead")
     ELSE UNCHANGED <<mpc, book, inStep>>
  /\ UNCHANGED inodeVars

\* A handler, to the point where it has taken down what was and on to its end.
HandlerStep(m) ==
  /\ mpc[m] = "write"
  /\ List!WriterStep(m)
  /\ CASE wpc'[m] = "idle" -> Goto(m, "menu") /\ UNCHANGED <<book, inStep>>
       [] wpc'[m] \in List!Dead -> Gone(m, "dead")
       [] OTHER -> /\ inStep' = IF wpc[m] = "begin" THEN m ELSE inStep
                   /\ UNCHANGED <<mpc, book>>
  /\ UNCHANGED inodeVars

\* Memory of the manager that cannot be read: the handler returns -EFAULT.
HandlerFails(m) ==
  /\ mpc[m] = "write" /\ Text(m) # <<>>
  /\ List!WriteFaults(m, Text(m))
  /\ Goto(m, "menu")
  /\ UNCHANGED <<book, inodeVars, inStep>>

\* The operator quits, or kills the program before it writes.
Quit(m) ==
  /\ mpc[m] \in {"menu", "refresh"}
  /\ Gone(m, "down")
  /\ UNCHANGED <<inodeVars, kernelVars>>

\* The kernel has done with a program it killed.
Bury(m) ==
  /\ mpc[m] = "dead"
  /\ List!Return(m) \/ List!RestartWriter(m)
  /\ Goto(m, "down")
  /\ UNCHANGED <<book, inodeVars, inStep>>

\* A manager opens the /proc file.  When nobody had it open, its inode was given
\* up and is made anew, at the same address or another one.
Start(m) ==
  /\ mpc[m] = "down"
  /\ Goto(m, "menu")
  /\ IF pinned \/ \E k \in Managers : Up(k)
     THEN UNCHANGED protectFile
     ELSE protectFile' \in ProtectFiles
  /\ UNCHANGED <<book, pinned, inStep, kernelVars>>

\* Another program writes a word to the control file.
Control(o) ==
  /\ \/ \E text \in List!ControlTexts : List!CtrlWrite(o, text)
     \/ List!WriterStep(o) \/ List!RestartWriter(o)
  /\ inStep' = IF wpc[o] = "begin" THEN NULL ELSE inStep
  /\ UNCHANGED <<book, mpc, inodeVars>>

Init ==
  /\ List!Init
  /\ book = [m \in Managers |-> <<>>]
  /\ mpc = [m \in Managers |-> "down"]
  /\ protectFile \in ProtectFiles /\ pinned = FALSE
  /\ inStep = NULL

Operator(m) ==
  \/ \E f \in Files : AddFile(m, f)
  \/ \E number \in 1 .. MaxFiles + 1 : RemoveFile(m, number)
  \/ Quit(m) \/ Bury(m) \/ Start(m)

Refresh(m) ==
  EnterHook(m) \/ HookStep(m) \/ LeaveHook(m) \/ EnterHandler(m) \/ HandlerStep(m)

Next ==
  \/ \E m \in Managers : Operator(m) \/ Refresh(m) \/ HandlerFails(m)
  \/ \E o \in Others : Control(o)

Spec == Init /\ [][Next]_vars

\* A manager in its write goes on; operators need not type.
FairSpec == Spec /\ \A m \in Managers : WF_vars(Refresh(m))

-----------------------------------------------------------------------------
(* Properties.                                                             *)

\* The managers' variables have values of their kind and fit their tasks'
\* places in the kernel.
TypeOK ==
  /\ List!TypeOK
  /\ inStep \in Managers \cup {NULL}
  /\ protectFile \in ProtectFiles /\ pinned \in BOOLEAN
  /\ \A m \in Managers :
       /\ book[m] \in Seq(Files) /\ Len(book[m]) <= MaxFiles
       /\ mpc[m] \in {"down", "menu", "refresh"} => rpc[m] = "idle" /\ wpc[m] = "idle"
       /\ mpc[m] = "hook" => rpc[m] \notin {"idle"} \cup List!Dead /\ wpc[m] = "idle"
       /\ mpc[m] = "write" => rpc[m] = "idle" /\ wpc[m] \notin List!Dead
       /\ mpc[m] = "dead" => {rpc[m], wpc[m]} \cap List!Dead # {}

AtRest == \A w \in Managers \cup Others : ~List!UsesList(w)

\* When the list has come to rest, and no two handlers used it or the buffer at
\* once, it holds what the operator of the last manager to write means by a list
\* that has not changed since: other managers' writes before, refused writes,
\* failed copies and deaths in the kernel leave nothing behind in it, or anywhere
\* a value out of place (User/complexuser.c:217-249, LKM/communicate.c:372-400).
InForce ==
  /\ TypeOK
  /\ AtRest /\ ~clashed /\ goal # NULL =>
       \A m \in Managers : inStep = m => List!Rules = Meant(Present(m))

\* A rule that refuses writes to the protect file is in force, no handler is at
\* work, and no check has let a manager pass or may yet have missed the rule.
LockedOut ==
  /\ protect_enabeled /\ ~clashed /\ AtRest
  /\ \E i \in DOMAIN List!Rules : List!Match(WriteCheck, List!Rules[i])
  /\ \A o \in Others : wpc[o] = "idle"
  /\ \A m \in Managers :
       /\ mpc[m] # "write"
       /\ mpc[m] = "hook" => ~overlapped[m] /\ (rpc[m] = "done" => verdict[m])

\* Managers that lock themselves out stay out: however many walk the list at once,
\* die, quit and start again, none of them changes a rule before another program
\* uses the control file; and the rule keeps refusing them until all have gone at
\* once and the /proc file gets another inode (LKM/fsprotection.c:244-256,
\* LKM/communicate.c:112-129).
LockHolds ==
  [][LockedOut =>
       \/ \E o \in Others : wpc'[o] # "idle"
       \/ /\ List!Rules' = List!Rules
          /\ \/ LockedOut'
             \/ (\A m \in Managers : ~Up(m)) /\ protectFile' # protectFile]_vars

\* A manager's change comes to an end, in its hook or in its handler, unless a
\* list is taken down under its check or two handlers clash.
RefreshEnds ==
  \A m \in Managers :
    mpc[m] = "refresh" ~> mpc[m] \in {"menu", "down", "dead"} \/ overlapped[m] \/ clashed
=============================================================================
