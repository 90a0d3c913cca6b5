------------------------------ MODULE ProtectList ------------------------------
(***************************************************************************)
(* The protection list of the kernel module (LKM/communicate.c): a singly  *)
(* linked list of vmalloc'ed nodes hanging off fileList_root.              *)
(*                                                                         *)
(*   - Writers are tasks inside the /proc write handlers.  They take the   *)
(*     old list down node by node (destroy_list) and build a new one line  *)
(*     by line (create_list).                                              *)
(*   - Readers are tasks inside a hooked system call.  They walk the list  *)
(*     (is_fd_protected, is_ino_protected, is_path_protected).             *)
(*                                                                         *)
(* The code takes no lock, so every load or store of the shared list is a  *)
(* step of its own.  "oops" is a task the kernel killed because it touched *)
(* unmapped memory, "starved" one it killed because vmalloc had returned   *)
(* NULL to it, which the code never looks at: memory may fail any time.    *)
(***************************************************************************)
EXTENDS ProtectText, Functions

CONSTANTS
  Writers,     \* tasks that write /proc/gsfileprotection/{protect,ctrl}
  Readers,     \* tasks that run a hooked system call
  Addr,        \* the addresses vmalloc may hand out for a struct fileList
  InoOf,       \* i_ino of an inode: numbers are unique per file system only
  Texts,       \* the texts written to the protect file, as lines
  Words,       \* the words written to the control file
  Requests,    \* the checks the hooks make
  BufferLines  \* lines that fit in raw_data_buff with its terminating zero

Commands == {"refresh", "clear", "disable", "enable"}

\* What an address holds while no node is there.
Blank == [path |-> "", type |-> "none", inode |-> NULL]

\* The types each hook asks for: read and write by descriptor, hide by inode
\* number (getdents64) or path (chdir), the others by path.  A descriptor that
\* names no open file is NULL.
Request ==
  [kind : {"fd"}, key : Inode \cup {NULL}, type : {"read", "write"}]
    \cup [kind : {"ino"}, key : Range(InoOf), type : {"hide"}]
    \cup [kind : {"path"}, key : Path, type : {"hide", "del", "rename", "mkdir"}]

ASSUME ConstantsAssumption ==
  /\ NULL \notin Addr \cup Seq(Line)
  /\ DOMAIN InoOf = Inode /\ NULL \notin Range(InoOf)
  /\ Texts \subseteq Seq(Line)
  /\ <<>> \notin Texts
  /\ Commands \subseteq Path /\ Words \subseteq Path
  /\ Requests \subseteq Request
  /\ BufferLines \in Nat /\ PageLines <= BufferLines

VARIABLES
  \* the list
  root,              \* fileList_root
  live,              \* addresses that are allocated
  nxt,               \* next, per node
  entry,             \* filePath, type and inode, per node
  \* the other globals
  protect_enabeled,
  raw_data_buff,     \* the one scratch buffer of both write handlers
  \* a write handler: its place, what it builds from, and its locals; cur is
  \* p1 of destroy_list or lastvalid_fl of create_list, aux is p2 or p_fl
  wpc, job, cur, aux, tmp,
  \* a check: its place, its arguments, its cursor, its outcome
  rpc, req, p, verdict, notified,
  \* history, read by no guard
  chain,             \* the nodes reachable from fileList_root, in order
  lost,              \* nodes whose handler died before linking them
  asked,             \* the text the caller of a write handler wrote
  goal,              \* the text being installed; NULL when its handler died
  clashed,           \* two handlers have used the list or the buffer at once
  overlapped         \* the check ran while a list was being taken down

listVars   == <<root, live, nxt, entry, chain, lost>>
history    == <<asked, goal, clashed>>
writerVars == <<wpc, job, cur, aux, tmp, history>>
checkVars  == <<rpc, req, p, verdict, notified>>
ctrlVars   == <<protect_enabeled, raw_data_buff>>
others     == <<checkVars, ctrlVars, overlapped>>
vars       == <<listVars, writerVars, others>>

-----------------------------------------------------------------------------
\* data_buf is zeroed once and only ever cleared: refresh re-reads an empty
\* text.
data_buf == <<>>

\* A command is a text of one word.
ControlTexts == {<< [path |-> word, letter |-> NULL] >> : word \in Words}

-----------------------------------------------------------------------------
(* Shared predicates.                                                      *)

Dead == {"oops", "starved"}
Busy(w) == wpc[w] \notin {"idle"} \cup Dead
Dismantling == \E w \in Writers : wpc[w] \in {"unlink", "free"}
Walking(r) == rpc[r] \in {"visit", "advance", "notify"}

\* The test of the three walks: same type, and the same inode, inode number or
\* path.
Match(q, e) ==
  /\ e.type = q.type
  /\ \/ q.kind = "fd" /\ e.inode = q.key
     \/ q.kind = "ino" /\ InoOf[e.inode] = q.key
     \/ q.kind = "path" /\ e.path = q.key

Goto(w, place) == wpc' = [wpc EXCEPT ![w] = place]
CheckGoto(r, place) == rpc' = [rpc EXCEPT ![r] = place]

-----------------------------------------------------------------------------
(* The write handlers.                                                     *)

\* Between the copy into the scratch buffer and its last use, and between the
\* first load of fileList_root and the last store to the list.
UsesBuffer(w) ==
  \/ wpc[w] = "dispatch"
  \/ job[w] = "raw" /\ wpc[w] \in {"begin", "unlink", "free", "tail", "seek", "copy"}
UsesList(w) == wpc[w] \in {"unlink", "free", "tail", "seek", "copy", "line", "link"}

NoteClash(w, Uses(_)) == clashed' = (clashed \/ \E v \in Writers \ {w} : Uses(v))

\* copy_from_user into the shared scratch buffer.  A text that fills the buffer
\* puts its terminating zero past the end of it.
CopyFromUser(w, text, place) ==
  /\ wpc[w] = "idle"
  /\ text # <<>>
  /\ raw_data_buff' = text
  /\ Goto(w, IF Len(text) > BufferLines THEN "oops" ELSE place)
  /\ NoteClash(w, UsesBuffer)

\* proc_protect_write up to destroy_list.
ProtectWrite(w, text) ==
  /\ CopyFromUser(w, text, "begin")
  /\ job' = [job EXCEPT ![w] = "raw"]
  /\ asked' = [asked EXCEPT ![w] = text]
  /\ UNCHANGED <<listVars, checkVars, cur, aux, tmp, goal, protect_enabeled,
                 overlapped>>

\* An empty write to the protect file only takes the list down.
EmptyWrite(w) ==
  /\ wpc[w] = "idle"
  /\ Goto(w, "begin")
  /\ UNCHANGED <<listVars, others, job, cur, aux, tmp, history>>

\* proc_ctrl_write, up to the comparisons.
CtrlWrite(w, text) ==
  /\ CopyFromUser(w, text, "dispatch")
  /\ UNCHANGED <<listVars, checkVars, job, cur, aux, tmp, asked, goal,
                 protect_enabeled, overlapped>>

\* copy_from_user fails: either handler returns -EFAULT, what was copied stays
\* in the scratch buffer.
WriteFaults(w, text) ==
  /\ wpc[w] = "idle"
  /\ text # <<>>
  /\ raw_data_buff' = text
  /\ NoteClash(w, UsesBuffer)
  /\ UNCHANGED <<listVars, checkVars, wpc, job, cur, aux, tmp, asked, goal,
                 protect_enabeled, overlapped>>

\* proc_ctrl_write compares what the scratch buffer starts with by now.
Dispatch(w) ==
  LET word == raw_data_buff[1].path IN
  /\ wpc[w] = "dispatch"
  /\ \/ /\ word \in {"refresh", "clear"}
        /\ Goto(w, "begin")
        /\ job' = [job EXCEPT ![w] = "data"]
        /\ UNCHANGED protect_enabeled
     \/ /\ word \in {"disable", "enable"}
        /\ protect_enabeled' = (word = "enable")
        /\ Goto(w, "idle")
        /\ UNCHANGED job
     \/ /\ word \notin Commands
        /\ Goto(w, "idle")
        /\ UNCHANGED <<job, protect_enabeled>>
  /\ UNCHANGED <<listVars, checkVars, cur, aux, tmp, history, raw_data_buff,
                 overlapped>>

\* destroy_list, p1 = *top.  Every walk in progress is at risk from here on.
BeginDestroy(w) ==
  /\ wpc[w] = "begin"
  /\ cur' = [cur EXCEPT ![w] = root]
  /\ goal' = asked[w]
  /\ NoteClash(w, UsesList)
  /\ overlapped' = [r \in Readers |-> overlapped[r] \/ Walking(r)]
  /\ Goto(w, "unlink")
  /\ UNCHANGED <<listVars, checkVars, ctrlVars, job, aux, tmp, asked>>

\* p2 = p1->next; p1->inode = NULL.
DestroyNode(w) ==
  /\ wpc[w] = "unlink"
  /\ cur[w] \in live
  /\ aux' = [aux EXCEPT ![w] = nxt[cur[w]]]
  /\ entry' = [entry EXCEPT ![cur[w]].inode = NULL]
  /\ Goto(w, "free")
  /\ UNCHANGED <<root, live, nxt, chain, lost, others, job, cur, tmp, history>>

\* Slip: if (p1) instead of while (p1).
OnlyFirst(w) == NULL
AfterFree(w) == aux[w]

\* vfree(p1); p1 = p2.  The address is unmapped, its contents are gone.
FreeNode(w) ==
  /\ wpc[w] = "free"
  /\ live' = live \ {cur[w]}
  /\ entry' = [entry EXCEPT ![cur[w]] = Blank]
  /\ nxt' = [nxt EXCEPT ![cur[w]] = NULL]
  /\ cur' = [cur EXCEPT ![w] = AfterFree(w)]
  /\ Goto(w, "unlink")
  /\ UNCHANGED <<root, chain, lost, others, job, aux, tmp, history>>

\* Slip: *top keeps pointing at the first freed node.
Dangling(top) == top
Emptied(top) == NULL

\* *top = NULL, only now; an empty write returns here.
EndDestroy(w) ==
  /\ wpc[w] = "unlink"
  /\ cur[w] = NULL
  /\ root' = Emptied(root)
  /\ chain' = <<>>
  /\ aux' = [aux EXCEPT ![w] = NULL]
  /\ Goto(w, IF job[w] = "none" THEN "idle" ELSE "tail")
  /\ UNCHANGED <<live, nxt, entry, lost, others, job, cur, tmp, history>>

\* create_list looks for the last node, lastvalid_fl = *top ...
FindTail(w) ==
  /\ wpc[w] = "tail"
  /\ cur' = [cur EXCEPT ![w] = root]
  /\ Goto(w, "seek")
  /\ UNCHANGED <<listVars, others, job, aux, tmp, history>>

\* ... and follows next while there is one.
SeekTail(w) ==
  /\ wpc[w] = "seek"
  /\ cur[w] \in live \cup {NULL}
  /\ IF cur[w] # NULL /\ nxt[cur[w]] # NULL
     THEN cur' = [cur EXCEPT ![w] = nxt[cur[w]]] /\ UNCHANGED wpc
     ELSE Goto(w, "copy") /\ UNCHANGED cur
  /\ UNCHANGED <<listVars, others, job, aux, tmp, history>>

Source(w) == IF job[w] = "data" THEN data_buf ELSE raw_data_buff

\* strcpy(tmp_data, rdt) into the single page that sz = sizeof(char *) buys.
CopyText(w) ==
  /\ wpc[w] = "copy"
  /\ tmp' = [tmp EXCEPT ![w] = Source(w)]
  /\ IF Len(Source(w)) > PageLines
     THEN Goto(w, "oops") /\ goal' = NULL
     ELSE Goto(w, "line") /\ UNCHANGED goal
  /\ UNCHANGED <<listVars, others, job, cur, aux, asked, clashed>>

\* The handler returns, its locals are gone.
Leave(w) ==
  /\ Goto(w, "idle")
  /\ job' = [job EXCEPT ![w] = "none"]
  /\ cur' = [cur EXCEPT ![w] = NULL]
  /\ aux' = [aux EXCEPT ![w] = NULL]
  /\ tmp' = [tmp EXCEPT ![w] = <<>>]
  /\ asked' = [asked EXCEPT ![w] = <<>>]

\* The text is used up, or its next line has no '@' and opens nothing: the
\* loop ends.  Lines that follow such a line are never looked at.
LastLine(w) ==
  /\ wpc[w] = "line"
  /\ tmp[w] # <<>> => EndsText(Head(tmp[w]))
  /\ Leave(w)
  /\ UNCHANGED <<listVars, others, goal, clashed>>

\* Slip: the line is not taken off the text.
Unread(text) == text
Rest(text) == Tail(text)

\* A line whose file cannot be opened is passed over.
SkipLine(w) ==
  /\ wpc[w] = "line"
  /\ tmp[w] # <<>>
  /\ HasAt(Head(tmp[w])) /\ ~Opens(Head(tmp[w]))
  /\ tmp' = [tmp EXCEPT ![w] = Rest(@)]
  /\ UNCHANGED <<listVars, others, wpc, job, cur, aux, history>>

\* The file opens: a node is allocated and filled in.
NewNode(w, a) ==
  /\ wpc[w] = "line"
  /\ tmp[w] # <<>>
  /\ HasAt(Head(tmp[w])) /\ Opens(Head(tmp[w]))
  /\ a \notin live
  /\ live' = live \cup {a}
  /\ entry' = [entry EXCEPT ![a] = EntryOf(Head(tmp[w]))]
  /\ nxt' = [nxt EXCEPT ![a] = NULL]
  /\ aux' = [aux EXCEPT ![w] = a]
  /\ Goto(w, "link")
  /\ UNCHANGED <<root, chain, lost, others, job, cur, tmp, history>>

\* Slip: lastvalid_fl is left where it was.
TailLeftBehind(w) == cur[w]
NewTail(w) == aux[w]

\* The new node becomes the head, or goes in behind lastvalid_fl.
LinkNode(w) ==
  /\ wpc[w] = "link"
  /\ cur[w] \in live \cup {NULL}
  /\ IF cur[w] = NULL
     THEN root' = aux[w] /\ UNCHANGED nxt
     ELSE /\ nxt' = [nxt EXCEPT ![aux[w]] = nxt[cur[w]], ![cur[w]] = aux[w]]
          /\ UNCHANGED root
  /\ chain' = Append(chain, aux[w])
  /\ cur' = [cur EXCEPT ![w] = NewTail(w)]
  /\ tmp' = [tmp EXCEPT ![w] = Tail(@)]
  /\ Goto(w, "line")
  /\ UNCHANGED <<live, entry, lost, others, job, aux, history>>

\* The line opens but has no '@': strcmp(NULL, "r") faults, the node is lost.
NoLetterFault(w, a) ==
  /\ wpc[w] = "line"
  /\ tmp[w] # <<>>
  /\ ~HasAt(Head(tmp[w])) /\ Opens(Head(tmp[w]))
  /\ a \notin live
  /\ live' = live \cup {a}
  /\ lost' = lost \cup {a}
  /\ goal' = NULL
  /\ Goto(w, "oops")
  /\ UNCHANGED <<root, nxt, entry, chain, others, job, cur, aux, tmp, asked, clashed>>

\* vmalloc returns NULL, for the copy of the text or for the node of a line,
\* and create_list writes to it.  The old list is gone by then.
AllocFault(w) ==
  /\ \/ wpc[w] = "copy"
     \/ wpc[w] = "line" /\ tmp[w] # <<>> /\ Opens(Head(tmp[w]))
  /\ goal' = NULL
  /\ Goto(w, "starved")
  /\ UNCHANGED <<listVars, others, job, cur, aux, tmp, asked, clashed>>

\* The handler follows a pointer to a node that another handler has freed.
WriterFault(w) ==
  /\ wpc[w] \in {"unlink", "seek", "link"}
  /\ cur[w] \notin live \cup {NULL}
  /\ lost' = IF wpc[w] = "link" THEN lost \cup {aux[w]} ELSE lost
  /\ goal' = NULL
  /\ Goto(w, "oops")
  /\ UNCHANGED <<root, live, nxt, entry, chain, others, job, cur, aux, tmp, asked,
                 clashed>>

\* The operator starts the manager again after the kernel killed it.
RestartWriter(w) ==
  /\ wpc[w] \in Dead
  /\ Leave(w)
  /\ UNCHANGED <<listVars, others, goal, clashed>>

WriterStep(w) ==
  \/ Dispatch(w) \/ BeginDestroy(w) \/ DestroyNode(w) \/ FreeNode(w)
  \/ EndDestroy(w) \/ FindTail(w) \/ SeekTail(w) \/ CopyText(w)
  \/ LastLine(w) \/ SkipLine(w) \/ LinkNode(w) \/ AllocFault(w) \/ WriterFault(w)
  \/ \E a \in Addr : NewNode(w, a) \/ NoLetterFault(w, a)

WriterCall(w) ==
  \/ EmptyWrite(w)
  \/ \E text \in Texts : ProtectWrite(w, text)
  \/ \E text \in Texts \cup ControlTexts : CtrlWrite(w, text) \/ WriteFaults(w, text)

-----------------------------------------------------------------------------
(* The checks.  A hook calls one of the three functions; they differ in the *)
(* test of a node and in that only is_fd_protected looks at the switch and  *)
(* at the descriptor table.                                                 *)

Answer(r, refused, message) ==
  /\ CheckGoto(r, "done")
  /\ verdict' = [verdict EXCEPT ![r] = refused]
  /\ notified' = [notified EXCEPT ![r] = message]
  /\ p' = [p EXCEPT ![r] = NULL]

\* Slip: the switch is not looked at.
Unswitched(q) == TRUE
Switched(q) == q.kind # "fd" \/ protect_enabeled

\* Protection is switched off: is_fd_protected answers 0 at once.
CallWhileDisabled(r, q) ==
  /\ rpc[r] = "idle"
  /\ ~Switched(q)
  /\ req' = [req EXCEPT ![r] = q]
  /\ Answer(r, FALSE, NULL)
  /\ UNCHANGED <<listVars, writerVars, ctrlVars, overlapped>>

\* fget of a descriptor that is not open returns NULL, which is dereferenced.
CallBadDescriptor(r, q) ==
  /\ rpc[r] = "idle"
  /\ Switched(q) /\ q.key = NULL
  /\ req' = [req EXCEPT ![r] = q]
  /\ CheckGoto(r, "oops")
  /\ UNCHANGED <<listVars, writerVars, ctrlVars, p, verdict, notified, overlapped>>

Call(r, q) ==
  /\ rpc[r] = "idle"
  /\ Switched(q) /\ q.key # NULL
  /\ req' = [req EXCEPT ![r] = q]
  /\ CheckGoto(r, "start")
  /\ UNCHANGED <<listVars, writerVars, ctrlVars, p, verdict, notified, overlapped>>

\* Slip: the loop stops in front of the last node.
LastNode(node) == node = NULL \/ nxt[node] = NULL
NoNode(node) == node = NULL

\* The loop test on the pointer just loaded: visit that node, or answer 0.
LoopOn(r, node) ==
  IF NoNode(node)
  THEN Answer(r, FALSE, NULL)
  ELSE /\ p' = [p EXCEPT ![r] = node]
       /\ CheckGoto(r, "visit")
       /\ UNCHANGED <<verdict, notified>>

\* p = fileList_root.
Start(r) ==
  /\ rpc[r] = "start"
  /\ LoopOn(r, root)
  /\ overlapped' = [overlapped EXCEPT ![r] = Dismantling]
  /\ UNCHANGED <<listVars, writerVars, ctrlVars, req>>

\* Only is_ino_protected follows p->inode, which destroy_list has cleared in a
\* node it is about to free.
Readable(r) ==
  /\ p[r] \in live
  /\ rpc[r] = "visit" /\ req[r].kind = "ino" => entry[p[r]].inode # NULL

\* Compare the node with the arguments.
Visit(r) ==
  /\ rpc[r] = "visit"
  /\ Readable(r)
  /\ CheckGoto(r, IF Match(req[r], entry[p[r]]) THEN "notify" ELSE "advance")
  /\ UNCHANGED <<listVars, writerVars, ctrlVars, req, p, verdict, notified,
                 overlapped>>

\* Slip: the cursor stays.
SameNode(r) == p[r]
NextNode(r) == nxt[p[r]]

\* p = p->next.
Advance(r) ==
  /\ rpc[r] = "advance"
  /\ Readable(r)
  /\ LoopOn(r, NextNode(r))
  /\ UNCHANGED <<listVars, writerVars, ctrlVars, req, overlapped>>

\* sendProtectNotiMsg(p) reads path and type again, after an allocation that
\* may sleep or fail; then the walk answers 1.
Notify(r) ==
  /\ rpc[r] = "notify"
  /\ Readable(r)
  /\ Answer(r, TRUE, [path |-> entry[p[r]].path, type |-> entry[p[r]].type])
  /\ UNCHANGED <<listVars, writerVars, ctrlVars, req, overlapped>>

\* vmalloc has returned NULL for the message, and memset goes there.
NotifyStarves(r) ==
  /\ rpc[r] = "notify"
  /\ CheckGoto(r, "starved")
  /\ UNCHANGED <<listVars, writerVars, ctrlVars, req, p, verdict, notified,
                 overlapped>>

\* The node was freed, or its inode cleared, under the walk.
ReaderFault(r) ==
  /\ Walking(r)
  /\ ~Readable(r)
  /\ CheckGoto(r, "oops")
  /\ UNCHANGED <<listVars, writerVars, ctrlVars, req, p, verdict, notified,
                 overlapped>>

\* The hook has the answer; or the kernel buried the task and another one
\* makes the next call.
Return(r) ==
  /\ rpc[r] \in {"done"} \cup Dead
  /\ CheckGoto(r, "idle")
  /\ verdict' = [verdict EXCEPT ![r] = FALSE]
  /\ notified' = [notified EXCEPT ![r] = NULL]
  /\ p' = [p EXCEPT ![r] = NULL]
  /\ overlapped' = [overlapped EXCEPT ![r] = FALSE]
  /\ req' = [req EXCEPT ![r] = NULL]
  /\ UNCHANGED <<listVars, writerVars, ctrlVars>>

ReaderStep(r) ==
  Start(r) \/ Visit(r) \/ Advance(r) \/ Notify(r) \/ NotifyStarves(r) \/ ReaderFault(r)

ReaderCall(r) ==
  \E q \in Requests :
    CallWhileDisabled(r, q) \/ CallBadDescriptor(r, q) \/ Call(r, q)

-----------------------------------------------------------------------------
\* What init_communicate leaves: no list, protection on.
Init ==
  /\ root = NULL /\ live = {} /\ chain = <<>> /\ lost = {}
  /\ nxt = [a \in Addr |-> NULL]
  /\ entry = [a \in Addr |-> Blank]
  /\ protect_enabeled = TRUE
  /\ raw_data_buff = <<>>
  /\ wpc = [w \in Writers |-> "idle"]
  /\ job = [w \in Writers |-> "none"]
  /\ cur = [w \in Writers |-> NULL]
  /\ aux = [w \in Writers |-> NULL]
  /\ tmp = [w \in Writers |-> <<>>]
  /\ asked = [w \in Writers |-> <<>>]
  /\ goal = <<>>
  /\ clashed = FALSE
  /\ rpc = [r \in Readers |-> "idle"]
  /\ req = [r \in Readers |-> NULL]
  /\ p = [r \in Readers |-> NULL]
  /\ verdict = [r \in Readers |-> FALSE]
  /\ notified = [r \in Readers |-> NULL]
  /\ overlapped = [r \in Readers |-> FALSE]

Next ==
  \/ \E w \in Writers : WriterCall(w) \/ WriterStep(w) \/ RestartWriter(w)
  \/ \E r \in Readers : ReaderCall(r) \/ ReaderStep(r) \/ Return(r)

Spec == Init /\ [][Next]_vars

\* The kernel scheduler runs every task that can run; nobody has to make a
\* call.
FairSpec ==
  /\ Spec
  /\ \A w \in Writers : WF_vars(WriterStep(w))
  /\ \A r \in Readers : WF_vars(ReaderStep(r))

-----------------------------------------------------------------------------
(* Properties.                                                             *)

WriterPlaces == {"idle", "dispatch", "begin", "unlink", "free", "tail", "seek",
                 "copy", "line", "link"} \cup Dead
ReaderPlaces == {"idle", "start", "visit", "advance", "notify", "done"} \cup Dead
Message == [path : Path, type : ProtectType]

\* Every variable has its type.
TypeOK ==
  /\ root \in Addr \cup {NULL}
  /\ live \subseteq Addr
  /\ nxt \in [Addr -> Addr \cup {NULL}]
  /\ entry \in [Addr -> Entry]
  /\ protect_enabeled \in BOOLEAN
  /\ raw_data_buff \in Seq(Line)
  /\ wpc \in [Writers -> WriterPlaces]
  /\ job \in [Writers -> {"none", "raw", "data"}]
  /\ cur \in [Writers -> Addr \cup {NULL}]
  /\ aux \in [Writers -> Addr \cup {NULL}]
  /\ tmp \in [Writers -> Seq(Line)]
  /\ asked \in [Writers -> Seq(Line)]
  /\ goal \in Seq(Line) \cup {NULL}
  /\ clashed \in BOOLEAN
  /\ rpc \in [Readers -> ReaderPlaces]
  /\ req \in [Readers -> Requests \cup {NULL}]
  /\ p \in [Readers -> Addr \cup {NULL}]
  /\ verdict \in [Readers -> BOOLEAN]
  /\ notified \in [Readers -> Message \cup {NULL}]
  /\ overlapped \in [Readers -> BOOLEAN]
  /\ chain \in Seq(Addr)
  /\ lost \subseteq Addr

Rules == [i \in DOMAIN chain |-> entry[chain[i]]]

\* The entry that refuses q.
FirstMatch(q, i) ==
  /\ Match(q, Rules[i])
  /\ \A j \in 1 .. i - 1 : ~Match(q, Rules[j])

\* Unless two handlers clashed, a check is killed only when a list was taken
\* down while it walked, when its descriptor names no open file, or when vmalloc
\* fails for the notice of a refusal that was due.  So a call that no rule
\* refuses is never lost to a walk that met no destroy_list, however the list
\* grows under it and however short memory is.
FaultNeedsOverlap ==
  [][\A r \in Readers :
       rpc[r] \notin Dead /\ rpc'[r] \in Dead /\ ~clashed =>
         \/ overlapped'[r]
         \/ req'[r].kind = "fd" /\ req'[r].key = NULL
         \/ rpc'[r] = "starved" /\ \E i \in DOMAIN Rules : FirstMatch(req[r], i)]_vars

\* A handler is killed only by the text its caller wrote (it does not fit the
\* page, or a line without '@' opens), by vmalloc's NULL, or because two
\* handlers used the list or the scratch buffer at once.
WriterFaultExplained ==
  [][\A w \in Writers :
       wpc[w] \notin Dead /\ wpc'[w] \in Dead =>
         \/ clashed' \/ wpc'[w] = "starved"
         \/ Unparsable(IF wpc[w] = "idle" THEN raw_data_buff' ELSE goal)]_vars

\* Every allocated node is on the list, about to be linked, or was lost with the
\* handler that a fault killed.
Linking == {w \in Writers : wpc[w] = "link"}
Owned == live \subseteq Range(chain) \cup lost \cup {aux[w] : w \in Linking}

\* The step answers r as the list is at that moment: 1 with a notification that
\* names the first entry that matches, or 0 when none does.
AnsweredRight(r) ==
  \/ /\ verdict'[r]
     /\ \E i \in DOMAIN Rules :
          /\ FirstMatch(req[r], i)
          /\ notified'[r] = [path |-> Rules[i].path, type |-> Rules[i].type]
  \/ /\ ~verdict'[r] /\ notified'[r] = NULL
     /\ \A i \in DOMAIN Rules : ~Match(req[r], Rules[i])

Concludes(r) == rpc[r] \notin {"idle", "done"} /\ rpc'[r] = "done"

\* A check that met no destroy_list gives the right answer, although it read the
\* list node by node while lines were being added to it.
VerdictExact ==
  [][\A r \in Readers :
       Concludes(r) /\ ~overlapped'[r] /\ ~clashed => AnsweredRight(r)]_vars

\* A check as its caller sees it.
Phase(place) ==
  IF place \in {"start", "visit", "advance", "notify"} THEN "open"
  ELSE IF place = "done" THEN "closed"
  ELSE IF place \in Dead THEN "dead" ELSE "idle"

Seen(r) == [phase |-> Phase(rpc[r]), q |-> req[r], disturbed |-> overlapped[r],
            refused |-> verdict[r], message |-> notified[r]]

\* The list and its walks implement the atomic policy.
Policy == INSTANCE AccessPolicy WITH
  Callers <- Readers,
  Rule <- Entry,
  Match <- Match,
  MessageOf <- LAMBDA e : [path |-> e.path, type |-> e.type],
  Switchable <- LAMBDA q : q.kind = "fd",
  Unanswerable <- LAMBDA q : q.key = NULL,
  rules <- IF Dismantling THEN <<>> ELSE Rules,
  replacing <- Dismantling,
  enabled <- protect_enabeled,
  call <- [r \in Readers |-> Seen(r)]

ImplementsPolicy == Policy!Spec

\* The list while no handlers have clashed: what the other properties rest on.
After(i) == IF i = Len(chain) THEN NULL ELSE chain[i + 1]
LastLinked == IF chain = <<>> THEN NULL ELSE chain[Len(chain)]

\* One handler at a time uses the list; no node is on it twice; it is what
\* fileList_root and next spell, except that the freed front of a list being
\* taken down is blank.
Spelled ==
  /\ \A v, w \in Writers : UsesList(v) /\ UsesList(w) => v = w
  /\ \A i, j \in DOMAIN chain : chain[i] = chain[j] => i = j
  /\ root = IF chain = <<>> THEN NULL ELSE chain[1]
  /\ \A i \in DOMAIN chain : chain[i] \in live => nxt[chain[i]] = After(i)

\* Nodes outside a destroy_list are allocated, complete, and not lost.
Standing ==
  /\ ~Dismantling => \A i \in DOMAIN chain :
       chain[i] \in live /\ entry[chain[i]].inode # NULL
  /\ lost \subseteq live
  /\ \A i \in DOMAIN chain : chain[i] \notin lost

\* destroy_list has freed exactly the nodes in front of the k-th.
FreedUpTo(k) == \A i \in DOMAIN chain : chain[i] \in live <=> i >= k

\* Where the cursors of a handler are, place by place.
Placed(w) ==
  /\ wpc[w] = "unlink" =>
       \E k \in 1 .. Len(chain) + 1 :
         FreedUpTo(k) /\ cur[w] = IF k > Len(chain) THEN NULL ELSE chain[k]
  /\ wpc[w] = "free" =>
       \E k \in DOMAIN chain : FreedUpTo(k) /\ cur[w] = chain[k] /\ aux[w] = After(k)
  /\ wpc[w] \in {"tail", "seek", "copy"} => chain = <<>>
  /\ wpc[w] \in {"seek", "copy", "line", "link"} => cur[w] = LastLinked
  /\ wpc[w] = "link" =>
       /\ aux[w] \in live \ lost /\ aux[w] \notin Range(chain)
       /\ nxt[aux[w]] = NULL /\ entry[aux[w]].inode # NULL

\* An undisturbed walk stands on a node of the list, and no node before it
\* answers its request.
OnTrack(r) ==
  Walking(r) /\ ~overlapped[r] =>
    /\ ~Dismantling
    /\ \E i \in DOMAIN chain :
         /\ p[r] = chain[i]
         /\ \A j \in 1 .. i - 1 : ~Match(req[r], entry[chain[j]])
         /\ rpc[r] = "notify" => Match(req[r], entry[chain[i]])
         /\ rpc[r] = "advance" => ~Match(req[r], entry[chain[i]])

\* The list, the handlers and the walks agree, and no node leaks.
Heap ==
  /\ Spelled /\ Standing /\ Owned
  /\ \A w \in Writers : Placed(w)
  /\ \A r \in Readers : OnTrack(r)
HeapShape == ~clashed => Heap

\* While no handler works on it, the list is the one the last caller to take it
\* down asked for: no line is dropped, repeated, moved or another caller's.
ListMatchesText ==
  ~clashed /\ goal # NULL /\ (\A w \in Writers : ~UsesList(w)) =>
    Spelled /\ Rules = Accepted(goal)

\* A check ends, unless a list is taken down while it walks or handlers clashed:
\* the list under it grows only by the lines of one text.
CheckEnds ==
  \A r \in Readers :
    rpc[r] = "start" ~> rpc[r] \in {"done"} \cup Dead \/ overlapped[r] \/ clashed

\* A write handler ends, whatever its text: every line is used up, every node is
\* reached once.  A clash may tie the list into a ring.
WriteEnds == \A w \in Writers : Busy(w) ~> ~Busy(w) \/ clashed
=============================================================================
