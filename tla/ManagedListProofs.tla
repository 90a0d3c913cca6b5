--------------------------- MODULE ManagedListProofs ---------------------------
(***************************************************************************)
(* Theorems about ManagedList.  The kernel's part of every step is a step  *)
(* of ProtectList, so what ProtectListProofs proves holds here; what the   *)
(* managers add is which text a handler was given, what it means, and who  *)
(* is still let through to a handler.                                      *)
(***************************************************************************)
EXTENDS ManagedList, ProtectTextProofs

\* The list in the kernel, with every text written, and what is proved of it.
Written == Seq(Line) \ {<<>>}

Kernel == INSTANCE ProtectListProofs WITH
  Writers <- Managers \cup Others, Readers <- Managers,
  Requests <- {WriteOf(i) : i \in ProtectFiles}, Texts <- Written

-----------------------------------------------------------------------------
(* The kernel's theorems apply.                                            *)

\* The assumptions its theorems rest on.
LEMMA KernelConstants == Kernel!ConstantsAssumption
<1>1. Range(InoOf) = Kernel!Range(InoOf)
  BY DEF Range, Kernel!Range
<1>2. Kernel!Line = Line
  BY DEF Kernel!Line, Line, Kernel!Letter, Letter
<1>3. {WriteOf(i) : i \in ProtectFiles} \subseteq Kernel!Request
  BY ManagedAssumption DEF Kernel!Request, WriteOf
<1>. QED  BY ONLY <1>1, <1>2, <1>3, ManagedAssumption DEF Written, Kernel!Commands

LEMMA KernelText == Kernel!TextAssumption
  BY TextAssumption DEF Kernel!Letter, Letter

\* The list in the kernel is typed, knows the text it is made from, and holds its
\* rules when it is at rest.
KernelInv == Kernel!Typed /\ Kernel!TextInv /\ Kernel!ListMatchesText

\* ... for whatever is written to it.
LEMMA KernelSafe == Kernel!Spec => []KernelInv /\ Kernel!VerdictExact
  BY KernelConstants, KernelText, Kernel!TypedAlways, Kernel!TextAlways,
     Kernel!ListFaithful, Kernel!VerdictSafe, PTL DEF KernelInv

-----------------------------------------------------------------------------
(* Both instances of ProtectList are the same but for the texts, which no   *)
(* operation looks up.                                                     *)

USE DEF List!listVars, Kernel!listVars, List!checkVars, Kernel!checkVars,
        List!ctrlVars, Kernel!ctrlVars, List!history, Kernel!history,
        List!writerVars, Kernel!writerVars, List!others, Kernel!others,
        List!Goto, Kernel!Goto, List!CheckGoto, Kernel!CheckGoto,
        List!NoteClash, Kernel!NoteClash, List!UsesList, Kernel!UsesList,
        List!UsesBuffer, Kernel!UsesBuffer, List!Walking, Kernel!Walking,
        List!Commands, Kernel!Commands, List!Blank, Kernel!Blank,
        List!AfterFree, Kernel!AfterFree, List!Emptied, Kernel!Emptied,
        List!Source, Kernel!Source, List!data_buf, Kernel!data_buf,
        List!Leave, Kernel!Leave, List!Rest, Kernel!Rest,
        List!NewTail, Kernel!NewTail, List!NextNode, Kernel!NextNode,
        List!NoNode, Kernel!NoNode, List!Dismantling, Kernel!Dismantling,
        List!HasAt, Kernel!HasAt, List!Opens, Kernel!Opens,
        List!EndsText, Kernel!EndsText, List!EntryOf, Kernel!EntryOf,
        List!protectTypeFromStr, Kernel!protectTypeFromStr,
        List!Match, Kernel!Match, List!Switched, Kernel!Switched,
        List!Answer, Kernel!Answer, List!LoopOn, Kernel!LoopOn,
        List!Readable, Kernel!Readable, List!CopyFromUser, Kernel!CopyFromUser,
        List!Rules, Kernel!Rules, List!Dead, Kernel!Dead

\* A step of a handler.
LEMMA SameWriterStep == ASSUME NEW w, List!WriterStep(w) PROVE Kernel!WriterStep(w)
<1>1. List!Dispatch(w) => Kernel!Dispatch(w)
  BY DEF List!Dispatch, Kernel!Dispatch
<1>2. List!BeginDestroy(w) => Kernel!BeginDestroy(w)
  BY DEF List!BeginDestroy, Kernel!BeginDestroy
<1>3. List!DestroyNode(w) => Kernel!DestroyNode(w)
  BY DEF List!DestroyNode, Kernel!DestroyNode
<1>4. List!FreeNode(w) => Kernel!FreeNode(w)
  BY DEF List!FreeNode, Kernel!FreeNode
<1>5. List!EndDestroy(w) => Kernel!EndDestroy(w)
  BY DEF List!EndDestroy, Kernel!EndDestroy
<1>6. List!FindTail(w) => Kernel!FindTail(w)
  BY DEF List!FindTail, Kernel!FindTail
<1>7. List!SeekTail(w) => Kernel!SeekTail(w)
  BY DEF List!SeekTail, Kernel!SeekTail
<1>8. List!CopyText(w) => Kernel!CopyText(w)
  BY DEF List!CopyText, Kernel!CopyText
<1>9. List!LastLine(w) => Kernel!LastLine(w)
  BY DEF List!LastLine, Kernel!LastLine
<1>10. List!SkipLine(w) => Kernel!SkipLine(w)
  BY DEF List!SkipLine, Kernel!SkipLine
<1>11. List!LinkNode(w) => Kernel!LinkNode(w)
  BY DEF List!LinkNode, Kernel!LinkNode
<1>12. List!AllocFault(w) => Kernel!AllocFault(w)
  BY DEF List!AllocFault, Kernel!AllocFault
<1>13. List!WriterFault(w) => Kernel!WriterFault(w)
  BY DEF List!WriterFault, Kernel!WriterFault
<1>14. ASSUME NEW a PROVE List!NewNode(w, a) => Kernel!NewNode(w, a)
  BY DEF List!NewNode, Kernel!NewNode
<1>15. ASSUME NEW a PROVE List!NoLetterFault(w, a) => Kernel!NoLetterFault(w, a)
  BY DEF List!NoLetterFault, Kernel!NoLetterFault
<1>. QED
  BY <1>1, <1>2, <1>3, <1>4, <1>5, <1>6, <1>7, <1>8, <1>9, <1>10, <1>11, <1>12, <1>13,
     <1>14, <1>15 DEF List!WriterStep, Kernel!WriterStep

\* A step of a check.
LEMMA SameReaderStep == ASSUME NEW r, List!ReaderStep(r) PROVE Kernel!ReaderStep(r)
<1>1. List!Start(r) => Kernel!Start(r)
  BY DEF List!Start, Kernel!Start
<1>2. List!Visit(r) => Kernel!Visit(r)
  BY DEF List!Visit, Kernel!Visit
<1>3. List!Advance(r) => Kernel!Advance(r)
  BY DEF List!Advance, Kernel!Advance
<1>4. List!Notify(r) => Kernel!Notify(r)
  BY DEF List!Notify, Kernel!Notify
<1>5. List!ReaderFault(r) => Kernel!ReaderFault(r)
  BY DEF List!ReaderFault, Kernel!ReaderFault
<1>6. List!NotifyStarves(r) => Kernel!NotifyStarves(r)
  BY DEF List!NotifyStarves, Kernel!NotifyStarves
<1>. QED  BY <1>1, <1>2, <1>3, <1>4, <1>5, <1>6 DEF List!ReaderStep, Kernel!ReaderStep

\* A check's call and return.
LEMMA SameCheck ==
  ASSUME NEW r
  PROVE  /\ \A q : List!Call(r, q) => Kernel!Call(r, q)
         /\ \A q : List!CallWhileDisabled(r, q) => Kernel!CallWhileDisabled(r, q)
         /\ List!Return(r) => Kernel!Return(r)
  BY DEF List!Call, Kernel!Call, List!CallWhileDisabled, Kernel!CallWhileDisabled,
         List!Return, Kernel!Return

\* The calls of a handler.
LEMMA SameWrite ==
  ASSUME NEW w
  PROVE  /\ List!EmptyWrite(w) => Kernel!EmptyWrite(w)
         /\ List!RestartWriter(w) => Kernel!RestartWriter(w)
         /\ \A text : List!ProtectWrite(w, text) => Kernel!ProtectWrite(w, text)
         /\ \A text : List!WriteFaults(w, text) => Kernel!WriteFaults(w, text)
         /\ \A text : List!CtrlWrite(w, text) => Kernel!CtrlWrite(w, text)
<1>1. List!EmptyWrite(w) => Kernel!EmptyWrite(w)
  BY DEF List!EmptyWrite, Kernel!EmptyWrite
<1>2. List!RestartWriter(w) => Kernel!RestartWriter(w)
  BY DEF List!RestartWriter, Kernel!RestartWriter
<1>3. ASSUME NEW text PROVE List!ProtectWrite(w, text) => Kernel!ProtectWrite(w, text)
  BY DEF List!ProtectWrite, Kernel!ProtectWrite
<1>4. ASSUME NEW text PROVE List!WriteFaults(w, text) => Kernel!WriteFaults(w, text)
  BY DEF List!WriteFaults, Kernel!WriteFaults
<1>5. ASSUME NEW text PROVE List!CtrlWrite(w, text) => Kernel!CtrlWrite(w, text)
  BY DEF List!CtrlWrite, Kernel!CtrlWrite
<1>. QED  BY <1>1, <1>2, <1>3, <1>4, <1>5

\* The rest of what the two have in common.
LEMMA SameInit == List!Init => Kernel!Init
  BY DEF List!Init, Kernel!Init

LEMMA SameVars == UNCHANGED kernelVars => UNCHANGED Kernel!vars
  BY DEF kernelVars, Kernel!vars

LEMMA SameWords == List!ControlTexts = Kernel!ControlTexts
  BY DEF List!ControlTexts, Kernel!ControlTexts

LEMMA SameType == Kernel!TypeOK => List!TypeOK
  BY DEF List!TypeOK, Kernel!TypeOK, List!Entry, Kernel!Entry, List!ProtectType,
         Kernel!ProtectType, List!Line, Kernel!Line, List!Letter, Kernel!Letter,
         List!WriterPlaces, Kernel!WriterPlaces, List!ReaderPlaces,
         Kernel!ReaderPlaces, List!Message, Kernel!Message

LEMMA SameAccepted == ASSUME NEW text PROVE Kernel!Accepted(text) = Accepted(text)
  BY DEF Kernel!Accepted, Accepted, Kernel!RulesOf, RulesOf, Kernel!LinesRead,
         LinesRead, Opens, HasAt, EntryOf, protectTypeFromStr

HIDE DEF List!listVars, Kernel!listVars, List!checkVars, Kernel!checkVars,
        List!ctrlVars, Kernel!ctrlVars, List!history, Kernel!history,
        List!writerVars, Kernel!writerVars, List!others, Kernel!others,
        List!Goto, Kernel!Goto, List!CheckGoto, Kernel!CheckGoto,
        List!NoteClash, Kernel!NoteClash, List!UsesList, Kernel!UsesList,
        List!UsesBuffer, Kernel!UsesBuffer, List!Walking, Kernel!Walking,
        List!Commands, Kernel!Commands, List!Blank, Kernel!Blank,
        List!AfterFree, Kernel!AfterFree, List!Emptied, Kernel!Emptied,
        List!Source, Kernel!Source, List!data_buf, Kernel!data_buf,
        List!Leave, Kernel!Leave, List!Rest, Kernel!Rest,
        List!NewTail, Kernel!NewTail, List!NextNode, Kernel!NextNode,
        List!NoNode, Kernel!NoNode, List!Dismantling, Kernel!Dismantling,
        List!HasAt, Kernel!HasAt, List!Opens, Kernel!Opens,
        List!EndsText, Kernel!EndsText, List!EntryOf, Kernel!EntryOf,
        List!protectTypeFromStr, Kernel!protectTypeFromStr,
        List!Match, Kernel!Match, List!Switched, Kernel!Switched,
        List!Answer, Kernel!Answer, List!LoopOn, Kernel!LoopOn,
        List!Readable, Kernel!Readable, List!CopyFromUser, Kernel!CopyFromUser,
        List!Rules, Kernel!Rules, List!Dead, Kernel!Dead

-----------------------------------------------------------------------------
(* What the steps in the kernel leave alone.                               *)

Task == Managers \cup Others

\* The handlers of other tasks than w stay where they are, and all checks do.
HandlersStay(w) == \A v \in Task \ {w} : wpc'[v] = wpc[v] /\ asked'[v] = asked[v]
ChecksStay == rpc' = rpc /\ req' = req /\ verdict' = verdict
EarlyChecksStay ==
  \A m \in Managers : rpc[m] \in {"idle", "start"} => overlapped'[m] = overlapped[m]

\* A step of w's handler: its text stays what it was called with, and is the one
\* being installed from the first step in the list.
Handles(w) ==
  /\ HandlersStay(w) /\ ChecksStay /\ EarlyChecksStay
  /\ wpc[w] \notin {"idle"} \cup Kernel!Dead
  /\ wpc'[w] = "idle" \/ asked'[w] = asked[w]
  /\ IF wpc[w] = "begin"
     THEN goal' = asked[w] /\ wpc'[w] = "unlink"
     ELSE goal' \in {goal, NULL}

\* Every step of a handler is one.
LEMMA HandlerHandles ==
  ASSUME Kernel!Typed, NEW w \in Task, Kernel!WriterStep(w)
  PROVE  Handles(w)
<1>. USE DEF Kernel!Typed, Kernel!TypeOK, Task, Handles, HandlersStay, ChecksStay,
             EarlyChecksStay, Kernel!listVars, Kernel!checkVars, Kernel!ctrlVars,
             Kernel!others, Kernel!history, Kernel!Goto, Kernel!Leave, Kernel!Dead
<1>1. CASE Kernel!Dispatch(w)
  BY <1>1 DEF Kernel!Dispatch
<1>2. CASE Kernel!BeginDestroy(w)
  BY <1>2 DEF Kernel!BeginDestroy, Kernel!Walking
<1>3. CASE Kernel!DestroyNode(w)
  BY <1>3 DEF Kernel!DestroyNode
<1>4. CASE Kernel!FreeNode(w)
  BY <1>4 DEF Kernel!FreeNode
<1>5. CASE Kernel!EndDestroy(w)
  BY <1>5 DEF Kernel!EndDestroy
<1>6. CASE Kernel!FindTail(w)
  BY <1>6 DEF Kernel!FindTail
<1>7. CASE Kernel!SeekTail(w)
  BY <1>7 DEF Kernel!SeekTail
<1>8. CASE Kernel!CopyText(w)
  BY <1>8 DEF Kernel!CopyText
<1>9. CASE Kernel!LastLine(w)
  BY <1>9 DEF Kernel!LastLine
<1>10. CASE Kernel!SkipLine(w)
  BY <1>10 DEF Kernel!SkipLine
<1>11. CASE Kernel!LinkNode(w)
  BY <1>11 DEF Kernel!LinkNode
<1>12. CASE Kernel!AllocFault(w)
  BY <1>12 DEF Kernel!AllocFault
<1>13. CASE Kernel!WriterFault(w)
  BY <1>13 DEF Kernel!WriterFault
<1>14. CASE \E a \in Addr : Kernel!NewNode(w, a)
  BY <1>14 DEF Kernel!NewNode
<1>15. CASE \E a \in Addr : Kernel!NoLetterFault(w, a)
  BY <1>15 DEF Kernel!NoLetterFault
<1>. QED
  BY <1>1, <1>2, <1>3, <1>4, <1>5, <1>6, <1>7, <1>8, <1>9, <1>10, <1>11, <1>12, <1>13,
     <1>14, <1>15 DEF Kernel!WriterStep

\* A task calls a handler, or starts again after one killed it.
Calls(w) ==
  /\ HandlersStay(w) /\ ChecksStay /\ overlapped' = overlapped /\ goal' = goal

\* What the calls do to the caller.
LEMMA WriteCalls ==
  ASSUME Kernel!Typed, NEW w \in Task
  PROVE  /\ Kernel!EmptyWrite(w) =>
              Calls(w) /\ wpc'[w] = "begin" /\ asked'[w] = asked[w]
         /\ \A text : Kernel!ProtectWrite(w, text) =>
              Calls(w) /\ wpc'[w] \in {"begin"} \cup Kernel!Dead /\ asked'[w] = text
         /\ \A text : Kernel!CtrlWrite(w, text) =>
              Calls(w) /\ wpc'[w] \in {"dispatch"} \cup Kernel!Dead
         /\ \A text : Kernel!WriteFaults(w, text) =>
              Calls(w) /\ wpc' = wpc /\ asked' = asked
         /\ Kernel!RestartWriter(w) =>
              Calls(w) /\ wpc[w] \in Kernel!Dead /\ wpc'[w] = "idle"
<1>. USE DEF Kernel!Typed, Kernel!TypeOK, Task, Calls, HandlersStay, ChecksStay,
             Kernel!listVars, Kernel!checkVars, Kernel!ctrlVars, Kernel!others,
             Kernel!history, Kernel!Goto, Kernel!Leave, Kernel!CopyFromUser, Kernel!Dead
<1>1. Kernel!EmptyWrite(w) => Calls(w) /\ wpc'[w] = "begin" /\ asked'[w] = asked[w]
  BY DEF Kernel!EmptyWrite
<1>2. ASSUME NEW text, Kernel!ProtectWrite(w, text)
      PROVE  Calls(w) /\ wpc'[w] \in {"begin"} \cup Kernel!Dead /\ asked'[w] = text
  BY <1>2 DEF Kernel!ProtectWrite
<1>3. ASSUME NEW text, Kernel!CtrlWrite(w, text)
      PROVE  Calls(w) /\ wpc'[w] \in {"dispatch"} \cup Kernel!Dead
  BY <1>3 DEF Kernel!CtrlWrite
<1>4. ASSUME NEW text, Kernel!WriteFaults(w, text)
      PROVE  Calls(w) /\ wpc' = wpc /\ asked' = asked
  BY <1>4 DEF Kernel!WriteFaults
<1>5. Kernel!RestartWriter(w) => Calls(w) /\ wpc[w] \in Kernel!Dead /\ wpc'[w] = "idle"
  BY DEF Kernel!RestartWriter
<1>. QED  BY <1>1, <1>2, <1>3, <1>4, <1>5

\* A step of one check.
Checks(r) ==
  /\ wpc' = wpc /\ asked' = asked /\ goal' = goal
  /\ \A m \in Managers \ {r} :
       rpc'[m] = rpc[m] /\ req'[m] = req[m] /\ overlapped'[m] = overlapped[m]
                        /\ verdict'[m] = verdict[m]

\* What a check does to its own place.
LEMMA CheckChecks ==
  ASSUME Kernel!Typed, NEW r \in Managers
  PROVE  /\ Kernel!ReaderStep(r) =>
              /\ Checks(r) /\ req'[r] = req[r]
              /\ rpc[r] \notin {"idle", "done"} \cup Kernel!Dead /\ rpc'[r] \notin {"idle", "start"}
         /\ \A q : Kernel!Call(r, q) \/ Kernel!CallWhileDisabled(r, q) =>
              /\ Checks(r) /\ req'[r] = q /\ overlapped' = overlapped
              /\ rpc[r] = "idle" /\ rpc'[r] \in {"start", "done"}
         /\ Kernel!Return(r) =>
              /\ Checks(r) /\ rpc[r] \in {"done"} \cup Kernel!Dead /\ rpc'[r] = "idle"
              /\ ~overlapped'[r]
<1>. USE DEF Kernel!Typed, Kernel!TypeOK, Checks, Kernel!listVars, Kernel!writerVars,
             Kernel!checkVars, Kernel!ctrlVars, Kernel!others, Kernel!history,
             Kernel!CheckGoto, Kernel!Answer, Kernel!LoopOn, Kernel!Walking, Kernel!Dead
<1>1. ASSUME Kernel!ReaderStep(r)
      PROVE  /\ Checks(r) /\ req'[r] = req[r]
             /\ rpc[r] \notin {"idle", "done"} \cup Kernel!Dead /\ rpc'[r] \notin {"idle", "start"}
  <2>1. CASE Kernel!Start(r)
    BY <2>1 DEF Kernel!Start
  <2>2. CASE Kernel!Visit(r)
    BY <2>2 DEF Kernel!Visit
  <2>3. CASE Kernel!Advance(r)
    BY <2>3 DEF Kernel!Advance
  <2>4. CASE Kernel!Notify(r)
    BY <2>4 DEF Kernel!Notify
  <2>5. CASE Kernel!ReaderFault(r)
    BY <2>5 DEF Kernel!ReaderFault
  <2>6. CASE Kernel!NotifyStarves(r)
    BY <2>6 DEF Kernel!NotifyStarves
  <2>. QED  BY <1>1, <2>1, <2>2, <2>3, <2>4, <2>5, <2>6 DEF Kernel!ReaderStep
<1>2. ASSUME NEW q, Kernel!Call(r, q) \/ Kernel!CallWhileDisabled(r, q)
      PROVE  /\ Checks(r) /\ req'[r] = q /\ overlapped' = overlapped
             /\ rpc[r] = "idle" /\ rpc'[r] \in {"start", "done"}
  BY <1>2 DEF Kernel!Call, Kernel!CallWhileDisabled
<1>3. Kernel!Return(r) =>
        /\ Checks(r) /\ rpc[r] \in {"done"} \cup Kernel!Dead /\ rpc'[r] = "idle"
        /\ ~overlapped'[r]
  BY DEF Kernel!Return
<1>. QED  BY <1>1, <1>2, <1>3

-----------------------------------------------------------------------------
(* The managers.                                                           *)

\* Lists, places, the inode and the manager in step are what they should be.
ManagersTyped ==
  /\ book \in [Managers -> Seq(Files)]
  /\ \A m \in Managers : Len(book[m]) <= MaxFiles
  /\ mpc \in [Managers -> {"down", "menu", "refresh", "hook", "write", "dead"}]
  /\ protectFile \in ProtectFiles /\ pinned \in BOOLEAN
  /\ inStep \in Managers \cup {NULL}

LEMMA EmptyBook == <<>> \in Seq(Files) /\ Len(<<>>) <= MaxFiles
  BY ManagedAssumption

\* They depend on nothing in the kernel.
LEMMA ManagersTypedKept ==
  ASSUME ManagersTyped, [Next]_vars
  PROVE  ManagersTyped'
<1>. USE DEF ManagersTyped, Goto, OutOfStep, inodeVars
<1>1. ASSUME NEW m \in Managers, NEW f \in Files, AddFile(m, f) PROVE ManagersTyped'
  <2>1. Append(book[m], f) \in Seq(Files) /\ Len(Append(book[m], f)) <= MaxFiles
    BY <1>1, ManagedAssumption DEF AddFile
  <2>. QED  BY <1>1, <2>1 DEF AddFile
<1>2. ASSUME NEW m \in Managers, NEW n, RemoveFile(m, n) PROVE ManagersTyped'
  <2>1. CASE n \in DOMAIN book[m]
    <3>1. RemoveAt(book[m], n) \in Seq(Files) /\ Len(RemoveAt(book[m], n)) <= MaxFiles
      BY <2>1, ManagedAssumption DEF RemoveAt
    <3>. QED  BY <1>2, <2>1, <3>1 DEF RemoveFile
  <2>2. CASE n \notin DOMAIN book[m]
    BY <1>2, <2>2 DEF RemoveFile
  <2>. QED  BY <2>1, <2>2
<1>3. ASSUME NEW m \in Managers, Quit(m) \/ Bury(m) \/ Start(m) PROVE ManagersTyped'
  BY <1>3, EmptyBook DEF Quit, Bury, Start, Gone
<1>4. ASSUME NEW m \in Managers, EnterHook(m) \/ LeaveHook(m) \/ HandlerFails(m)
      PROVE  ManagersTyped'
  BY <1>4 DEF EnterHook, LeaveHook, AfterCheck, HandlerFails
<1>5. ASSUME NEW m \in Managers, HookStep(m) PROVE ManagersTyped'
  BY <1>5, EmptyBook DEF HookStep, Gone
<1>6. ASSUME NEW m \in Managers, EnterHandler(m) PROVE ManagersTyped'
  BY <1>6, EmptyBook DEF EnterHandler, Gone
<1>7. ASSUME NEW m \in Managers, HandlerStep(m) PROVE ManagersTyped'
  BY <1>7, EmptyBook DEF HandlerStep, Gone
<1>8. ASSUME NEW o \in Others, Control(o) PROVE ManagersTyped'
  BY <1>8 DEF Control
<1>9. CASE UNCHANGED vars
  BY <1>9 DEF vars, managerVars
<1>. QED
  BY <1>1, <1>2, <1>3, <1>4, <1>5, <1>6, <1>7, <1>8, <1>9 DEF Next, Operator, Refresh

LEMMA ManagersInit == Init => ManagersTyped
  BY EmptyBook DEF Init, ManagersTyped

\* What a manager writes is a text.
LEMMA BookText ==
  ASSUME ManagersTyped, NEW m \in Managers
  PROVE  Present(m) \in Seq(File) /\ Text(m) \in Seq(Line)
<1>1. book[m] \in Seq(Files) /\ Files \subseteq File /\ NameOf[protectFile] \in Path
  BY ManagedAssumption DEF ManagersTyped
<1>2. ASSUME NEW i \in DOMAIN book[m]
      PROVE  Present(m)[i] \in File
  <2>1. book[m][i] \in File
    BY <1>1
  <2>2. [book[m][i] EXCEPT !.path = NameOf[protectFile]] \in File
    BY <1>1, <2>1 DEF File
  <2>. QED  BY <2>1, <2>2 DEF Present
<1>3. Present(m) \in Seq(File)
  <2>1. Len(book[m]) \in Nat /\ DOMAIN book[m] = 1 .. Len(book[m])
    BY <1>1
  <2>2. Present(m) \in [1 .. Len(book[m]) -> File]
    BY <1>2, <2>1 DEF Present
  <2>. QED  BY <2>1, <2>2
<1>. QED  BY <1>3, TextType DEF Text

\* It depends on the list and the inode only.
LEMMA SameText ==
  ASSUME NEW m \in Managers, book'[m] = book[m], protectFile' = protectFile
  PROVE  Text(m)' = Text(m)
  BY DEF Text, Present

-----------------------------------------------------------------------------
(* Every step is one of ProtectList in the kernel, or none.                *)

\* A manager writes a text that is not empty, or takes the empty write.
LEMMA KernelStep ==
  ASSUME ManagersTyped, [Next]_vars
  PROVE  [Kernel!Next]_(Kernel!vars)
<1>1. ASSUME NEW m \in Managers, Operator(m) PROVE [Kernel!Next]_(Kernel!vars)
  <2>1. CASE Bury(m)
    BY <2>1, SameCheck, SameWrite DEF Bury, Kernel!Next
  <2>2. CASE UNCHANGED kernelVars
    BY <2>2, SameVars
  <2>. QED  BY <1>1, <2>1, <2>2 DEF Operator, AddFile, RemoveFile, Quit, Start
<1>2. ASSUME NEW m \in Managers, Refresh(m) \/ HandlerFails(m) PROVE Kernel!Next
  <2>1. Text(m) # <<>> => Text(m) \in Written
    BY BookText DEF Written
  <2>2. CASE EnterHook(m)
    <3>1. WriteCheck \in {WriteOf(i) : i \in ProtectFiles}
      BY DEF ManagersTyped, WriteCheck
    <3>. QED  BY <2>2, <3>1, SameCheck DEF EnterHook, Kernel!Next, Kernel!ReaderCall
  <2>3. CASE HookStep(m)
    BY <2>3, SameReaderStep DEF HookStep, Kernel!Next
  <2>4. CASE LeaveHook(m)
    BY <2>4, SameCheck DEF LeaveHook, Kernel!Next
  <2>5. CASE EnterHandler(m)
    BY <2>1, <2>5, SameWrite DEF EnterHandler, Kernel!Next, Kernel!WriterCall
  <2>6. CASE HandlerStep(m)
    BY <2>6, SameWriterStep DEF HandlerStep, Kernel!Next
  <2>7. CASE HandlerFails(m)
    BY <2>1, <2>7, SameWrite DEF HandlerFails, Kernel!Next, Kernel!WriterCall
  <2>. QED  BY <1>2, <2>2, <2>3, <2>4, <2>5, <2>6, <2>7 DEF Refresh
<1>3. ASSUME NEW o \in Others, Control(o) PROVE Kernel!Next
  BY <1>3, SameWrite, SameWriterStep, SameWords DEF Control, Kernel!Next, Kernel!WriterCall
<1>4. CASE UNCHANGED vars
  BY <1>4, SameVars DEF vars
<1>. QED  BY <1>1, <1>2, <1>3, <1>4 DEF Next

\* What was proved of the list in the kernel holds with managers at it.
LEMMA KernelHolds == Spec => []ManagersTyped /\ []KernelInv /\ Kernel!VerdictExact
<1>1. Init => Kernel!Init
  BY SameInit DEF Init
<1>. QED
  BY <1>1, ManagersInit, ManagersTypedKept, KernelStep, KernelSafe, PTL
     DEF Spec, Kernel!Spec

-----------------------------------------------------------------------------
(* Managers and kernel together.                                           *)

\* Where the kernel has a manager, by its own place.
Placed(m) ==
  /\ mpc[m] \in {"down", "menu", "refresh"} => rpc[m] = "idle" /\ wpc[m] = "idle"
  /\ mpc[m] = "hook" =>
       rpc[m] \notin {"idle"} \cup Kernel!Dead /\ wpc[m] = "idle" /\ req[m] = WriteCheck
  /\ mpc[m] = "write" =>
       /\ rpc[m] = "idle" /\ wpc[m] \notin Kernel!Dead
       /\ wpc[m] # "idle" => asked[m] = Text(m)
  /\ mpc[m] = "dead" =>
       \/ rpc[m] \in Kernel!Dead /\ wpc[m] = "idle"
       \/ rpc[m] = "idle" /\ wpc[m] \in Kernel!Dead
  /\ rpc[m] \in {"idle", "start"} => ~overlapped[m]

\* The text being installed is that of the manager in step, which runs.
GoalOf(m) == inStep = m => Up(m) /\ (goal # NULL => goal = Text(m))

IInv == \A m \in Managers : Placed(m) /\ GoalOf(m)

\* A step of another task.
Untouched(m) ==
  /\ mpc'[m] = mpc[m] /\ book'[m] = book[m] /\ protectFile' = protectFile
  /\ wpc'[m] = wpc[m] /\ asked'[m] = asked[m]
  /\ rpc'[m] = rpc[m] /\ req'[m] = req[m]
  /\ rpc[m] \in {"idle", "start"} => overlapped'[m] = overlapped[m]

\* It leaves a manager where it was.
LEMMA UntouchedPlaced ==
  ASSUME NEW m \in Managers, Placed(m), Untouched(m)
  PROVE  Placed(m)'
<1>1. Text(m)' = Text(m) /\ WriteCheck' = WriteCheck
  BY SameText DEF Untouched, WriteCheck
<1>. QED  BY ONLY <1>1, Placed(m), Untouched(m) DEF Untouched, Placed

\* A step outside the kernel touches no other manager.
LEMMA SameKernel ==
  ASSUME UNCHANGED kernelVars, NEW m \in Managers, mpc'[m] = mpc[m], book'[m] = book[m],
         protectFile' = protectFile
  PROVE  Untouched(m)
  BY DEF kernelVars, Untouched

\* The manager in step is not the one whose list has changed.
LEMMA StillInStep ==
  ASSUME IInv, goal' \in {goal, NULL}, protectFile' = protectFile, NEW k \in Managers,
         inStep' = inStep \/ OutOfStep(k),
         \A m \in Managers \ {k} : book'[m] = book[m] /\ mpc'[m] = mpc[m],
         inStep' = k => book'[k] = book[k] /\ Up(k)'
  PROVE  \A m \in Managers : GoalOf(m)'
<1>. SUFFICES ASSUME NEW m \in Managers, inStep' = m
              PROVE  Up(m)' /\ (goal' # NULL => goal' = Text(m)')
  BY DEF GoalOf
<1>1. inStep = m /\ book'[m] = book[m]
  BY ManagedAssumption DEF OutOfStep
<1>2. Up(m)'
  BY <1>1 DEF IInv, GoalOf, Up
<1>. QED  BY <1>1, <1>2, SameText DEF IInv, GoalOf

\* A manager that goes is not in step any more.
LEMMA GoneOutOfStep ==
  ASSUME ManagersTyped, NEW k \in Managers, NEW place, Gone(k, place)
  PROVE  /\ inStep' # k /\ OutOfStep(k) /\ mpc'[k] = place
         /\ \A m \in Managers \ {k} : book'[m] = book[m] /\ mpc'[m] = mpc[m]
  BY ManagedAssumption DEF Gone, OutOfStep, Goto, ManagersTyped

\* Additions, removals, ends and new starts.
LEMMA OperatorKeeps ==
  ASSUME ManagersTyped, KernelInv, IInv, NEW k \in Managers, Operator(k)
  PROVE  IInv'
<1>. USE DEF ManagersTyped, Goto, inodeVars
<1>1. \A m \in Managers \ {k} : mpc'[m] = mpc[m] /\ book'[m] = book[m]
  BY DEF Operator, AddFile, RemoveFile, Quit, Gone, Bury, Start
<1>2. CASE Bury(k)
  <2>1. Kernel!Return(k) \/ Kernel!RestartWriter(k)
    BY <1>2, SameCheck, SameWrite DEF Bury
  <2>2. Kernel!Typed
    BY DEF KernelInv
  <2>3. \A m \in Managers \ {k} : Untouched(m)
    BY <1>1, <1>2, <2>1, <2>2, CheckChecks, WriteCalls
       DEF Bury, Untouched, Checks, Calls, HandlersStay, ChecksStay, Task
  <2>4. Placed(k)'
    <3>1. Placed(k) /\ mpc[k] = "dead" /\ mpc'[k] = "down"
      BY <1>2 DEF IInv, Bury
    <3>2. CASE Kernel!Return(k)
      <4>1. /\ rpc[k] \in {"done"} \cup Kernel!Dead /\ rpc'[k] = "idle"
            /\ wpc' = wpc /\ ~overlapped'[k]
        BY <3>2, <2>2, CheckChecks DEF Checks
      <4>. QED  BY ONLY <3>1, <4>1 DEF Placed, Kernel!Dead
    <3>3. CASE Kernel!RestartWriter(k)
      <4>1. /\ wpc[k] \in Kernel!Dead /\ wpc'[k] = "idle"
            /\ rpc' = rpc /\ overlapped' = overlapped
        BY <3>3, <2>2, WriteCalls DEF Calls, ChecksStay, Task
      <4>. QED  BY ONLY <3>1, <4>1 DEF Placed, Kernel!Dead
    <3>. QED  BY <2>1, <3>2, <3>3
  <2>5. goal' = goal
    BY <2>1, <2>2, CheckChecks, WriteCalls DEF Checks, Calls, Task
  <2>6. \A m \in Managers : GoalOf(m)'
    <3>1. inStep # k
      BY <1>2 DEF Bury, IInv, GoalOf, Up
    <3>. QED  BY <1>1, <1>2, <2>5, <3>1, StillInStep DEF Bury
  <2>. QED  BY <2>3, <2>4, <2>6, UntouchedPlaced DEF IInv
<1>3. ASSUME Quit(k) \/ \E f \in Files : AddFile(k, f) PROVE IInv'
  <2>1. /\ mpc[k] \in {"menu", "refresh"} /\ mpc'[k] \in {"down", "refresh"}
        /\ UNCHANGED <<protectFile, kernelVars>> /\ OutOfStep(k)
    BY <1>3 DEF AddFile, Quit, Gone
  <2>2. Placed(k)'
    BY <2>1 DEF IInv, Placed, kernelVars
  <2>3. inStep' # k
    BY <2>1, ManagedAssumption DEF OutOfStep
  <2>4. \A m \in Managers : GoalOf(m)'
    BY <1>1, <2>1, <2>3, StillInStep DEF kernelVars
  <2>. QED  BY <1>1, <2>1, <2>2, <2>4, SameKernel, UntouchedPlaced DEF IInv
<1>4. ASSUME NEW n, RemoveFile(k, n) PROVE IInv'
  <2>1. /\ mpc[k] = "menu" /\ mpc'[k] = "refresh"
        /\ UNCHANGED <<protectFile, kernelVars>>
        /\ OutOfStep(k) \/ UNCHANGED <<book, inStep>>
    BY <1>4 DEF RemoveFile
  <2>2. Placed(k)'
    BY <2>1 DEF IInv, Placed, kernelVars
  <2>3. inStep' = k => book'[k] = book[k] /\ Up(k)'
    BY <2>1, ManagedAssumption DEF OutOfStep, Up
  <2>4. \A m \in Managers : GoalOf(m)'
    BY <1>1, <2>1, <2>3, StillInStep DEF kernelVars
  <2>. QED  BY <1>1, <2>1, <2>2, <2>4, SameKernel, UntouchedPlaced DEF IInv
<1>5. ASSUME Start(k) PROVE IInv'
  <2>1. /\ mpc[k] = "down" /\ mpc'[k] = "menu" /\ UNCHANGED <<book, inStep, kernelVars>>
    BY <1>5 DEF Start
  <2>2. Placed(k)'
    BY <2>1 DEF IInv, Placed, kernelVars
  <2>3. CASE protectFile' = protectFile
    <3>1. inStep # k
      BY <2>1 DEF IInv, GoalOf, Up
    <3>2. \A m \in Managers : GoalOf(m)'
      BY <1>1, <2>1, <2>3, <3>1, StillInStep DEF kernelVars
    <3>. QED  BY <1>1, <2>1, <2>2, <2>3, <3>2, SameKernel, UntouchedPlaced DEF IInv
  <2>4. CASE protectFile' # protectFile
    <3>1. \A m \in Managers : ~Up(m)
      BY <1>5, <2>4 DEF Start
    <3>2. \A m \in Managers : GoalOf(m)'
      BY <2>1, <3>1 DEF IInv, GoalOf
    <3>3. ASSUME NEW m \in Managers \ {k} PROVE Placed(m)'
      <4>1. mpc'[m] = mpc[m] /\ mpc[m] \in {"down", "dead"}
        BY <1>1, <3>1 DEF Up
      <4>2. UNCHANGED <<rpc, wpc, overlapped>> /\ Placed(m)
        BY <2>1 DEF kernelVars, IInv
      <4>. QED  BY ONLY <4>1, <4>2 DEF Placed
    <3>. QED  BY <2>2, <3>2, <3>3 DEF IInv
  <2>. QED  BY <2>3, <2>4
<1>. QED  BY <1>2, <1>3, <1>4, <1>5 DEF Operator

\* The hooked write up to the real one.
LEMMA HookKeeps ==
  ASSUME ManagersTyped, KernelInv, IInv, NEW k \in Managers,
         EnterHook(k) \/ HookStep(k) \/ LeaveHook(k)
  PROVE  IInv'
<1>. USE DEF ManagersTyped, Goto, inodeVars
<1>1. Kernel!Typed
  BY DEF KernelInv
<1>2. Kernel!ReaderStep(k) \/ Kernel!Return(k)
        \/ Kernel!Call(k, WriteCheck) \/ Kernel!CallWhileDisabled(k, WriteCheck)
  BY SameCheck, SameReaderStep DEF EnterHook, HookStep, LeaveHook
<1>3. Checks(k) /\ protectFile' = protectFile /\ WriteCheck' = WriteCheck
  BY <1>1, <1>2, CheckChecks DEF EnterHook, HookStep, LeaveHook, WriteCheck
<1>4. /\ \A m \in Managers \ {k} : book'[m] = book[m] /\ mpc'[m] = mpc[m]
      /\ inStep' = inStep \/ OutOfStep(k)
      /\ inStep' = k => book'[k] = book[k] /\ Up(k)'
  <2>1. CASE EnterHook(k)
    BY <2>1 DEF EnterHook, Up
  <2>2. CASE HookStep(k)
    BY <2>2, GoneOutOfStep DEF HookStep, Up
  <2>3. CASE LeaveHook(k)
    BY <2>3 DEF LeaveHook, AfterCheck, Up
  <2>. QED  BY <2>1, <2>2, <2>3
<1>5. \A m \in Managers \ {k} : Untouched(m)
  BY <1>3, <1>4 DEF Untouched, Checks
<1>6. Placed(k)
  BY DEF IInv
<1>7. wpc' = wpc /\ asked' = asked
  BY <1>3 DEF Checks
<1>8. ASSUME EnterHook(k) PROVE Placed(k)'
  <2>1. mpc[k] = "refresh" /\ mpc'[k] = "hook"
    BY <1>8 DEF EnterHook
  <2>2. Kernel!Call(k, WriteCheck) \/ Kernel!CallWhileDisabled(k, WriteCheck)
    BY <1>8, SameCheck DEF EnterHook
  <2>3. /\ req'[k] = WriteCheck /\ overlapped' = overlapped
        /\ rpc[k] = "idle" /\ rpc'[k] \in {"start", "done"}
    BY <1>1, <2>2, CheckChecks
  <2>. QED  BY ONLY <1>3, <1>6, <1>7, <2>1, <2>3 DEF Placed, Kernel!Dead
<1>9. ASSUME HookStep(k) PROVE Placed(k)'
  <2>1. mpc[k] = "hook" /\ mpc'[k] = IF rpc'[k] \in Kernel!Dead THEN "dead" ELSE "hook"
    BY <1>9 DEF HookStep, Gone, List!Dead, Kernel!Dead
  <2>2. /\ req'[k] = req[k]
        /\ rpc[k] \notin {"idle", "done"} \cup Kernel!Dead /\ rpc'[k] \notin {"idle", "start"}
    BY <1>1, <1>9, SameReaderStep, CheckChecks DEF HookStep
  <2>. QED  BY ONLY <1>3, <1>6, <1>7, <2>1, <2>2 DEF Placed
<1>10. ASSUME LeaveHook(k) PROVE Placed(k)'
  <2>1. mpc[k] = "hook" /\ mpc'[k] \in {"menu", "write"}
    BY <1>10 DEF LeaveHook, AfterCheck
  <2>2. rpc'[k] = "idle" /\ ~overlapped'[k]
    BY <1>1, <1>10, SameCheck, CheckChecks DEF LeaveHook
  <2>. QED  BY ONLY <1>6, <1>7, <2>1, <2>2 DEF Placed, Kernel!Dead
<1>11. \A m \in Managers : GoalOf(m)'
  BY <1>3, <1>4, StillInStep DEF Checks
<1>. QED  BY <1>5, <1>8, <1>9, <1>10, <1>11, UntouchedPlaced DEF IInv

\* The handler; from the first step in the list its text is the goal.
LEMMA HandlerKeeps ==
  ASSUME ManagersTyped, KernelInv, IInv, NEW k \in Managers,
         EnterHandler(k) \/ HandlerStep(k) \/ HandlerFails(k)
  PROVE  IInv'
<1>. USE DEF ManagersTyped, Goto, inodeVars
<1>1. Kernel!Typed /\ k \in Task
  BY DEF KernelInv, Task
<1>2. Placed(k) /\ mpc[k] = "write"
  BY DEF IInv, EnterHandler, HandlerStep, HandlerFails
<1>3. /\ \A m \in Managers \ {k} : book'[m] = book[m] /\ mpc'[m] = mpc[m]
      /\ protectFile' = protectFile
  <2>1. CASE EnterHandler(k)
    BY <2>1, GoneOutOfStep DEF EnterHandler
  <2>2. CASE HandlerStep(k)
    BY <2>2, GoneOutOfStep DEF HandlerStep
  <2>3. CASE HandlerFails(k)
    BY <2>3 DEF HandlerFails
  <2>. QED  BY <2>1, <2>2, <2>3
<1>4. ASSUME Calls(k) \/ Handles(k) PROVE \A m \in Managers \ {k} : Untouched(m)
  BY <1>3, <1>4 DEF Untouched, Calls, Handles, HandlersStay, ChecksStay, EarlyChecksStay, Task
<1>5. ASSUME EnterHandler(k) PROVE IInv'
  <2>1. \/ Kernel!EmptyWrite(k) /\ Text(k) = <<>>
        \/ Kernel!ProtectWrite(k, Text(k))
    BY <1>5, SameWrite DEF EnterHandler
  <2>2. asked[k] = <<>>
    BY <1>1, <1>5 DEF EnterHandler, KernelInv, Kernel!TextInv, Kernel!Called, Task
  <2>3. Calls(k) /\ wpc'[k] \in {"begin"} \cup Kernel!Dead /\ asked'[k] = Text(k)
    BY <1>1, <2>1, <2>2, WriteCalls
  <2>4. rpc' = rpc /\ overlapped' = overlapped /\ goal' = goal
    BY <2>3 DEF Calls, ChecksStay
  <2>5. CASE wpc'[k] \in Kernel!Dead
    <3>1. Gone(k, "dead")
      BY <1>5, <2>5 DEF EnterHandler, List!Dead, Kernel!Dead
    <3>2. mpc'[k] = "dead" /\ inStep' # k /\ OutOfStep(k)
      BY <3>1, GoneOutOfStep
    <3>3. Placed(k)'
      BY ONLY <1>2, <2>4, <2>5, <3>2 DEF Placed, Kernel!Dead
    <3>4. \A m \in Managers : GoalOf(m)'
      BY <1>3, <2>4, <3>2, StillInStep
    <3>. QED  BY <1>4, <2>3, <3>3, <3>4, UntouchedPlaced DEF IInv
  <2>6. CASE wpc'[k] \notin Kernel!Dead
    <3>1. UNCHANGED <<mpc, book, inStep>>
      BY <1>5, <2>6 DEF EnterHandler, List!Dead, Kernel!Dead
    <3>2. Text(k)' = Text(k)
      BY <1>3, <3>1, SameText
    <3>3. Placed(k)'
      BY ONLY <1>2, <2>3, <2>4, <2>6, <3>1, <3>2 DEF Placed
    <3>4. \A m \in Managers : GoalOf(m)'
      BY <1>3, <2>4, <3>1, <1>2, StillInStep DEF Up
    <3>. QED  BY <1>4, <2>3, <3>3, <3>4, UntouchedPlaced DEF IInv
  <2>. QED  BY <2>5, <2>6
<1>6. ASSUME HandlerFails(k) PROVE IInv'
  <2>1. Calls(k) /\ wpc' = wpc
    BY <1>1, <1>6, SameWrite, WriteCalls DEF HandlerFails
  <2>2. wpc[k] = "idle" /\ mpc'[k] = "menu" /\ book' = book /\ inStep' = inStep
    BY <1>6 DEF HandlerFails, List!WriteFaults
  <2>3. rpc' = rpc /\ overlapped' = overlapped /\ goal' = goal
    BY <2>1 DEF Calls, ChecksStay
  <2>4. Placed(k)'
    BY ONLY <1>2, <2>1, <2>2, <2>3 DEF Placed
  <2>5. \A m \in Managers : GoalOf(m)'
    BY <1>3, <2>2, <2>3, StillInStep DEF Up
  <2>. QED  BY <1>4, <2>1, <2>4, <2>5, UntouchedPlaced DEF IInv
<1>7. ASSUME HandlerStep(k) PROVE IInv'
  <2>1. Handles(k)
    BY <1>1, <1>7, SameWriterStep, HandlerHandles DEF HandlerStep
  <2>2. wpc[k] # "idle" /\ asked[k] = Text(k) /\ rpc[k] = "idle"
    BY <1>2, <2>1 DEF Handles, Placed
  <2>3. rpc' = rpc /\ overlapped'[k] = overlapped[k]
    BY <2>1, <2>2 DEF Handles, ChecksStay, EarlyChecksStay
  <2>4. CASE wpc'[k] = "idle"
    <3>1. mpc'[k] = "menu" /\ UNCHANGED <<book, inStep>>
      BY <1>7, <2>4 DEF HandlerStep, List!Dead
    <3>2. Placed(k)'
      BY ONLY <1>2, <2>2, <2>3, <2>4, <3>1 DEF Placed
    <3>3. goal' \in {goal, NULL}
      BY <2>1, <2>4 DEF Handles
    <3>4. \A m \in Managers : GoalOf(m)'
      BY <1>3, <3>1, <3>3, StillInStep DEF Up
    <3>. QED  BY <1>4, <2>1, <3>2, <3>4, UntouchedPlaced DEF IInv
  <2>5. CASE wpc'[k] \in Kernel!Dead
    <3>1. Gone(k, "dead")
      BY <1>7, <2>5 DEF HandlerStep, List!Dead, Kernel!Dead
    <3>2. mpc'[k] = "dead" /\ inStep' # k /\ OutOfStep(k)
      BY <3>1, GoneOutOfStep
    <3>3. Placed(k)'
      BY ONLY <1>2, <2>2, <2>3, <2>5, <3>2 DEF Placed, Kernel!Dead
    <3>4. goal' \in {goal, NULL}
      BY <2>1, <2>5 DEF Handles, Kernel!Dead
    <3>5. \A m \in Managers : GoalOf(m)'
      BY <1>3, <3>2, <3>4, StillInStep
    <3>. QED  BY <1>4, <2>1, <3>3, <3>5, UntouchedPlaced DEF IInv
  <2>6. CASE wpc'[k] \notin {"idle"} \cup Kernel!Dead
    <3>1. /\ UNCHANGED <<mpc, book>>
          /\ inStep' = IF wpc[k] = "begin" THEN k ELSE inStep
      BY <1>7, <2>6 DEF HandlerStep, List!Dead, Kernel!Dead
    <3>2. Text(k)' = Text(k) /\ asked'[k] = Text(k)
      BY <1>3, <2>1, <2>2, <2>6, <3>1, SameText DEF Handles
    <3>3. Placed(k)'
      BY ONLY <1>2, <2>2, <2>3, <2>6, <3>1, <3>2 DEF Placed
    <3>4. \A m \in Managers : GoalOf(m)'
      <4>1. CASE wpc[k] = "begin"
        <5>1. goal' = Text(k) /\ inStep' = k
          BY <2>1, <2>2, <3>1, <4>1 DEF Handles
        <5>. QED  BY <1>2, <3>1, <3>2, <5>1 DEF GoalOf, Up
      <4>2. CASE wpc[k] # "begin"
        <5>1. goal' \in {goal, NULL} /\ inStep' = inStep
          BY <2>1, <3>1, <4>2 DEF Handles
        <5>. QED  BY <1>2, <1>3, <3>1, <5>1, StillInStep DEF Up
      <4>. QED  BY <4>1, <4>2
    <3>. QED  BY <1>4, <2>1, <3>3, <3>4, UntouchedPlaced DEF IInv
  <2>. QED  BY <2>4, <2>5, <2>6
<1>. QED  BY <1>5, <1>6, <1>7

\* Another program at the control file puts every manager out of step.
LEMMA ControlKeeps ==
  ASSUME ManagersTyped, KernelInv, IInv, NEW o \in Others, Control(o)
  PROVE  IInv'
<1>1. Kernel!Typed /\ o \in Task /\ o \notin Managers
  BY ManagedAssumption DEF KernelInv, Task
<1>2. \/ \E text : Kernel!CtrlWrite(o, text)
      \/ Kernel!WriterStep(o) \/ Kernel!RestartWriter(o)
  BY SameWrite, SameWriterStep DEF Control
<1>3. Calls(o) \/ Handles(o)
  BY <1>1, <1>2, WriteCalls, HandlerHandles
<1>4. \A m \in Managers : Untouched(m)
  BY <1>1, <1>3 DEF Control, Untouched, Calls, Handles, HandlersStay, ChecksStay,
                    EarlyChecksStay, Task, inodeVars
<1>5. /\ inStep' = (IF wpc[o] = "begin" THEN NULL ELSE inStep)
      /\ UNCHANGED <<book, mpc, protectFile>>
  BY DEF Control, inodeVars
<1>6. goal' \in {goal, NULL} \/ wpc[o] = "begin"
  BY <1>3 DEF Calls, Handles
<1>7. \A m \in Managers : GoalOf(m)'
  BY <1>5, <1>6, ManagedAssumption, SameText DEF IInv, GoalOf, Up
<1>. QED  BY <1>4, <1>7, UntouchedPlaced DEF IInv

\* The induction.
LEMMA IInvStep ==
  ASSUME ManagersTyped, KernelInv, IInv, [Next]_vars
  PROVE  IInv'
<1>1. CASE UNCHANGED vars
  <2>1. UNCHANGED <<kernelVars, mpc, book, protectFile, inStep>>
    BY <1>1 DEF vars, managerVars, inodeVars
  <2>2. \A m \in Managers : Untouched(m)
    BY <2>1, SameKernel
  <2>3. goal' = goal
    BY <2>1 DEF kernelVars
  <2>. QED  BY <2>1, <2>2, <2>3, UntouchedPlaced, SameText DEF IInv, GoalOf, Up
<1>. QED
  BY <1>1, OperatorKeeps, HookKeeps, HandlerKeeps, ControlKeeps DEF Next, Refresh

LEMMA IInvInit == Init => IInv
<1>. SUFFICES ASSUME Init, NEW m \in Managers PROVE Placed(m) /\ GoalOf(m)
  BY DEF IInv
<1>1. rpc[m] = "idle" /\ wpc[m] = "idle" /\ ~overlapped[m]
  BY DEF Init, List!Init
<1>2. mpc[m] = "down" /\ inStep # m
  BY ManagedAssumption DEF Init
<1>. QED  BY ONLY <1>1, <1>2 DEF Placed, GoalOf

LEMMA IInvHolds == Spec => []IInv
  BY IInvInit, IInvStep, KernelHolds, PTL DEF Spec

-----------------------------------------------------------------------------
(* The theorems.                                                           *)

\* The list in the kernel, at rest, is what the operator of the manager whose text
\* it took last means by a list that has not changed since, for any number of
\* managers, whose checks and handlers interleave load by load: InForce, what
\* refreshFileList, the hooked write and proc_protect_write come to.
THEOREM StaysInForce == Spec => []InForce
<1>1. ManagersTyped /\ KernelInv /\ IInv => InForce
  <2>. SUFFICES ASSUME ManagersTyped, KernelInv, IInv PROVE InForce
    OBVIOUS
  <2>1. TypeOK
    <3>1. List!TypeOK
      BY SameType DEF KernelInv, Kernel!Typed
    <3>. QED  BY <3>1 DEF TypeOK, ManagersTyped, IInv, Placed, List!Dead, Kernel!Dead
  <2>2. ASSUME AtRest, ~clashed, goal # NULL, NEW m \in Managers, inStep = m
        PROVE  List!Rules = Meant(Present(m))
    <3>1. Kernel!Rules = Kernel!Accepted(goal)
      BY <2>2 DEF KernelInv, Kernel!ListMatchesText, AtRest, List!UsesList, Kernel!UsesList
    <3>2. goal = TextOf(Present(m))
      BY <2>2 DEF IInv, GoalOf, Text
    <3>3. Accepted(TextOf(Present(m))) = Meant(Present(m))
      BY BookText, TextUnderstood
    <3>4. List!Rules = Kernel!Rules
      BY DEF List!Rules, Kernel!Rules
    <3>. QED  BY <3>1, <3>2, <3>3, <3>4, SameAccepted
  <2>. QED  BY <2>1, <2>2 DEF InForce
<1>. QED  BY <1>1, KernelHolds, IInvHolds, PTL

-----------------------------------------------------------------------------
(* Locked out.                                                             *)

\* Rules and switch stay, and no handler starts.
ListStays ==
  /\ List!Rules' = List!Rules /\ UNCHANGED <<protect_enabeled, clashed>>
  /\ \A v \in Task : wpc'[v] \in {wpc[v], "idle"}

\* m does not get to its handler, and its check cannot have missed a rule.
Stopped(m) ==
  /\ mpc'[m] # "write"
  /\ mpc'[m] = "hook" => ~overlapped'[m] /\ (rpc'[m] = "done" => verdict'[m])

\* Then the lock holds.
LEMMA StaysLocked ==
  ASSUME LockedOut, ListStays, protectFile' = protectFile, \A m \in Managers : Stopped(m)
  PROVE  LockedOut' /\ List!Rules' = List!Rules
<1>1. protect_enabeled' /\ ~clashed'
  BY DEF LockedOut, ListStays
<1>2. \A w \in Task : ~List!UsesList(w)'
  BY DEF LockedOut, ListStays, AtRest, List!UsesList, Task
<1>3. \E i \in DOMAIN List!Rules' : List!Match(WriteCheck, List!Rules'[i])
  BY DEF LockedOut, ListStays
<1>4. \A o \in Others : wpc'[o] = "idle"
  BY DEF LockedOut, ListStays, Task
<1>. QED
  BY <1>1, <1>2, <1>3, <1>4
     DEF LockedOut, AtRest, Stopped, List!Match, Task, WriteCheck, ListStays

\* A manager that takes no step is stopped as before.
LEMMA StaysStopped ==
  ASSUME LockedOut, NEW m \in Managers, mpc'[m] = mpc[m], rpc'[m] = rpc[m],
         verdict'[m] = verdict[m], overlapped'[m] = overlapped[m]
  PROVE  Stopped(m)
  BY DEF LockedOut, Stopped

\* Checks leave the list alone, and so do new starts.
LEMMA CheckStays ==
  ASSUME NEW r, \/ Kernel!ReaderStep(r) \/ Kernel!Return(r)
                \/ \E q : Kernel!Call(r, q)
  PROVE  ListStays
<1>. USE DEF Kernel!listVars, Kernel!writerVars, Kernel!ctrlVars, Kernel!history
<1>1. UNCHANGED <<chain, entry, protect_enabeled, clashed, wpc>>
  BY DEF Kernel!ReaderStep, Kernel!Start, Kernel!Visit, Kernel!Advance, Kernel!Notify,
         Kernel!NotifyStarves, Kernel!ReaderFault, Kernel!Return, Kernel!Call
<1>. QED  BY <1>1 DEF ListStays, List!Rules

LEMMA RestartStays ==
  ASSUME Kernel!Typed, NEW k \in Managers, Kernel!RestartWriter(k)
  PROVE  ListStays
<1>1. UNCHANGED <<chain, entry, protect_enabeled, clashed>>
  BY DEF Kernel!RestartWriter, Kernel!listVars, Kernel!others, Kernel!ctrlVars
<1>2. \A v \in Task : wpc'[v] \in {wpc[v], "idle"}
  BY DEF Kernel!RestartWriter, Kernel!Leave, Kernel!Goto, Kernel!Typed, Kernel!TypeOK, Task
<1>. QED  BY <1>1, <1>2 DEF ListStays, List!Rules

\* Where a check concludes it answers right.
RightAnswers ==
  \A r \in Managers :
    Kernel!Concludes(r) /\ ~overlapped'[r] /\ ~clashed => Kernel!AnsweredRight(r)

\* A check that no destroy_list disturbs meets the rule: it walks on or refuses.
LEMMA HookStops ==
  ASSUME ManagersTyped, Kernel!Typed, IInv, LockedOut, NEW k \in Managers, HookStep(k),
         RightAnswers \/ UNCHANGED Kernel!vars
  PROVE  Stopped(k)
<1>1. /\ Kernel!ReaderStep(k) /\ Placed(k) /\ mpc[k] = "hook"
      /\ mpc'[k] \in {"hook", "dead"}
  BY SameReaderStep, GoneOutOfStep DEF HookStep, IInv, Placed
<1>2. ~overlapped'[k]
  <2>1. ~Kernel!Dismantling /\ ~overlapped[k]
    BY <1>1 DEF LockedOut, AtRest, List!UsesList, Kernel!Dismantling
  <2>2. CASE Kernel!Start(k)
    BY <2>1, <2>2 DEF Kernel!Start, Kernel!Typed, Kernel!TypeOK
  <2>3. CASE ~Kernel!Start(k)
    <3>1. overlapped' = overlapped
      BY <1>1, <2>3 DEF Kernel!ReaderStep, Kernel!Visit, Kernel!Advance, Kernel!Notify,
                        Kernel!NotifyStarves, Kernel!ReaderFault
    <3>. QED  BY <2>1, <3>1
  <2>. QED  BY <2>2, <2>3
<1>3. ASSUME rpc'[k] = "done" PROVE verdict'[k]
  <2>1. rpc[k] \notin {"idle", "done"} \cup Kernel!Dead
    BY <1>1, CheckChecks
  <2>2. RightAnswers
    BY <1>3, <2>1 DEF Kernel!vars, Kernel!others, Kernel!checkVars
  <2>3. Kernel!AnsweredRight(k)
    BY <1>2, <1>3, <2>1, <2>2 DEF RightAnswers, Kernel!Concludes, LockedOut
  <2>4. req[k] = WriteCheck
    BY <1>1 DEF Placed
  <2>5. \E i \in DOMAIN Kernel!Rules : Kernel!Match(req[k], Kernel!Rules[i])
    BY <2>4 DEF LockedOut, List!Rules, Kernel!Rules, List!Match, Kernel!Match
  <2>. QED  BY ONLY <2>3, <2>5 DEF Kernel!AnsweredRight
<1>. QED  BY <1>1, <1>2, <1>3 DEF Stopped

\* Whatever a manager does, it is stopped,
LEMMA ManagerStops ==
  ASSUME ManagersTyped, Kernel!Typed, IInv, LockedOut, NEW k \in Managers,
         Operator(k) \/ Refresh(k) \/ HandlerFails(k),
         RightAnswers \/ UNCHANGED Kernel!vars
  PROVE  ListStays /\ Stopped(k)
<1>. USE DEF ManagersTyped, Goto
<1>1. mpc[k] # "write"
  BY DEF LockedOut
<1>2. CASE Operator(k) /\ ~Bury(k)
  <2>1. UNCHANGED kernelVars /\ mpc'[k] \in {"down", "menu", "refresh"}
    BY <1>2 DEF Operator, AddFile, RemoveFile, Quit, Gone, Start
  <2>. QED  BY <2>1 DEF kernelVars, ListStays, List!Rules, Stopped
<1>3. CASE Bury(k)
  <2>1. mpc'[k] = "down" /\ (Kernel!Return(k) \/ Kernel!RestartWriter(k))
    BY <1>3, SameCheck, SameWrite DEF Bury
  <2>. QED  BY <2>1, CheckStays, RestartStays DEF Stopped
<1>4. CASE EnterHook(k)
  <2>1. ~Kernel!CallWhileDisabled(k, WriteCheck)
    BY DEF LockedOut, Kernel!CallWhileDisabled, Kernel!Switched
  <2>2. Kernel!Call(k, WriteCheck)
    BY <1>4, <2>1, SameCheck DEF EnterHook
  <2>3. rpc[k] = "idle" /\ overlapped' = overlapped /\ rpc'[k] = "start"
    BY <2>2 DEF Kernel!Call, Kernel!CheckGoto, Kernel!Typed, Kernel!TypeOK
  <2>4. ~overlapped[k] /\ mpc'[k] = "hook"
    BY <1>4, <2>3 DEF IInv, Placed, EnterHook
  <2>. QED  BY <2>2, <2>3, <2>4, CheckStays DEF Stopped
<1>5. CASE HookStep(k)
  BY <1>5, HookStops, SameReaderStep, CheckStays DEF HookStep
<1>6. CASE LeaveHook(k)
  <2>1. mpc'[k] = "menu"
    BY <1>6 DEF LockedOut, LeaveHook, AfterCheck
  <2>. QED  BY <1>6, <2>1, SameCheck, CheckStays DEF LeaveHook, Stopped
<1>. QED
  BY <1>1, <1>2, <1>3, <1>4, <1>5, <1>6
     DEF Refresh, EnterHandler, HandlerStep, HandlerFails

\* ... and so is every other one.
LEMMA OthersStop ==
  ASSUME ManagersTyped, Kernel!Typed, IInv, LockedOut, NEW k \in Managers,
         Operator(k) \/ Refresh(k) \/ HandlerFails(k),
         NEW m \in Managers \ {k}
  PROVE  Stopped(m)
<1>1. mpc'[m] = mpc[m]
  BY DEF ManagersTyped, Goto, Gone, Operator, AddFile, RemoveFile, Quit, Bury, Start,
         Refresh, EnterHook, HookStep, LeaveHook, EnterHandler, HandlerStep, HandlerFails
<1>2. mpc[k] # "write"
  BY DEF LockedOut
<1>3. \/ UNCHANGED kernelVars \/ Kernel!ReaderStep(k) \/ Kernel!Return(k)
      \/ Kernel!RestartWriter(k)
      \/ Kernel!Call(k, WriteCheck) \/ Kernel!CallWhileDisabled(k, WriteCheck)
  BY <1>2, SameCheck, SameWrite, SameReaderStep
     DEF Operator, AddFile, RemoveFile, Quit, Bury, Start, Refresh, EnterHook, HookStep,
         LeaveHook, EnterHandler, HandlerStep, HandlerFails
<1>4. rpc'[m] = rpc[m] /\ verdict'[m] = verdict[m] /\ overlapped'[m] = overlapped[m]
  BY <1>3, CheckChecks, WriteCalls DEF kernelVars, Checks, Calls, ChecksStay, Task
<1>. QED  BY <1>1, <1>4, StaysStopped

\* Only a start finds another inode, when all have gone.
LEMMA InodeStays ==
  ASSUME NEW k \in Managers, Operator(k) \/ Refresh(k) \/ HandlerFails(k)
  PROVE  protectFile' = protectFile \/ \A m \in Managers : ~Up(m)
  BY DEF inodeVars, Operator, AddFile, RemoveFile, Quit, Bury, Start, Refresh, EnterHook,
         HookStep, LeaveHook, EnterHandler, HandlerStep, HandlerFails

\* What a step from a locked state may do.
LockKept ==
  \/ \E o \in Others : wpc'[o] # "idle"
  \/ /\ List!Rules' = List!Rules
     /\ \/ LockedOut'
        \/ (\A m \in Managers : ~Up(m)) /\ protectFile' # protectFile

\* One step of anybody.
LEMMA LockStep ==
  ASSUME ManagersTyped, KernelInv, IInv, LockedOut, [Next]_vars,
         RightAnswers \/ UNCHANGED Kernel!vars
  PROVE  LockKept
<1>1. Kernel!Typed
  BY DEF KernelInv
<1>2. ASSUME NEW k \in Managers, Operator(k) \/ Refresh(k) \/ HandlerFails(k)
      PROVE  LockKept
  <2>1. ListStays /\ Stopped(k)
    BY <1>1, <1>2, ManagerStops
  <2>2. \A m \in Managers \ {k} : Stopped(m)
    BY <1>1, <1>2, OthersStop
  <2>3. CASE protectFile' = protectFile
    BY <2>1, <2>2, <2>3, StaysLocked DEF LockKept
  <2>4. CASE protectFile' # protectFile
    BY <1>2, <2>1, <2>4, InodeStays DEF LockKept, ListStays
  <2>. QED  BY <2>3, <2>4
<1>3. ASSUME NEW o \in Others, Control(o) PROVE LockKept
  <2>1. wpc[o] = "idle" /\ o \in Task
    BY DEF LockedOut, Task
  <2>2. ~Kernel!WriterStep(o)
    BY <1>1, <2>1, HandlerHandles DEF Handles
  <2>3. ~Kernel!RestartWriter(o)
    BY <1>1, <2>1, WriteCalls DEF Kernel!Dead
  <2>4. \E text : Kernel!CtrlWrite(o, text)
    BY <1>3, <2>2, <2>3, SameWrite, SameWriterStep DEF Control
  <2>5. wpc'[o] # "idle"
    BY <1>1, <2>1, <2>4, WriteCalls DEF Kernel!Dead
  <2>. QED  BY <2>5 DEF LockKept
<1>4. CASE UNCHANGED vars
  <2>1. ListStays /\ protectFile' = protectFile /\ \A m \in Managers : Stopped(m)
    BY <1>4 DEF vars, managerVars, inodeVars, kernelVars, ListStays, List!Rules, LockedOut,
                Stopped
  <2>. QED  BY <2>1, StaysLocked DEF LockKept
<1>. QED  BY <1>2, <1>3, <1>4 DEF Next

\* While a rule on the protect file is in force no manager, however many walk the
\* list at once, die, quit and start, changes a rule before another program uses the
\* control file, and the rule refuses them until all have gone at once and the file
\* has got another inode: LockHolds, modified_write and is_fd_protected.
THEOREM LockStays == Spec => LockHolds
<1>1. /\ ManagersTyped /\ KernelInv /\ IInv /\ [Next]_vars
      /\ [RightAnswers]_(Kernel!vars)
      => [LockedOut => LockKept]_vars
  BY LockStep
<1>2. Kernel!VerdictExact <=> [][RightAnswers]_(Kernel!vars)
  BY DEF Kernel!VerdictExact, RightAnswers
<1>3. LockHolds <=> [][LockedOut => LockKept]_vars
  BY DEF LockHolds, LockKept
<1>. QED  BY <1>1, <1>2, <1>3, KernelHolds, IInvHolds, PTL DEF Spec
=============================================================================
