--------------------------- MODULE ProtectListProofs ---------------------------
(***************************************************************************)
(* Theorems about ProtectList, for every number of handlers, checks and    *)
(* nodes: the variables keep their types; the list keeps its shape while   *)
(* no two handlers clash; what follows for the checks; that the list is    *)
(* what its text says; and that all this implements AccessPolicy.  One     *)
(* lemma per kind of step proves Heap', the theorems combine them.         *)
(***************************************************************************)
EXTENDS ProtectList, ProtectTextProofs

USE DEF others, history, Dead

-----------------------------------------------------------------------------
(* Type correctness.                                                       *)

\* An unused address holds a payload too.
LEMMA BlankType == Blank \in Entry
  BY ConstantsAssumption, TextAssumption DEF Blank, Entry, ProtectType

\* Words written to the control file are texts.
LEMMA ControlType == ControlTexts \subseteq Seq(Line) /\ Texts \subseteq Seq(Line)
<1>1. ASSUME NEW word \in Words
      PROVE  << [path |-> word, letter |-> NULL] >> \in Seq(Line)
  <2>1. [path |-> word, letter |-> NULL] \in Line
    BY ConstantsAssumption, TextAssumption DEF Line
  <2>. QED  BY <2>1
<1>. QED  BY <1>1, ConstantsAssumption, TextAssumption DEF ControlTexts

\* A handler about to link has a node to link, made from the line it is at: the
\* pointers stored next keep their type only because of it.
LinkHasNode ==
  \A w \in Writers : wpc[w] = "link" => aux[w] \in Addr /\ tmp[w] # <<>>
Typed == TypeOK /\ LinkHasNode

\* init_communicate gives every variable its type.
LEMMA InitType == Init => Typed
<1>. SUFFICES ASSUME Init PROVE Typed
  OBVIOUS
<1>1. <<>> \in Seq(Line) /\ <<>> \in Seq(Addr)
  OBVIOUS
<1>2. /\ root \in Addr \cup {NULL} /\ live \subseteq Addr /\ lost \subseteq Addr
      /\ nxt \in [Addr -> Addr \cup {NULL}] /\ entry \in [Addr -> Entry]
      /\ chain \in Seq(Addr) /\ raw_data_buff \in Seq(Line)
  BY <1>1, BlankType DEF Init
<1>3. /\ wpc \in [Writers -> WriterPlaces]
      /\ job \in [Writers -> {"none", "raw", "data"}]
      /\ cur \in [Writers -> Addr \cup {NULL}] /\ aux \in [Writers -> Addr \cup {NULL}]
      /\ tmp \in [Writers -> Seq(Line)] /\ asked \in [Writers -> Seq(Line)]
      /\ goal \in Seq(Line) \cup {NULL}
  BY <1>1 DEF Init, WriterPlaces
<1>4. /\ rpc \in [Readers -> ReaderPlaces] /\ req \in [Readers -> Requests \cup {NULL}]
      /\ p \in [Readers -> Addr \cup {NULL}]
      /\ notified \in [Readers -> Message \cup {NULL}]
  BY DEF Init, ReaderPlaces
<1>5. /\ verdict \in [Readers -> BOOLEAN] /\ overlapped \in [Readers -> BOOLEAN]
      /\ clashed \in BOOLEAN /\ protect_enabeled \in BOOLEAN
  BY DEF Init
<1>. QED
  BY <1>2, <1>3, <1>4, <1>5 DEF Init, Typed, LinkHasNode, TypeOK

\* A caller enters a write handler.
LEMMA WriterCallType ==
  ASSUME Typed, NEW w \in Writers, WriterCall(w)
  PROVE  Typed'
<1>. USE DEF Typed, LinkHasNode, TypeOK, Goto, NoteClash, WriterPlaces, listVars, checkVars, ctrlVars
<1>1. CASE EmptyWrite(w)
  BY <1>1 DEF EmptyWrite
<1>2. ASSUME NEW text \in Texts, ProtectWrite(w, text) PROVE Typed'
  BY <1>2, ControlType DEF ProtectWrite, CopyFromUser
<1>3. ASSUME NEW text \in Texts \cup ControlTexts, CtrlWrite(w, text) PROVE Typed'
  BY <1>3, ControlType DEF CtrlWrite, CopyFromUser
<1>4. ASSUME NEW text \in Texts \cup ControlTexts, WriteFaults(w, text) PROVE Typed'
  BY <1>4, ControlType DEF WriteFaults
<1>. QED  BY <1>1, <1>2, <1>3, <1>4 DEF WriterCall

\* A write handler takes a step.
LEMMA WriterStepType ==
  ASSUME Typed, NEW w \in Writers, WriterStep(w)
  PROVE  Typed'
<1>. USE DEF Typed, LinkHasNode, TypeOK, Goto, WriterPlaces, listVars, checkVars, ctrlVars
<1>1. CASE Dispatch(w)
  BY <1>1 DEF Dispatch
<1>2. CASE BeginDestroy(w)
  BY <1>2 DEF BeginDestroy, NoteClash
<1>3. CASE DestroyNode(w)
  <2>1. [entry EXCEPT ![cur[w]].inode = NULL] \in [Addr -> Entry]
    BY <1>3 DEF DestroyNode, Entry
  <2>2. entry' \in [Addr -> Entry]
    BY <1>3, <2>1 DEF DestroyNode
  <2>. QED  BY <1>3, <2>2 DEF DestroyNode
<1>4. CASE FreeNode(w)
  BY <1>4, BlankType DEF FreeNode, AfterFree
<1>5. CASE EndDestroy(w)
  BY <1>5 DEF EndDestroy, Emptied
<1>6. CASE FindTail(w)
  BY <1>6 DEF FindTail
<1>7. CASE SeekTail(w)
  BY <1>7 DEF SeekTail
<1>8. CASE CopyText(w)
  <2>1. Source(w) \in Seq(Line)
    BY DEF Source, data_buf
  <2>. QED  BY <1>8, <2>1 DEF CopyText
<1>9. CASE LastLine(w)
  BY <1>9 DEF LastLine, Leave
<1>10. CASE SkipLine(w)
  BY <1>10 DEF SkipLine, Rest
<1>11. CASE LinkNode(w)
  <2>1. aux[w] \in Addr /\ Tail(tmp[w]) \in Seq(Line)
    BY <1>11 DEF LinkNode
  <2>2. chain' \in Seq(Addr)
    BY <1>11, <2>1 DEF LinkNode
  <2>3. nxt' \in [Addr -> Addr \cup {NULL}] /\ root' \in Addr \cup {NULL}
    BY <1>11, <2>1 DEF LinkNode
  <2>. QED  BY <1>11, <2>1, <2>2, <2>3 DEF LinkNode, NewTail
<1>12. CASE AllocFault(w)
  BY <1>12 DEF AllocFault
<1>13. CASE WriterFault(w)
  BY <1>13 DEF WriterFault
<1>14. ASSUME NEW a \in Addr, NewNode(w, a) PROVE Typed'
  <2>1. EntryOf(Head(tmp[w])) \in Entry
    BY <1>14, EntryOfType DEF NewNode
  <2>. QED  BY <1>14, <2>1 DEF NewNode
<1>15. ASSUME NEW a \in Addr, NoLetterFault(w, a) PROVE Typed'
  BY <1>15 DEF NoLetterFault
<1>. QED
  BY <1>1, <1>2, <1>3, <1>4, <1>5, <1>6, <1>7, <1>8, <1>9, <1>10, <1>11, <1>12,
     <1>13, <1>14, <1>15 DEF WriterStep

\* The manager is started again.
LEMMA RestartType ==
  ASSUME Typed, NEW w \in Writers, RestartWriter(w)
  PROVE  Typed'
  BY DEF Typed, LinkHasNode, TypeOK, RestartWriter, Leave, Goto, WriterPlaces, listVars, checkVars, ctrlVars

\* A hook calls a check, the check takes a step, the hook has its answer.
LEMMA ReaderType ==
  ASSUME Typed, NEW r \in Readers, ReaderCall(r) \/ ReaderStep(r) \/ Return(r)
  PROVE  Typed'
<1>. USE DEF Typed, LinkHasNode, TypeOK, CheckGoto, ReaderPlaces, listVars, writerVars, ctrlVars
<1>1. ASSUME NEW q \in Requests, CallWhileDisabled(r, q) PROVE Typed'
  BY <1>1 DEF CallWhileDisabled, Answer
<1>2. ASSUME NEW q \in Requests, CallBadDescriptor(r, q) PROVE Typed'
  BY <1>2 DEF CallBadDescriptor
<1>3. ASSUME NEW q \in Requests, Call(r, q) PROVE Typed'
  BY <1>3 DEF Call
<1>4. CASE Start(r)
  BY <1>4 DEF Start, LoopOn, NoNode, Answer, Dismantling
<1>5. CASE Visit(r)
  BY <1>5 DEF Visit
<1>6. CASE Advance(r)
  BY <1>6 DEF Advance, Readable, NextNode, LoopOn, NoNode, Answer
<1>7. CASE Notify(r)
  <2>1. [path |-> entry[p[r]].path, type |-> entry[p[r]].type] \in Message
    BY <1>7 DEF Notify, Readable, Entry, Message
  <2>. QED  BY <1>7, <2>1 DEF Notify, Answer
<1>8. CASE NotifyStarves(r) \/ ReaderFault(r)
  BY <1>8 DEF NotifyStarves, ReaderFault
<1>9. CASE Return(r)
  BY <1>9 DEF Return
<1>. QED
  BY <1>1, <1>2, <1>3, <1>4, <1>5, <1>6, <1>7, <1>8, <1>9 DEF ReaderCall, ReaderStep

\* The inductive invariant behind type correctness.
LEMMA TypedAlways == Spec => []Typed
<1>1. Typed /\ [Next]_vars => Typed'
  <2>. SUFFICES ASSUME Typed, [Next]_vars PROVE Typed'
    OBVIOUS
  <2>1. CASE UNCHANGED vars
    BY <2>1 DEF vars, listVars, writerVars, checkVars, ctrlVars, Typed, LinkHasNode, TypeOK
  <2>2. CASE Next
    BY <2>2, WriterCallType, WriterStepType, RestartType, ReaderType DEF Next
  <2>. QED  BY <2>1, <2>2
<1>. QED  BY InitType, <1>1, PTL DEF Spec

\* Every variable keeps its type: whatever the tasks do to each other, clash or
\* no clash, a node holds a payload, a pointer an address or NULL, and the
\* handlers and checks are at a place of the code.
THEOREM TypeCorrect == Spec => []TypeOK
<1>1. Typed => TypeOK
  BY DEF Typed
<1>. QED  BY TypedAlways, <1>1, PTL
-----------------------------------------------------------------------------
(* The shape of the list.                                                  *)

\* NULL is no address, so a test against it tells a node from none.
LEMMA NoNodeIsNull == NULL \notin Addr
  BY ConstantsAssumption, TextAssumption

\* The list is a sequence of payloads, one per node.
LEMMA RulesAreEntries ==
  ASSUME Typed PROVE Rules \in Seq(Entry) /\ Len(Rules) = Len(chain)
<1>1. Len(chain) \in Nat /\ Rules = [i \in 1 .. Len(chain) |-> entry[chain[i]]]
  BY DEF Rules, Typed, TypeOK
<1>2. \A i \in 1 .. Len(chain) : entry[chain[i]] \in Entry
  BY DEF Typed, TypeOK
<1>. QED  BY <1>1, <1>2, IsASeq

\* Append, element by element.
LEMMA AppendIs ==
  ASSUME NEW S, NEW s \in Seq(S), NEW e \in S
  PROVE  Append(s, e) = [i \in 1 .. Len(s) + 1 |-> IF i = Len(s) + 1 THEN e ELSE s[i]]
<1>. DEFINE t == Append(s, e)
<1>1. /\ t \in Seq(S) /\ Len(t) = Len(s) + 1 /\ Len(s) \in Nat
      /\ \A i \in 1 .. Len(s) : t[i] = s[i]
      /\ t[Len(s) + 1] = e
  BY AppendProperties
<1>. HIDE DEF t
<1>2. t = [i \in 1 .. Len(s) + 1 |-> t[i]]
  BY <1>1
<1>3. \A i \in 1 .. Len(s) + 1 : t[i] = IF i = Len(s) + 1 THEN e ELSE s[i]
  BY <1>1
<1>. QED  BY <1>2, <1>3 DEF t

\* init_communicate leaves an empty list.
LEMMA InitHeap == Init => Heap
<1>. SUFFICES ASSUME Init PROVE Heap
  OBVIOUS
<1>1. Spelled
  BY DEF Init, Spelled, UsesList
<1>2. Standing /\ Owned
  BY DEF Init, Standing, Owned
<1>3. ASSUME NEW w \in Writers PROVE Placed(w)
  BY DEF Init, Placed
<1>4. ASSUME NEW r \in Readers PROVE OnTrack(r)
  BY DEF Init, OnTrack, Walking
<1>. QED  BY <1>1, <1>2, <1>3, <1>4 DEF Heap

\* A handler that neither is nor will be inside destroy_list, and leaves the
\* list alone: entering, dispatching, leaving, dying.
OutsideList(w) ==
  /\ \E place \in WriterPlaces \ {"unlink", "free", "tail", "seek", "copy", "line", "link"} :
       wpc' = [wpc EXCEPT ![w] = place]
  /\ wpc[w] \notin {"unlink", "free", "link"}
  /\ \A v \in Writers \ {w} : cur'[v] = cur[v] /\ aux'[v] = aux[v]
  /\ UNCHANGED <<listVars, checkVars, overlapped>>

\* A handler that is not at the list does it no harm.
LEMMA OutsideListHeap ==
  ASSUME Typed, Heap, NEW w \in Writers, OutsideList(w)
  PROVE  Heap'
<1>. USE DEF OutsideList, listVars, checkVars
<1>1. \A v \in Writers \ {w} : wpc'[v] = wpc[v]
  BY DEF Typed, TypeOK
<1>2. wpc'[w] \notin {"unlink", "free", "tail", "seek", "copy", "line", "link"}
  BY DEF Typed, TypeOK
<1>3. Dismantling' <=> Dismantling
  BY <1>1, <1>2 DEF Dismantling
<1>4. Spelled'
  BY <1>1, <1>2 DEF Heap, Spelled, UsesList, After
<1>5. Standing'
  BY <1>3 DEF Heap, Standing
<1>6. Owned'
  <2>1. Linking' = Linking
    BY <1>1, <1>2 DEF Linking
  <2>2. \A v \in Linking : aux'[v] = aux[v]
    BY DEF Linking
  <2>. QED  BY <2>1, <2>2 DEF Heap, Owned
<1>7. ASSUME NEW v \in Writers PROVE Placed(v)'
  <2>1. CASE v = w
    BY <2>1, <1>2 DEF Placed
  <2>2. CASE v # w
    BY <2>2, <1>1 DEF Heap, Placed, FreedUpTo, LastLinked, After
  <2>. QED  BY <2>1, <2>2
<1>8. ASSUME NEW r \in Readers PROVE OnTrack(r)'
  BY <1>3 DEF Heap, OnTrack, Walking
<1>. QED  BY <1>4, <1>5, <1>6, <1>7, <1>8 DEF Heap

-----------------------------------------------------------------------------
(* destroy_list.                                                           *)

\* The handler that takes the list down starts at its head; every walk is
\* marked; nobody else is at the list, or this is a clash.
LEMMA BeginDestroyHeap ==
  ASSUME Typed, Heap, NEW w \in Writers, BeginDestroy(w), ~clashed'
  PROVE  Heap'
<1>. USE DEF BeginDestroy, listVars, checkVars, Goto
<1>1. /\ \A v \in Writers \ {w} : wpc'[v] = wpc[v] /\ ~UsesList(v)
      /\ wpc'[w] = "unlink" /\ wpc[w] = "begin"
  BY DEF Typed, TypeOK, NoteClash
<1>2. ~Dismantling
  BY <1>1 DEF Dismantling, UsesList
<1>3. Spelled'
  BY <1>1 DEF Heap, Spelled, UsesList, After
<1>4. Standing' /\ Dismantling'
  BY <1>1, <1>2 DEF Heap, Standing, Dismantling
<1>5. Owned'
  <2>1. Linking = {} /\ Linking' = {}
    BY <1>1 DEF Linking, UsesList
  <2>. QED  BY <2>1 DEF Heap, Owned
<1>6. ASSUME NEW v \in Writers PROVE Placed(v)'
  <2>1. CASE v = w
    <3>1. chain \in Seq(Addr)
      BY DEF Typed, TypeOK
    <3>2. cur'[w] = root
      BY DEF Typed, TypeOK
    <3>3. FreedUpTo(1)'
      BY <1>2, <3>1 DEF Heap, Standing, FreedUpTo
    <3>4. cur'[w] = IF 1 > Len(chain) THEN NULL ELSE chain[1]
      BY <3>1, <3>2 DEF Heap, Spelled
    <3>5. 1 \in 1 .. Len(chain) + 1
      BY <3>1
    <3>. QED  BY <2>1, <1>1, <3>3, <3>4, <3>5 DEF Placed
  <2>2. CASE v # w
    BY <2>2, <1>1 DEF Placed, UsesList
  <2>. QED  BY <2>1, <2>2
<1>7. ASSUME NEW r \in Readers PROVE OnTrack(r)'
  BY DEF OnTrack, Walking, Typed, TypeOK
<1>. QED  BY <1>3, <1>4, <1>5, <1>6, <1>7 DEF Heap

\* Inside the list there is one handler.
LEMMA Alone ==
  ASSUME Typed, Heap, NEW w \in Writers, UsesList(w),
         NEW place, wpc' = [wpc EXCEPT ![w] = place]
  PROVE  /\ \A v \in Writers \ {w} : ~UsesList(v) /\ wpc'[v] = wpc[v]
         /\ wpc'[w] = place
         /\ Dismantling <=> wpc[w] \in {"unlink", "free"}
         /\ Dismantling' <=> place \in {"unlink", "free"}
         /\ Linking \subseteq {w} /\ Linking' = IF place = "link" THEN {w} ELSE {}
         /\ \A u, v \in Writers : UsesList(u)' /\ UsesList(v)' => u = v
         /\ \A v \in Writers \ {w} : Placed(v)'
<1>1. \A v \in Writers \ {w} : ~UsesList(v) /\ wpc'[v] = wpc[v]
  BY DEF Typed, TypeOK, Heap, Spelled
<1>2. wpc'[w] = place
  BY DEF Typed, TypeOK
<1>3. /\ Dismantling <=> wpc[w] \in {"unlink", "free"}
      /\ Dismantling' <=> place \in {"unlink", "free"}
  BY <1>1, <1>2 DEF Dismantling, UsesList
<1>4. Linking \subseteq {w} /\ Linking' = IF place = "link" THEN {w} ELSE {}
  BY <1>1, <1>2 DEF Linking, UsesList
<1>5. \A u, v \in Writers : UsesList(u)' /\ UsesList(v)' => u = v
  BY <1>1 DEF UsesList
<1>6. \A v \in Writers \ {w} : Placed(v)'
  BY <1>1 DEF Placed, UsesList
<1>. QED  BY <1>1, <1>2, <1>3, <1>4, <1>5, <1>6

\* No walk is on track while a list is taken down.
LEMMA NobodyOnTrack ==
  ASSUME Heap, Dismantling, UNCHANGED <<checkVars, overlapped>>, NEW r \in Readers
  PROVE  OnTrack(r)'
  BY DEF Heap, OnTrack, Walking, checkVars

\* p1->next is read and p1->inode cleared: the node is still allocated.
LEMMA DestroyNodeHeap ==
  ASSUME Typed, Heap, NEW w \in Writers, DestroyNode(w)
  PROVE  Heap'
<1>. USE DEF DestroyNode, Goto
<1>1. UsesList(w) /\ Dismantling
  BY DEF UsesList, Dismantling
<1>2. PICK k \in 1 .. Len(chain) + 1 :
        FreedUpTo(k) /\ cur[w] = IF k > Len(chain) THEN NULL ELSE chain[k]
  BY DEF Heap, Placed
<1>3. k \in DOMAIN chain /\ cur[w] = chain[k]
  <2>1. cur[w] # NULL /\ chain \in Seq(Addr)
    BY ConstantsAssumption, TextAssumption DEF Typed, TypeOK
  <2>. QED  BY <1>2, <2>1
<1>4. /\ wpc'[w] = "free" /\ aux'[w] = After(k) /\ cur'[w] = chain[k]
      /\ \A v \in Writers \ {w} : Placed(v)'
  <2>1. nxt[chain[k]] = After(k)
    BY <1>3 DEF Heap, Spelled
  <2>. QED  BY <1>1, <1>3, <2>1, Alone DEF Typed, TypeOK
<1>5. Spelled' /\ Standing'
  BY <1>1, Alone DEF Heap, Spelled, Standing, After
<1>6. Owned'
  BY <1>1, Alone DEF Heap, Owned, Linking
<1>7. Placed(w)'
  BY <1>2, <1>3, <1>4 DEF Placed, FreedUpTo, After
<1>8. ASSUME NEW r \in Readers PROVE OnTrack(r)'
  BY <1>1, NobodyOnTrack
<1>. QED  BY <1>4, <1>5, <1>6, <1>7, <1>8 DEF Heap

\* The freed node leaves the set of live ones; no one but this handler knows it.
LEMMA FreeNodeHeap ==
  ASSUME Typed, Heap, NEW w \in Writers, FreeNode(w)
  PROVE  Heap'
<1>. USE DEF FreeNode, Goto, AfterFree
<1>1. UsesList(w) /\ Dismantling
  BY DEF UsesList, Dismantling
<1>2. PICK k \in DOMAIN chain :
        FreedUpTo(k) /\ cur[w] = chain[k] /\ aux[w] = After(k)
  BY DEF Heap, Placed
<1>3. /\ wpc'[w] = "unlink" /\ cur'[w] = After(k)
      /\ \A v \in Writers \ {w} : Placed(v)'
  BY <1>1, <1>2, Alone DEF Typed, TypeOK
<1>4. Spelled'
  <2>1. \A u, v \in Writers : UsesList(u)' /\ UsesList(v)' => u = v
    BY <1>1, Alone
  <2>2. ASSUME NEW i \in DOMAIN chain, chain[i] \in live' PROVE nxt'[chain[i]] = After(i)
    <3>1. chain[i] # cur[w] /\ chain[i] \in live
      BY <2>2
    <3>. QED  BY <3>1 DEF Heap, Spelled, Typed, TypeOK
  <2>. QED  BY <2>1, <2>2 DEF Heap, Spelled, After
<1>5. Standing'
  <2>1. Dismantling' /\ chain[k] \notin lost
    BY <1>1, <1>2, Alone DEF Heap, Standing
  <2>. QED  BY <1>2, <2>1 DEF Heap, Standing
<1>6. Owned'
  BY <1>1, <1>2, Alone DEF Heap, Owned, Linking
<1>7. Placed(w)'
  <2>1. k + 1 \in 1 .. Len(chain) + 1 /\ chain \in Seq(Addr)
    BY <1>2 DEF Typed, TypeOK
  <2>2. FreedUpTo(k + 1)'
    BY <1>2, <2>1 DEF Heap, Spelled, FreedUpTo
  <2>3. After(k) = IF k + 1 > Len(chain) THEN NULL ELSE chain[k + 1]
    BY <1>2, <2>1 DEF After
  <2>. QED  BY <1>3, <2>1, <2>2, <2>3 DEF Placed
<1>8. ASSUME NEW r \in Readers PROVE OnTrack(r)'
  BY <1>1, NobodyOnTrack
<1>. QED  BY <1>3, <1>4, <1>5, <1>6, <1>7, <1>8 DEF Heap

\* The last node is gone before fileList_root is: nothing is left behind.
LEMMA EndDestroyHeap ==
  ASSUME Typed, Heap, NEW w \in Writers, EndDestroy(w)
  PROVE  Heap'
<1>. USE DEF EndDestroy, Goto, Emptied
<1>1. UsesList(w) /\ Dismantling
  BY DEF UsesList, Dismantling
<1>2. PICK k \in 1 .. Len(chain) + 1 :
        FreedUpTo(k) /\ cur[w] = IF k > Len(chain) THEN NULL ELSE chain[k]
  BY DEF Heap, Placed
<1>3. \A i \in DOMAIN chain : chain[i] \notin live
  <2>1. chain \in Seq(Addr) /\ NULL \notin Addr
    BY ConstantsAssumption, TextAssumption DEF Typed, TypeOK
  <2>2. k > Len(chain)
    BY <1>2, <2>1
  <2>. QED  BY <1>2, <2>1, <2>2 DEF FreedUpTo
<1>4. PICK place \in {"idle", "tail"} : wpc' = [wpc EXCEPT ![w] = place]
  OBVIOUS
<1>5. Spelled' /\ Standing'
  <2>1. \A u, v \in Writers : UsesList(u)' /\ UsesList(v)' => u = v
    BY <1>1, <1>4, Alone
  <2>2. DOMAIN chain' = {} /\ chain' = <<>> /\ lost \subseteq live
    BY DEF Heap, Standing
  <2>. QED  BY <2>1, <2>2 DEF Spelled, Standing
<1>6. Owned'
  <2>1. Linking = {}
    BY <1>1, <1>4, Alone DEF Linking
  <2>2. live \subseteq lost
    BY <1>3, <2>1 DEF Heap, Owned, Range
  <2>. QED  BY <2>2 DEF Owned
<1>7. Placed(w)' /\ \A v \in Writers \ {w} : Placed(v)'
  BY <1>1, <1>4, Alone DEF Placed
<1>8. ASSUME NEW r \in Readers PROVE OnTrack(r)'
  BY <1>1, NobodyOnTrack
<1>. QED  BY <1>5, <1>6, <1>7, <1>8 DEF Heap

-----------------------------------------------------------------------------
(* create_list.                                                            *)

\* A step of create_list that leaves the list alone.
LEMMA BuildingHeap ==
  ASSUME Typed, Heap, NEW w \in Writers, wpc[w] \in {"tail", "seek", "copy", "line"},
         NEW place \in {"idle", "seek", "copy", "line", "oops", "starved"},
         wpc' = [wpc EXCEPT ![w] = place], Placed(w)',
         UNCHANGED <<listVars, checkVars, overlapped>>
  PROVE  Heap'
<1>. USE DEF listVars, checkVars
<1>1. UsesList(w)
  BY DEF UsesList
<1>2. ~Dismantling /\ ~Dismantling' /\ Linking = {} /\ Linking' = {}
  BY <1>1, Alone DEF Linking
<1>3. \A u, v \in Writers : UsesList(u)' /\ UsesList(v)' => u = v
  BY <1>1, Alone
<1>4. \A v \in Writers \ {w} : Placed(v)'
  BY <1>1, Alone
<1>5. Spelled' /\ Standing' /\ Owned'
  BY <1>2, <1>3 DEF Heap, Spelled, Standing, Owned, After
<1>6. ASSUME NEW r \in Readers PROVE OnTrack(r)'
  BY <1>2 DEF Heap, OnTrack, Walking
<1>. QED  BY <1>4, <1>5, <1>6 DEF Heap

\* The list is empty when create_list looks for its tail.
LEMMA FindTailHeap ==
  ASSUME Typed, Heap, NEW w \in Writers, FindTail(w)
  PROVE  Heap'
<1>. USE DEF FindTail, Goto, listVars
<1>1. chain = <<>> /\ cur'[w] = NULL /\ wpc'[w] = "seek"
  BY DEF Heap, Placed, Spelled, Typed, TypeOK
<1>2. Placed(w)'
  BY <1>1 DEF Placed, LastLinked
<1>. QED  BY <1>2, BuildingHeap

\* The search for the tail ends at once: the list is empty.
LEMMA SeekTailHeap ==
  ASSUME Typed, Heap, NEW w \in Writers, SeekTail(w)
  PROVE  Heap'
<1>. USE DEF SeekTail, Goto, listVars
<1>1. chain = <<>> /\ cur[w] = NULL
  BY DEF Heap, Placed, LastLinked
<1>2. wpc'[w] = "copy" /\ cur'[w] = cur[w]
  BY <1>1 DEF Typed, TypeOK
<1>3. Placed(w)'
  BY <1>1, <1>2 DEF Placed, LastLinked
<1>. QED  BY <1>1, <1>3, BuildingHeap

\* The text is copied, or the handler dies outside the list.
LEMMA CopyTextHeap ==
  ASSUME Typed, Heap, NEW w \in Writers, CopyText(w)
  PROVE  Heap'
<1>. USE DEF CopyText, Goto, listVars
<1>1. PICK place \in {"line", "oops"} : wpc' = [wpc EXCEPT ![w] = place]
  OBVIOUS
<1>2. cur'[w] = LastLinked
  BY DEF Heap, Placed
<1>3. Placed(w)'
  BY <1>1, <1>2 DEF Placed, LastLinked, Typed, TypeOK
<1>. QED  BY <1>1, <1>3, BuildingHeap

\* A line that is passed over takes no node.
LEMMA SkipLineHeap ==
  ASSUME Typed, Heap, NEW w \in Writers, SkipLine(w)
  PROVE  Heap'
<1>. USE DEF SkipLine, listVars
<1>1. Placed(w)'
  BY DEF Heap, Placed, LastLinked
<1>2. wpc' = [wpc EXCEPT ![w] = "line"]
  BY DEF Typed, TypeOK
<1>. QED  BY <1>1, <1>2, BuildingHeap

\* The loop ends with every node it made linked; so does a handler without memory.
LEMMA LeaveLineHeap ==
  ASSUME Typed, Heap, NEW w \in Writers, LastLine(w) \/ AllocFault(w)
  PROVE  Heap'
<1>. USE DEF LastLine, AllocFault, Leave, Goto, listVars
<1>1. PICK place \in {"idle", "starved"} : wpc' = [wpc EXCEPT ![w] = place]
  OBVIOUS
<1>2. Placed(w)'
  BY <1>1 DEF Placed, Typed, TypeOK
<1>. QED  BY <1>1, <1>2, BuildingHeap

\* A node off the list appears: being linked, or lost at once.
LEMMA FreshNode ==
  ASSUME Typed, Heap, NEW w \in Writers, wpc[w] = "line", NEW a \in Addr \ live,
         NEW place \in {"link", "oops"}, wpc' = [wpc EXCEPT ![w] = place],
         live' = live \cup {a}, chain' = chain, root' = root,
         \A b \in live : nxt'[b] = nxt[b] /\ entry'[b] = entry[b],
         lost' = IF place = "oops" THEN lost \cup {a} ELSE lost,
         aux'[w] = a \/ place = "oops",
         UNCHANGED <<checkVars, overlapped>>
  PROVE  /\ Spelled' /\ Standing' /\ Owned'
         /\ \A v \in Writers \ {w} : Placed(v)'
         /\ \A r \in Readers : OnTrack(r)'
         /\ a \notin Range(chain) \cup lost
<1>1. UsesList(w)
  BY DEF UsesList
<1>2. /\ ~Dismantling /\ ~Dismantling' /\ Linking = {}
      /\ Linking' = IF place = "link" THEN {w} ELSE {}
  BY <1>1, Alone DEF Linking
<1>3. /\ \A u, v \in Writers : UsesList(u)' /\ UsesList(v)' => u = v
      /\ \A v \in Writers \ {w} : Placed(v)'
  BY <1>1, Alone
<1>4. /\ lost \subseteq live
      /\ \A i \in DOMAIN chain : chain[i] \in live /\ chain[i] \notin lost
  BY <1>2 DEF Heap, Standing
<1>5. a \notin Range(chain) \cup lost
  BY <1>4 DEF Range
<1>6. Spelled'
  BY <1>3, <1>4 DEF Heap, Spelled, After
<1>7. Standing'
  BY <1>2, <1>4, <1>5 DEF Heap, Standing, Range
<1>8. Owned'
  BY <1>2 DEF Heap, Owned
<1>9. ASSUME NEW r \in Readers PROVE OnTrack(r)'
  <2>1. \A i \in DOMAIN chain : entry'[chain[i]] = entry[chain[i]]
    BY <1>4
  <2>2. SUFFICES ASSUME Walking(r), ~overlapped[r] PROVE OnTrack(r)'
    BY DEF OnTrack, Walking, checkVars
  <2>3. PICK i \in DOMAIN chain :
          /\ p[r] = chain[i]
          /\ \A j \in 1 .. i - 1 : ~Match(req[r], entry[chain[j]])
          /\ rpc[r] = "notify" => Match(req[r], entry[chain[i]])
          /\ rpc[r] = "advance" => ~Match(req[r], entry[chain[i]])
    BY <2>2 DEF Heap, OnTrack
  <2>4. chain \in Seq(Addr)
    BY DEF Typed, TypeOK
  <2>5. \A j \in 1 .. i - 1 : ~Match(req[r], entry'[chain[j]])
    BY <2>1, <2>3, <2>4
  <2>. QED  BY <1>2, <2>1, <2>3, <2>5 DEF OnTrack, checkVars
<1>. QED  BY <1>3, <1>5, <1>6, <1>7, <1>8, <1>9

\* The node a line gets is off the list until it is linked.
LEMMA NewNodeHeap ==
  ASSUME Typed, Heap, NEW w \in Writers, NEW a \in Addr, NewNode(w, a)
  PROVE  Heap'
<1>. USE DEF NewNode, Goto
<1>1. /\ nxt'[a] = NULL /\ entry'[a] = EntryOf(Head(tmp[w])) /\ aux'[w] = a
      /\ \A b \in live : nxt'[b] = nxt[b] /\ entry'[b] = entry[b]
      /\ wpc'[w] = "link"
  BY DEF Typed, TypeOK
<1>2. /\ Spelled' /\ Standing' /\ Owned'
      /\ \A v \in Writers \ {w} : Placed(v)'
      /\ \A r \in Readers : OnTrack(r)'
      /\ a \notin Range(chain) \cup lost
  BY <1>1, FreshNode
<1>3. entry'[a].inode # NULL
  <2>1. Lookup[Head(tmp[w]).path] # NULL
    BY DEF Opens
  <2>2. EntryOf(Head(tmp[w])).inode = Lookup[Head(tmp[w]).path]
    BY DEF EntryOf
  <2>. QED  BY <1>1, <2>1, <2>2
<1>4. cur'[w] = LastLinked'
  BY DEF Heap, Placed, LastLinked
<1>5. Placed(w)'
  BY <1>1, <1>2, <1>3, <1>4 DEF Placed, Typed, TypeOK
<1>. QED  BY <1>2, <1>5 DEF Heap

\* The node of a line without a letter is lost, and known to be.
LEMMA NoLetterFaultHeap ==
  ASSUME Typed, Heap, NEW w \in Writers, NEW a \in Addr, NoLetterFault(w, a)
  PROVE  Heap'
<1>. USE DEF NoLetterFault, Goto
<1>0. /\ wpc' = [wpc EXCEPT ![w] = "oops"] /\ a \in Addr \ live
      /\ \A b \in live : nxt'[b] = nxt[b] /\ entry'[b] = entry[b]
      /\ lost' = IF "oops" = "oops" THEN lost \cup {a} ELSE lost
      /\ UNCHANGED <<checkVars, overlapped>>
  OBVIOUS
<1>1. /\ Spelled' /\ Standing' /\ Owned'
      /\ \A v \in Writers \ {w} : Placed(v)'
      /\ \A r \in Readers : OnTrack(r)'
  BY <1>0, FreshNode
<1>2. Placed(w)'
  BY DEF Placed, Typed, TypeOK
<1>. QED  BY <1>1, <1>2 DEF Heap

\* The node joins the list at its end.
LEMMA LinkNodeHeap ==
  ASSUME Typed, Heap, NEW w \in Writers, LinkNode(w)
  PROVE  Heap'
<1>. USE DEF LinkNode, Goto, NewTail
<1>1. UsesList(w) /\ wpc'[w] = "line" /\ cur'[w] = aux[w]
  BY DEF UsesList, Typed, TypeOK
<1>2. /\ ~Dismantling /\ ~Dismantling' /\ Linking = {w} /\ Linking' = {}
      /\ \A u, v \in Writers : UsesList(u)' /\ UsesList(v)' => u = v
      /\ \A v \in Writers \ {w} : Placed(v)'
  BY <1>1, Alone DEF Linking
<1>3. /\ aux[w] \in live \ lost /\ aux[w] \notin Range(chain)
      /\ nxt[aux[w]] = NULL /\ entry[aux[w]].inode # NULL
      /\ cur[w] = LastLinked
  BY DEF Heap, Placed
<1>4. /\ chain \in Seq(Addr) /\ chain' \in Seq(Addr) /\ Len(chain') = Len(chain) + 1
      /\ \A i \in DOMAIN chain : chain'[i] = chain[i] /\ chain[i] # aux[w]
      /\ chain'[Len(chain')] = aux[w]
      /\ DOMAIN chain = 1 .. Len(chain) /\ DOMAIN chain' = 1 .. Len(chain) + 1
  BY <1>3 DEF Typed, LinkHasNode, TypeOK, Range
<1>5. Spelled'
  <2>1. \A i, j \in DOMAIN chain' : chain'[i] = chain'[j] => i = j
    BY <1>4 DEF Heap, Spelled
  <2>2. root' = chain'[1] /\ chain' # <<>>
    <3>1. CASE chain = <<>>
      BY <1>3, <1>4, <3>1 DEF LastLinked
    <3>2. CASE chain # <<>>
      <4>1. cur[w] # NULL /\ 1 \in DOMAIN chain
        <5>1. Len(chain) \in DOMAIN chain /\ 1 \in DOMAIN chain
          BY <1>4, <3>2
        <5>. QED  BY <5>1, <1>3, <1>4, <3>2, NoNodeIsNull DEF LastLinked
      <4>. QED  BY <1>4, <3>2, <4>1 DEF Heap, Spelled
    <3>. QED  BY <3>1, <3>2
  <2>3. ASSUME NEW i \in DOMAIN chain' PROVE nxt'[chain'[i]] = After(i)'
    <3>1. CASE i = Len(chain')
      <4>1. After(i)' = NULL /\ chain'[i] = aux[w]
        BY <3>1, <1>4 DEF After
      <4>2. CASE cur[w] = NULL
        BY <4>1, <4>2, <1>3
      <4>3. CASE cur[w] # NULL
        <5>1. chain # <<>> /\ cur[w] = chain[Len(chain)] /\ Len(chain) \in DOMAIN chain
          BY <4>3, <1>3, <1>4 DEF LastLinked
        <5>2. chain[Len(chain)] \in live /\ chain[Len(chain)] # aux[w]
          BY <5>1, <1>2, <1>4 DEF Heap, Standing
        <5>3. nxt[chain[Len(chain)]] = NULL
          BY <5>1, <5>2 DEF Heap, Spelled, After
        <5>. QED  BY <4>1, <4>3, <5>1, <5>2, <5>3, <1>3 DEF Typed, TypeOK
      <4>. QED  BY <4>2, <4>3
    <3>2. CASE i = Len(chain) /\ i \in DOMAIN chain
      <4>1. After(i)' = aux[w] /\ chain'[i] = chain[i] /\ chain[i] = cur[w] /\ cur[w] # NULL
        <5>1. chain[i] \in Addr /\ chain # <<>> /\ i + 1 = Len(chain')
          BY <3>2, <1>4
        <5>2. cur[w] = chain[i]
          BY <3>2, <5>1, <1>3 DEF LastLinked
        <5>3. After(i)' = aux[w]
          BY <3>2, <5>1, <1>4 DEF After
        <5>. QED  BY <3>2, <5>1, <5>2, <5>3, <1>4, NoNodeIsNull
      <4>. QED  BY <4>1, <1>3, <1>4 DEF Typed, TypeOK
    <3>3. CASE i \in DOMAIN chain /\ i # Len(chain)
      <4>1. /\ After(i)' = After(i) /\ chain'[i] = chain[i] /\ chain[i] # aux[w]
            /\ chain[i] \in live /\ nxt[chain[i]] = After(i)
        <5>1. chain[i] \in live /\ chain'[i] = chain[i] /\ chain[i] # aux[w]
          BY <3>3, <1>2, <1>4 DEF Heap, Standing
        <5>2. nxt[chain[i]] = After(i)
          BY <3>3, <5>1 DEF Heap, Spelled
        <5>3. i + 1 \in DOMAIN chain /\ i # Len(chain')
          BY <3>3, <1>4
        <5>4. After(i)' = After(i)
          BY <3>3, <5>3, <1>4 DEF After
        <5>. QED  BY <5>1, <5>2, <5>4
      <4>2. chain[i] # cur[w]
        BY <3>3, <1>3, <1>4 DEF LastLinked, Heap, Spelled
      <4>. QED  BY <4>1, <4>2 DEF Typed, TypeOK
    <3>. QED  BY <3>1, <3>2, <3>3, <1>4
  <2>. QED  BY <1>2, <2>1, <2>2, <2>3 DEF Spelled
<1>6. Standing'
  BY <1>2, <1>3, <1>4 DEF Heap, Standing
<1>7. Owned'
  <2>1. Range(chain') = Range(chain) \cup {aux[w]}
    BY <1>4 DEF Range
  <2>. QED  BY <1>2, <2>1 DEF Heap, Owned
<1>8. Placed(w)'
  BY <1>1, <1>4 DEF Placed, LastLinked
<1>9. ASSUME NEW r \in Readers PROVE OnTrack(r)'
  <2>1. SUFFICES ASSUME Walking(r), ~overlapped[r] PROVE OnTrack(r)'
    BY DEF OnTrack, Walking, checkVars
  <2>2. PICK i \in DOMAIN chain :
          /\ p[r] = chain[i]
          /\ \A j \in 1 .. i - 1 : ~Match(req[r], entry[chain[j]])
          /\ rpc[r] = "notify" => Match(req[r], entry[chain[i]])
          /\ rpc[r] = "advance" => ~Match(req[r], entry[chain[i]])
    BY <2>1 DEF Heap, OnTrack
  <2>3. i \in DOMAIN chain' /\ \A j \in 1 .. i : chain'[j] = chain[j]
    BY <2>2, <1>4
  <2>5. \A j \in 1 .. i - 1 : ~Match(req[r], entry[chain'[j]])
    BY <2>2, <2>3, <1>4
  <2>. QED  BY <1>2, <1>4, <2>2, <2>3, <2>5 DEF OnTrack, checkVars
<1>. QED  BY <1>2, <1>5, <1>6, <1>7, <1>8, <1>9 DEF Heap

\* Without a clash no handler follows a pointer to a freed node.
LEMMA NoWildPointer ==
  ASSUME Typed, Heap, NEW w \in Writers
  PROVE  ~WriterFault(w)
<1>. SUFFICES ASSUME wpc[w] \in {"unlink", "seek", "link"} PROVE cur[w] \in live \cup {NULL}
  BY DEF WriterFault
<1>1. CASE wpc[w] = "unlink"
  <2>1. PICK k \in 1 .. Len(chain) + 1 :
          FreedUpTo(k) /\ cur[w] = IF k > Len(chain) THEN NULL ELSE chain[k]
    BY <1>1 DEF Heap, Placed
  <2>2. chain \in Seq(Addr)
    BY DEF Typed, TypeOK
  <2>. QED  BY <2>1, <2>2 DEF FreedUpTo
<1>2. CASE wpc[w] \in {"seek", "link"}
  <2>1. cur[w] = LastLinked
    BY <1>2 DEF Heap, Placed
  <2>2. ~Dismantling
    BY <1>2 DEF Heap, Spelled, Dismantling, UsesList
  <2>3. CASE chain # <<>>
    <3>1. Len(chain) \in DOMAIN chain
      BY <2>3 DEF Typed, TypeOK
    <3>. QED  BY <2>1, <2>2, <2>3, <3>1 DEF Heap, Standing, LastLinked
  <2>. QED  BY <2>1, <2>3 DEF LastLinked
<1>. QED  BY <1>1, <1>2

-----------------------------------------------------------------------------
(* All steps of the write handlers.                                        *)

\* Every step of a handler that does not clash keeps the heap in shape.
LEMMA WriterHeap ==
  ASSUME Typed, Heap, NEW w \in Writers, ~clashed',
         WriterCall(w) \/ WriterStep(w) \/ RestartWriter(w)
  PROVE  Heap'
<1>1. CASE WriterCall(w)
  <2>. USE DEF Goto, WriterPlaces, ctrlVars
  <2>1. CASE EmptyWrite(w)
    BY <2>1, OutsideListHeap DEF EmptyWrite, OutsideList
  <2>2. ASSUME NEW text \in Texts, ProtectWrite(w, text) PROVE Heap'
    BY <2>2, OutsideListHeap DEF ProtectWrite, CopyFromUser, OutsideList
  <2>3. ASSUME NEW text \in Texts \cup ControlTexts, CtrlWrite(w, text) PROVE Heap'
    BY <2>3, OutsideListHeap DEF CtrlWrite, CopyFromUser, OutsideList
  <2>4. ASSUME NEW text \in Texts \cup ControlTexts, WriteFaults(w, text) PROVE Heap'
    <3>1. wpc' = [wpc EXCEPT ![w] = "idle"]
      BY <2>4 DEF WriteFaults, Typed, TypeOK
    <3>. QED  BY <2>4, <3>1, OutsideListHeap DEF WriteFaults, OutsideList
  <2>. QED  BY <1>1, <2>1, <2>2, <2>3, <2>4 DEF WriterCall
<1>2. CASE Dispatch(w)
  <2>1. PICK place \in {"begin", "idle"} : wpc' = [wpc EXCEPT ![w] = place]
    BY <1>2 DEF Dispatch, Goto
  <2>. QED  BY <1>2, <2>1, OutsideListHeap DEF Dispatch, OutsideList, WriterPlaces
<1>3. CASE RestartWriter(w)
  <2>1. \A v \in Writers \ {w} : cur'[v] = cur[v] /\ aux'[v] = aux[v]
    BY <1>3 DEF RestartWriter, Leave, Typed, TypeOK
  <2>. QED  BY <1>3, <2>1, OutsideListHeap
            DEF RestartWriter, Leave, Goto, OutsideList, WriterPlaces
<1>4. CASE BeginDestroy(w) \/ DestroyNode(w) \/ FreeNode(w) \/ EndDestroy(w)
  BY <1>4, BeginDestroyHeap, DestroyNodeHeap, FreeNodeHeap, EndDestroyHeap
<1>5. CASE FindTail(w) \/ SeekTail(w) \/ CopyText(w) \/ LastLine(w) \/ SkipLine(w)
  BY <1>5, FindTailHeap, SeekTailHeap, CopyTextHeap, LeaveLineHeap, SkipLineHeap
<1>6. CASE LinkNode(w) \/ AllocFault(w) \/ WriterFault(w)
  BY <1>6, LinkNodeHeap, LeaveLineHeap, NoWildPointer
<1>7. ASSUME NEW a \in Addr, NewNode(w, a) \/ NoLetterFault(w, a) PROVE Heap'
  BY <1>7, NewNodeHeap, NoLetterFaultHeap
<1>. QED  BY <1>1, <1>2, <1>3, <1>4, <1>5, <1>6, <1>7 DEF WriterStep

-----------------------------------------------------------------------------
(* The checks.                                                             *)

\* A check changes nothing but its own cursor.
LEMMA ReaderFrame ==
  ASSUME Heap, NEW r \in Readers, UNCHANGED <<listVars, writerVars>>,
         \A s \in Readers \ {r} : /\ rpc'[s] = rpc[s] /\ req'[s] = req[s]
                                 /\ p'[s] = p[s] /\ overlapped'[s] = overlapped[s],
         OnTrack(r)'
  PROVE  Heap'
<1>. USE DEF listVars, writerVars
<1>1. Dismantling' = Dismantling
  BY DEF Dismantling
<1>2. Spelled' /\ Standing'
  BY <1>1 DEF Heap, Spelled, Standing, After, UsesList
<1>3. Owned'
  BY DEF Heap, Owned, Linking
<1>4. \A w \in Writers : Placed(w)'
  BY DEF Heap, Placed, LastLinked, After, FreedUpTo
<1>5. ASSUME NEW s \in Readers \ {r} PROVE OnTrack(s)'
  BY <1>1 DEF Heap, OnTrack, Walking
<1>. QED  BY <1>2, <1>3, <1>4, <1>5 DEF Heap

\* A check that is not walking has no cursor to lose.
LEMMA NotWalking ==
  ASSUME Typed, Heap, NEW r \in Readers, UNCHANGED <<listVars, writerVars>>,
         NEW place \in ReaderPlaces \ {"visit", "advance", "notify"},
         rpc' = [rpc EXCEPT ![r] = place],
         \A s \in Readers \ {r} :
           req'[s] = req[s] /\ p'[s] = p[s] /\ overlapped'[s] = overlapped[s]
  PROVE  Heap'
<1>1. /\ \A s \in Readers \ {r} : rpc'[s] = rpc[s]
      /\ rpc'[r] = place
  BY DEF Typed, TypeOK
<1>2. OnTrack(r)'
  BY <1>1 DEF OnTrack, Walking
<1>. QED  BY <1>1, <1>2, ReaderFrame

\* An undisturbed walk is at a node it can read.
LEMMA OnTrackReadable ==
  ASSUME Typed, Heap, NEW r \in Readers, Walking(r), ~overlapped[r]
  PROVE  Readable(r) /\ ~Dismantling
<1>1. PICK i \in DOMAIN chain : p[r] = chain[i] /\ ~Dismantling
  BY DEF Heap, OnTrack
<1>. QED  BY <1>1 DEF Heap, Standing, Readable

\* A walk starts at the head of the list or is over at once.
LEMMA StartHeap ==
  ASSUME Typed, Heap, NEW r \in Readers, Start(r)
  PROVE  Heap'
<1>. USE DEF Start, LoopOn, NoNode
<1>1. CASE root = NULL
  BY <1>1, NotWalking DEF Answer, CheckGoto, ReaderPlaces, Typed, TypeOK
<1>2. CASE root # NULL
  <2>1. /\ \A s \in Readers \ {r} : /\ rpc'[s] = rpc[s] /\ req'[s] = req[s]
                                  /\ p'[s] = p[s] /\ overlapped'[s] = overlapped[s]
        /\ rpc'[r] = "visit" /\ req'[r] = req[r] /\ p'[r] = root
        /\ overlapped'[r] = Dismantling
    BY <1>2 DEF CheckGoto, Typed, TypeOK
  <2>2. chain # <<>> /\ root = chain[1] /\ 1 \in DOMAIN chain
    BY <1>2 DEF Heap, Spelled, Typed, TypeOK
  <2>3. Dismantling' = Dismantling /\ chain' = chain /\ entry' = entry
    BY DEF Dismantling, listVars, writerVars
  <2>4. OnTrack(r)'
    BY <2>1, <2>2, <2>3 DEF OnTrack
  <2>. QED  BY <2>1, <2>4, ReaderFrame
<1>. QED  BY <1>1, <1>2

\* A node that was compared does not match if the walk goes on.
LEMMA VisitHeap ==
  ASSUME Typed, Heap, NEW r \in Readers, Visit(r)
  PROVE  Heap'
<1>. USE DEF Visit, CheckGoto, checkVars
<1>1. /\ \A s \in Readers \ {r} : rpc'[s] = rpc[s]
      /\ rpc'[r] = IF Match(req[r], entry[p[r]]) THEN "notify" ELSE "advance"
  BY DEF Typed, TypeOK
<1>2. Dismantling' = Dismantling /\ chain' = chain /\ entry' = entry
  BY DEF Dismantling, listVars, writerVars
<1>3. OnTrack(r)'
  BY <1>1, <1>2 DEF Heap, OnTrack, Walking
<1>. QED  BY <1>1, <1>3, ReaderFrame

\* The next node of a standing list is the next one of the chain.
LEMMA AdvanceHeap ==
  ASSUME Typed, Heap, NEW r \in Readers, Advance(r)
  PROVE  Heap'
<1>. USE DEF Advance, LoopOn, NoNode, NextNode
<1>1. CASE nxt[p[r]] = NULL
  BY <1>1, NotWalking DEF Answer, CheckGoto, ReaderPlaces, Typed, TypeOK
<1>2. CASE nxt[p[r]] # NULL
  <2>1. /\ \A s \in Readers \ {r} : /\ rpc'[s] = rpc[s] /\ req'[s] = req[s]
                                  /\ p'[s] = p[s] /\ overlapped'[s] = overlapped[s]
        /\ rpc'[r] = "visit" /\ req'[r] = req[r] /\ p'[r] = nxt[p[r]]
        /\ overlapped'[r] = overlapped[r]
    BY <1>2 DEF CheckGoto, Typed, TypeOK
  <2>2. Dismantling' = Dismantling /\ chain' = chain /\ entry' = entry
    BY DEF Dismantling, listVars, writerVars
  <2>3. OnTrack(r)'
    <3>1. SUFFICES ASSUME ~overlapped[r] PROVE OnTrack(r)'
      BY <2>1 DEF OnTrack
    <3>2. PICK i \in DOMAIN chain :
            /\ p[r] = chain[i] /\ ~Dismantling
            /\ \A j \in 1 .. i - 1 : ~Match(req[r], entry[chain[j]])
            /\ ~Match(req[r], entry[chain[i]])
      BY <3>1 DEF Heap, OnTrack, Walking
    <3>3. nxt[p[r]] = After(i)
      BY <3>2 DEF Heap, Spelled, Standing
    <3>4. i + 1 \in DOMAIN chain /\ nxt[p[r]] = chain[i + 1]
      BY <1>2, <3>2, <3>3 DEF After, Typed, TypeOK
    <3>5. \A j \in 1 .. (i + 1) - 1 : ~Match(req[r], entry[chain[j]])
      BY <3>2 DEF Typed, TypeOK
    <3>. QED  BY <2>1, <2>2, <3>2, <3>4, <3>5 DEF OnTrack
  <2>. QED  BY <2>1, <2>3, ReaderFrame
<1>. QED  BY <1>1, <1>2

\* Every step of a check keeps the heap in shape.
LEMMA ReaderHeap ==
  ASSUME Typed, Heap, NEW r \in Readers, ReaderCall(r) \/ ReaderStep(r) \/ Return(r)
  PROVE  Heap'
<1>. USE DEF CheckGoto, ReaderPlaces, Typed, TypeOK
<1>1. ASSUME NEW q \in Requests,
             CallWhileDisabled(r, q) \/ CallBadDescriptor(r, q) \/ Call(r, q)
      PROVE  Heap'
  <2>1. PICK place \in {"done", "oops", "start"} : rpc' = [rpc EXCEPT ![r] = place]
    BY <1>1 DEF CallWhileDisabled, CallBadDescriptor, Call, Answer
  <2>2. /\ UNCHANGED <<listVars, writerVars>>
        /\ \A s \in Readers \ {r} :
             req'[s] = req[s] /\ p'[s] = p[s] /\ overlapped'[s] = overlapped[s]
    BY <1>1 DEF CallWhileDisabled, CallBadDescriptor, Call, Answer
  <2>. QED  BY <2>1, <2>2, NotWalking
<1>2. CASE Notify(r)
  BY <1>2, NotWalking DEF Notify, Answer
<1>3. CASE NotifyStarves(r) \/ ReaderFault(r)
  BY <1>3, NotWalking DEF NotifyStarves, ReaderFault
<1>4. CASE Return(r)
  BY <1>4, NotWalking DEF Return
<1>. QED
  BY <1>1, <1>2, <1>3, <1>4, StartHeap, VisitHeap, AdvanceHeap DEF ReaderCall, ReaderStep

\* A clash is never forgotten.
LEMMA ClashStays ==
  ASSUME clashed, [Next]_vars
  PROVE  clashed'
<1>1. CASE UNCHANGED vars
  BY <1>1 DEF vars, writerVars
<1>2. ASSUME NEW w \in Writers, WriterCall(w) PROVE clashed'
  BY <1>2 DEF WriterCall, EmptyWrite, ProtectWrite, CtrlWrite, CopyFromUser, WriteFaults,
              NoteClash
<1>3. ASSUME NEW w \in Writers, WriterStep(w) PROVE clashed'
  BY <1>3 DEF WriterStep, Dispatch, BeginDestroy, DestroyNode, FreeNode, EndDestroy,
              FindTail, SeekTail, CopyText, LastLine, SkipLine, LinkNode, AllocFault,
              WriterFault, NewNode, NoLetterFault, NoteClash
<1>4. ASSUME NEW w \in Writers, RestartWriter(w) PROVE clashed'
  BY <1>4 DEF RestartWriter
<1>5. ASSUME NEW r \in Readers, ReaderCall(r) \/ ReaderStep(r) \/ Return(r)
      PROVE  clashed'
  BY <1>5 DEF ReaderCall, ReaderStep, CallWhileDisabled, CallBadDescriptor, Call, Start,
              Visit, Advance, Notify, NotifyStarves,
              ReaderFault, Return, writerVars
<1>. QED  BY <1>1, <1>2, <1>3, <1>4, <1>5 DEF Next

\* Nothing moves, nothing changes.
LEMMA StutterHeap == ASSUME Heap, UNCHANGED vars PROVE Heap'
<1>. USE DEF vars, listVars, writerVars, checkVars
<1>1. Dismantling' = Dismantling
  BY DEF Dismantling
<1>2. Spelled' /\ Standing' /\ Owned'
  BY <1>1 DEF Heap, Spelled, Standing, Owned, Linking, UsesList, After
<1>3. \A w \in Writers : Placed(w)'
  BY DEF Heap, Placed, FreedUpTo, LastLinked, After
<1>4. \A r \in Readers : OnTrack(r)'
  BY <1>1 DEF Heap, OnTrack, Walking
<1>. QED  BY <1>2, <1>3, <1>4 DEF Heap

-----------------------------------------------------------------------------
(* The theorems about the shape.                                           *)

\* Until two handlers clash the list keeps its shape, the handlers and the
\* walks stand where they should, and no allocated node is off the list
\* without being linked or lost, however many tasks there are and however long
\* the texts: create_list, destroy_list and the three walks of communicate.c.
THEOREM HeapSafe == Spec => []HeapShape
<1>1. Init => Typed /\ HeapShape
  BY InitType, InitHeap DEF HeapShape
<1>2. Typed /\ HeapShape /\ [Next]_vars => HeapShape'
  <2>. SUFFICES ASSUME Typed, HeapShape, [Next]_vars, ~clashed' PROVE Heap'
    BY DEF HeapShape
  <2>1. Heap
    BY ClashStays DEF HeapShape
  <2>2. CASE UNCHANGED vars
    BY <2>1, <2>2, StutterHeap
  <2>3. CASE Next
    BY <2>1, <2>3, WriterHeap, ReaderHeap DEF Next
  <2>. QED  BY <2>2, <2>3
<1>. QED  BY <1>1, <1>2, TypedAlways, PTL DEF Spec

\* Only its own step kills a check.
LEMMA OnlyOwnStepDies ==
  ASSUME Typed, [Next]_vars, NEW r \in Readers, rpc[r] \notin Dead, rpc'[r] \in Dead
  PROVE  \/ \E q \in Requests : CallBadDescriptor(r, q)
         \/ NotifyStarves(r) \/ ReaderFault(r)
<1>. USE DEF Typed, TypeOK, CheckGoto
<1>1. CASE UNCHANGED vars
  BY <1>1 DEF vars, checkVars
<1>2. ASSUME NEW w \in Writers, WriterCall(w) \/ WriterStep(w) \/ RestartWriter(w)
      PROVE  rpc' = rpc
  BY <1>2 DEF WriterCall, EmptyWrite, ProtectWrite, CtrlWrite, WriteFaults, RestartWriter,
              WriterStep, Dispatch, BeginDestroy, DestroyNode, FreeNode, EndDestroy,
              FindTail, SeekTail, CopyText, LastLine, SkipLine, LinkNode, AllocFault,
              WriterFault, NewNode, NoLetterFault, checkVars
<1>3. ASSUME NEW s \in Readers, s # r, ReaderCall(s) \/ ReaderStep(s) \/ Return(s)
      PROVE  rpc'[r] = rpc[r]
  BY <1>3 DEF ReaderCall, ReaderStep, CallWhileDisabled, CallBadDescriptor, Call, Start,
              Visit, Advance, Notify, NotifyStarves, ReaderFault, Return, LoopOn, Answer
<1>4. ~Return(r)
  BY DEF Return
<1>5. ASSUME NEW q \in Requests, CallWhileDisabled(r, q) \/ Call(r, q) PROVE FALSE
  BY <1>5 DEF CallWhileDisabled, Call, Answer
<1>6. ~ (Start(r) \/ Visit(r) \/ Advance(r) \/ Notify(r))
  BY DEF Start, Visit, Advance, Notify, LoopOn, Answer
<1>. QED  BY <1>1, <1>2, <1>3, <1>4, <1>5, <1>6 DEF Next, ReaderCall, ReaderStep

\* An undisturbed walk that is about to notify has found the rule that refuses it.
LEMMA DueRefusal ==
  ASSUME Typed, Heap, NEW r \in Readers, NotifyStarves(r), ~overlapped[r]
  PROVE  \E i \in DOMAIN Rules : FirstMatch(req[r], i)
<1>1. DOMAIN Rules = DOMAIN chain /\ \A i \in DOMAIN chain : Rules[i] = entry[chain[i]]
  BY DEF Rules
<1>2. PICK i \in DOMAIN chain :
        /\ \A j \in 1 .. i - 1 : ~Match(req[r], entry[chain[j]])
        /\ Match(req[r], entry[chain[i]])
  BY DEF Heap, OnTrack, Walking, NotifyStarves
<1>3. \A j \in 1 .. i - 1 : j \in DOMAIN chain
  BY <1>2 DEF Typed, TypeOK
<1>. QED  BY <1>1, <1>2, <1>3 DEF FirstMatch

\* Unless two handlers clashed, a check dies only of a bad descriptor, of a list
\* taken down under it, or of the NULL of a vmalloc when it is due a refusal:
\* FaultNeedsOverlap, for every number of tasks and every list.
THEOREM FaultSafe == Spec => FaultNeedsOverlap
<1>. DEFINE Excused ==
       \A r \in Readers :
         rpc[r] \notin Dead /\ rpc'[r] \in Dead /\ ~clashed =>
           \/ overlapped'[r]
           \/ req'[r].kind = "fd" /\ req'[r].key = NULL
           \/ rpc'[r] = "starved" /\ \E i \in DOMAIN Rules : FirstMatch(req[r], i)
<1>1. Typed /\ HeapShape /\ [Next]_vars => Excused
  <2>. SUFFICES ASSUME Typed, HeapShape, [Next]_vars, NEW r \in Readers,
                       rpc[r] \notin Dead, rpc'[r] \in Dead, ~clashed
                PROVE  \/ overlapped'[r]
                       \/ req'[r].kind = "fd" /\ req'[r].key = NULL
                       \/ rpc'[r] = "starved" /\ \E i \in DOMAIN Rules : FirstMatch(req[r], i)
    OBVIOUS
  <2>1. Heap
    BY DEF HeapShape
  <2>2. ASSUME NEW q \in Requests, CallBadDescriptor(r, q)
        PROVE  req'[r].kind = "fd" /\ req'[r].key = NULL
    <3>1. req'[r] = q /\ q.key = NULL /\ q \in Request
      BY <2>2, ConstantsAssumption, TextAssumption DEF CallBadDescriptor, Typed, TypeOK
    <3>2. q.kind = "fd"
      BY <3>1, ConstantsAssumption, TextAssumption DEF Request
    <3>. QED  BY <3>1, <3>2
  <2>3. CASE ReaderFault(r)
    BY <2>1, <2>3, OnTrackReadable DEF ReaderFault
  <2>4. CASE NotifyStarves(r)
    <3>1. rpc'[r] = "starved" /\ overlapped'[r] = overlapped[r]
      BY <2>4 DEF NotifyStarves, CheckGoto, Typed, TypeOK
    <3>2. ~overlapped[r] => \E i \in DOMAIN Rules : FirstMatch(req[r], i)
      BY <2>1, <2>4, DueRefusal
    <3>. QED  BY <3>1, <3>2
  <2>. QED  BY <2>2, <2>3, <2>4, OnlyOwnStepDies
<1>. QED  BY <1>1, TypedAlways, HeapSafe, PTL DEF Spec, FaultNeedsOverlap

\* Only its own step concludes a check.
LEMMA OnlyOwnStepConcludes ==
  ASSUME Typed, [Next]_vars, NEW r \in Readers, Concludes(r)
  PROVE  Start(r) \/ Advance(r) \/ Notify(r)
<1>. USE DEF Typed, TypeOK, CheckGoto, Concludes
<1>1. CASE UNCHANGED vars
  BY <1>1 DEF vars, checkVars
<1>2. ASSUME NEW w \in Writers, WriterCall(w) \/ WriterStep(w) \/ RestartWriter(w)
      PROVE  rpc' = rpc
  BY <1>2 DEF WriterCall, EmptyWrite, ProtectWrite, CtrlWrite, WriteFaults, RestartWriter,
              WriterStep, Dispatch, BeginDestroy, DestroyNode, FreeNode, EndDestroy,
              FindTail, SeekTail, CopyText, LastLine, SkipLine, LinkNode, AllocFault,
              WriterFault, NewNode, NoLetterFault, checkVars
<1>3. ASSUME NEW s \in Readers, s # r, ReaderCall(s) \/ ReaderStep(s) \/ Return(s)
      PROVE  rpc'[r] = rpc[r]
  BY <1>3 DEF ReaderCall, ReaderStep, CallWhileDisabled, CallBadDescriptor, Call, Start,
              Visit, Advance, Notify, NotifyStarves,
              ReaderFault, Return, LoopOn, Answer
<1>4. CASE ReaderCall(r) \/ Return(r)
  BY <1>4 DEF ReaderCall, CallWhileDisabled, CallBadDescriptor, Call, Return
<1>5. CASE Visit(r) \/ NotifyStarves(r) \/ ReaderFault(r)
  BY <1>5 DEF Visit, NotifyStarves, ReaderFault
<1>. QED  BY <1>1, <1>2, <1>3, <1>4, <1>5 DEF Next, ReaderStep

\* A walk on track that concludes has the answer the whole list gives.
LEMMA RightAnswer ==
  ASSUME Typed, Heap, NEW r \in Readers, Concludes(r), ~overlapped'[r],
         Start(r) \/ Advance(r) \/ Notify(r)
  PROVE  AnsweredRight(r)
<1>. USE DEF Typed, TypeOK, CheckGoto, Answer, LoopOn, NoNode, NextNode, Concludes
<1>1. DOMAIN Rules = DOMAIN chain /\ \A i \in DOMAIN chain : Rules[i] = entry[chain[i]]
  BY DEF Rules
<1>2. CASE Start(r)
  <2>1. root = NULL /\ ~verdict'[r] /\ notified'[r] = NULL
    BY <1>2 DEF Start
  <2>2. ~Dismantling
    BY <1>2 DEF Start
  <2>3. DOMAIN chain = {}
    <3>1. SUFFICES ASSUME chain # <<>> PROVE FALSE
      OBVIOUS
    <3>2. 1 \in DOMAIN chain /\ chain[1] \in Addr
      BY <3>1
    <3>. QED  BY <2>1, <3>1, <3>2, NoNodeIsNull DEF Heap, Spelled
  <2>. QED  BY <1>1, <2>1, <2>3 DEF AnsweredRight, FirstMatch
<1>3. CASE Advance(r)
  <2>1. nxt[p[r]] = NULL /\ ~verdict'[r] /\ notified'[r] = NULL /\ ~overlapped[r]
    BY <1>3 DEF Advance
  <2>2. PICK i \in DOMAIN chain :
          /\ p[r] = chain[i] /\ ~Dismantling
          /\ \A j \in 1 .. i - 1 : ~Match(req[r], entry[chain[j]])
          /\ ~Match(req[r], entry[chain[i]])
    BY <1>3, <2>1 DEF Heap, OnTrack, Walking, Advance
  <2>3. After(i) = NULL
    BY <2>1, <2>2 DEF Heap, Spelled, Standing
  <2>4. i = Len(chain)
    <3>1. SUFFICES ASSUME i # Len(chain) PROVE FALSE
      OBVIOUS
    <3>2. i + 1 \in DOMAIN chain /\ chain[i + 1] \in Addr
      BY <2>2, <3>1
    <3>. QED  BY <2>3, <3>1, <3>2, NoNodeIsNull DEF After
  <2>5. \A j \in DOMAIN chain : ~Match(req[r], entry[chain[j]])
    <3>1. \A j \in DOMAIN chain : j = i \/ j \in 1 .. i - 1
      BY <2>4
    <3>. QED  BY <2>2, <3>1
  <2>. QED  BY <1>1, <2>1, <2>5 DEF AnsweredRight, FirstMatch
<1>4. CASE Notify(r)
  <2>1. /\ verdict'[r] /\ ~overlapped[r]
        /\ notified'[r] = [path |-> entry[p[r]].path, type |-> entry[p[r]].type]
    BY <1>4 DEF Notify
  <2>2. PICK i \in DOMAIN chain :
          /\ p[r] = chain[i]
          /\ \A j \in 1 .. i - 1 : ~Match(req[r], entry[chain[j]])
          /\ Match(req[r], entry[chain[i]])
    BY <1>4, <2>1 DEF Heap, OnTrack, Walking, Notify
  <2>3. \A j \in 1 .. i - 1 : j \in DOMAIN chain
    BY <2>2
  <2>. QED  BY <1>1, <2>1, <2>2, <2>3 DEF AnsweredRight, FirstMatch
<1>. QED  BY <1>2, <1>3, <1>4

\* VerdictExact, for every number of tasks and every list: a walk that reads the
\* list one pointer at a time, with lines being added meanwhile, answers as if
\* it had read the list at once.
THEOREM VerdictSafe == Spec => VerdictExact
<1>1. Typed /\ HeapShape /\ [Next]_vars =>
        [\A r \in Readers :
           Concludes(r) /\ ~overlapped'[r] /\ ~clashed => AnsweredRight(r)]_vars
  BY OnlyOwnStepConcludes, RightAnswer DEF HeapShape
<1>. QED  BY <1>1, TypedAlways, HeapSafe, PTL DEF Spec, VerdictExact

-----------------------------------------------------------------------------
(***************************************************************************)
(* From the text a caller writes to the list in the kernel: while no two   *)
(* handlers clash, the scratch buffer still holds the text of the handler  *)
(* that copied it, create_list has read a prefix of it and linked exactly  *)
(* the rules of that prefix, and a list at rest is the accepted text.      *)
(***************************************************************************)

-----------------------------------------------------------------------------
(* The inductive invariant.                                                *)

\* What a handler was called for.  Only proc_protect_write has a text; a handler
\* that builds a list was not called with an empty one.
Called(w) ==
  /\ wpc[w] \in {"idle", "dispatch"} => job[w] = "none"
  /\ job[w] # "raw" => asked[w] = <<>>
  /\ wpc[w] \in {"tail", "seek", "copy", "line", "link"} => job[w] # "none"

\* The scratch buffer is the handler's own until it has used it.
OwnBuffer(w) == UsesBuffer(w) /\ job[w] = "raw" => raw_data_buff = asked[w]

\* The handler has read the first n lines, the list is what they come to.
ReadUpTo(w, n) ==
  /\ tmp[w] = SubSeq(goal, n + 1, Len(goal))
  /\ \A i \in 1 .. n : HasAt(goal[i])
  /\ Rules = RulesOf(goal)[n]

\* A handler in the list installs its caller's text; at the loop it has read a
\* part of it; the node it is about to link is that of the next line.
Building(w) ==
  /\ UsesList(w) => goal = asked[w]
  /\ wpc[w] \in {"line", "link"} => \E n \in 0 .. Len(goal) : ReadUpTo(w, n)
  /\ wpc[w] = "link" =>
       /\ HasAt(Head(tmp[w])) /\ Opens(Head(tmp[w]))
       /\ entry[aux[w]] = EntryOf(Head(tmp[w]))

\* At rest the list is what was asked for.
Settled == goal # NULL /\ (\A w \in Writers : ~UsesList(w)) => Rules = Accepted(goal)

Faithful == Settled /\ \A w \in Writers : OwnBuffer(w) /\ Building(w)
TextInv == (\A w \in Writers : Called(w)) /\ (~clashed => Faithful)

-----------------------------------------------------------------------------
(* What is left of a text.                                                 *)

\* Taking a line off what is left leaves what is left of one line more.
LEMMA NextLine ==
  ASSUME NEW text \in Seq(Line), NEW n \in 0 .. Len(text)
  PROVE  LET rest == SubSeq(text, n + 1, Len(text)) IN
         /\ rest = <<>> => n = Len(text)
         /\ rest # <<>> => /\ n < Len(text) /\ n + 1 \in 1 .. Len(text)
                           /\ Head(rest) = text[n + 1]
                           /\ Tail(rest) = SubSeq(text, (n + 1) + 1, Len(text))
<1>. DEFINE rest == SubSeq(text, n + 1, Len(text))
<1>1. CASE n = Len(text)
  BY <1>1
<1>2. CASE n < Len(text)
  <2>1. n + 1 \in 1 .. Len(text) /\ Len(text) \in (n + 1) .. Len(text)
    BY <1>2
  <2>2. Head(rest) = text[n + 1] /\ Tail(rest) = SubSeq(text, (n + 1) + 1, Len(text))
    BY <2>1, HeadTailOfSubSeq
  <2>3. Len(rest) = Len(text) - n
    BY <2>1
  <2>4. rest # <<>>
    <3>. HIDE DEF rest
    <3>. QED  BY <1>2, <2>3
  <2>. QED  BY <1>2, <2>1, <2>2, <2>4
<1>. QED  BY <1>1, <1>2

\* A text that has not been read is all of it.
LEMMA WholeText ==
  ASSUME NEW text \in Seq(Line)
  PROVE  text = SubSeq(text, 0 + 1, Len(text))
  OBVIOUS

\* No text asks for no rules.
LEMMA NoText == Accepted(<<>>) = <<>>
<1>. DEFINE text == <<>>
<1>1. text \in Seq(Line) /\ Len(text) = 0
  OBVIOUS
<1>. HIDE DEF text
<1>2. /\ 0 \in 0 .. Len(text) /\ ~ (0 < Len(text))
      /\ \A i \in 1 .. 0 : HasAt(text[i])
  BY <1>1
<1>3. LinesRead(text) = 0
  BY <1>1, <1>2, LinesReadIs
<1>4. Accepted(text) = <<>>
  BY <1>1, <1>3, RulesStep DEF Accepted
<1>. QED  BY <1>4 DEF text

-----------------------------------------------------------------------------
(* What a handler was called for.                                          *)

\* Every step leaves each handler with the job it was called for.
LEMMA CalledKept ==
  ASSUME Typed, \A w \in Writers : Called(w), [Next]_vars
  PROVE  \A w \in Writers : Called(w)'
<1>. USE DEF Called, Typed, TypeOK
<1>1. CASE UNCHANGED vars
  BY <1>1 DEF vars, writerVars
<1>2. ASSUME NEW r \in Readers, ReaderCall(r) \/ ReaderStep(r) \/ Return(r)
      PROVE  \A w \in Writers : Called(w)'
  BY <1>2 DEF ReaderCall, ReaderStep, CallWhileDisabled, CallBadDescriptor, Call, Start,
              Visit, Advance, Notify, NotifyStarves,
              ReaderFault, Return, writerVars
<1>3. ASSUME NEW w \in Writers, WriterCall(w) PROVE \A v \in Writers : Called(v)'
  BY <1>3 DEF WriterCall, EmptyWrite, ProtectWrite, CtrlWrite, CopyFromUser, WriteFaults, Goto
<1>4. ASSUME NEW w \in Writers, RestartWriter(w) PROVE \A v \in Writers : Called(v)'
  BY <1>4 DEF RestartWriter, Leave, Goto
<1>5. ASSUME NEW w \in Writers, WriterStep(w) PROVE \A v \in Writers : Called(v)'
  <2>. USE DEF Goto
  <2>1. CASE Dispatch(w)
    BY <2>1 DEF Dispatch
  <2>2. CASE BeginDestroy(w) \/ DestroyNode(w) \/ FreeNode(w) \/ EndDestroy(w)
    BY <2>2 DEF BeginDestroy, DestroyNode, FreeNode, EndDestroy
  <2>3. CASE FindTail(w) \/ SeekTail(w) \/ CopyText(w) \/ SkipLine(w)
    BY <2>3 DEF FindTail, SeekTail, CopyText, SkipLine
  <2>4. CASE LastLine(w)
    BY <2>4 DEF LastLine, Leave
  <2>5. CASE LinkNode(w) \/ AllocFault(w) \/ WriterFault(w)
    BY <2>5 DEF LinkNode, AllocFault, WriterFault
  <2>6. ASSUME NEW a \in Addr, NewNode(w, a) \/ NoLetterFault(w, a)
        PROVE  \A v \in Writers : Called(v)'
    BY <2>6 DEF NewNode, NoLetterFault
  <2>. QED  BY <1>5, <2>1, <2>2, <2>3, <2>4, <2>5, <2>6 DEF WriterStep
<1>. QED  BY <1>1, <1>2, <1>3, <1>4, <1>5 DEF Next

\* A handler that loses its text in the scratch buffer to another one has clashed
\* with it.
LEMMA BufferKept ==
  ASSUME Typed, \A w \in Writers : Called(w) /\ OwnBuffer(w), [Next]_vars, ~clashed'
  PROVE  \A w \in Writers : OwnBuffer(w)'
<1>. USE DEF OwnBuffer, UsesBuffer, Typed, TypeOK
<1>1. CASE UNCHANGED vars
  BY <1>1 DEF vars, writerVars, ctrlVars
<1>2. ASSUME NEW r \in Readers, ReaderCall(r) \/ ReaderStep(r) \/ Return(r)
      PROVE  \A w \in Writers : OwnBuffer(w)'
  BY <1>2 DEF ReaderCall, ReaderStep, CallWhileDisabled, CallBadDescriptor, Call, Start,
              Visit, Advance, Notify, NotifyStarves,
              ReaderFault, Return, writerVars, ctrlVars
<1>. USE DEF Goto, ctrlVars
<1>3. ASSUME NEW w \in Writers, WriterCall(w) PROVE \A v \in Writers : OwnBuffer(v)'
  <2>1. wpc[w] = "idle" /\ job[w] = "none"
    BY <1>3 DEF WriterCall, EmptyWrite, ProtectWrite, CtrlWrite, CopyFromUser, WriteFaults,
                Called
  <2>2. CASE EmptyWrite(w)
    BY <2>1, <2>2 DEF EmptyWrite
  <2>3. ASSUME NEW text \in Texts, ProtectWrite(w, text)
        PROVE  \A v \in Writers : OwnBuffer(v)'
    BY <2>3 DEF ProtectWrite, CopyFromUser, NoteClash
  <2>4. ASSUME NEW text \in Texts \cup ControlTexts,
               CtrlWrite(w, text) \/ WriteFaults(w, text)
        PROVE  \A v \in Writers : OwnBuffer(v)'
    BY <2>1, <2>4 DEF CtrlWrite, CopyFromUser, WriteFaults, NoteClash
  <2>. QED  BY <1>3, <2>2, <2>3, <2>4 DEF WriterCall
<1>4. ASSUME NEW w \in Writers, RestartWriter(w) PROVE \A v \in Writers : OwnBuffer(v)'
  BY <1>4 DEF RestartWriter, Leave
<1>5. ASSUME NEW w \in Writers, WriterStep(w) PROVE \A v \in Writers : OwnBuffer(v)'
  <2>1. CASE Dispatch(w)
    BY <2>1 DEF Dispatch, Called
  <2>2. CASE BeginDestroy(w) \/ DestroyNode(w) \/ FreeNode(w) \/ EndDestroy(w)
    BY <2>2 DEF BeginDestroy, DestroyNode, FreeNode, EndDestroy
  <2>3. CASE FindTail(w) \/ SeekTail(w) \/ CopyText(w) \/ SkipLine(w)
    BY <2>3 DEF FindTail, SeekTail, CopyText, SkipLine
  <2>4. CASE LastLine(w)
    BY <2>4 DEF LastLine, Leave
  <2>5. CASE LinkNode(w) \/ AllocFault(w) \/ WriterFault(w)
    BY <2>5 DEF LinkNode, AllocFault, WriterFault
  <2>6. ASSUME NEW a \in Addr, NewNode(w, a) \/ NoLetterFault(w, a)
        PROVE  \A v \in Writers : OwnBuffer(v)'
    BY <2>6 DEF NewNode, NoLetterFault
  <2>. QED  BY <1>5, <2>1, <2>2, <2>3, <2>4, <2>5, <2>6 DEF WriterStep
<1>. QED  BY <1>1, <1>2, <1>3, <1>4, <1>5 DEF Next

-----------------------------------------------------------------------------
(* The list and the text.                                                  *)

\* Whoever leaves the list, the text and the handlers in it alone keeps them
\* together.
LEMMA Untouched ==
  ASSUME Settled, \A v \in Writers : Building(v), NEW w \in Writers,
         ~UsesList(w), ~UsesList(w)', UNCHANGED <<chain, entry, goal>>,
         \A v \in Writers \ {w} : /\ wpc'[v] = wpc[v] /\ asked'[v] = asked[v]
                                 /\ aux'[v] = aux[v] /\ tmp'[v] = tmp[v]
  PROVE  Settled' /\ \A v \in Writers : Building(v)'
<1>1. Rules' = Rules
  BY DEF Rules
<1>2. \A v \in Writers : UsesList(v)' = UsesList(v)
  BY DEF UsesList
<1>3. Settled'
  BY <1>1, <1>2 DEF Settled
<1>4. ASSUME NEW v \in Writers \ {w} PROVE Building(v)'
  BY <1>1, <1>2, <1>4 DEF Building, ReadUpTo
<1>5. Building(w)'
  BY <1>2 DEF Building, UsesList
<1>. QED  BY <1>3, <1>4, <1>5

\* One handler is in the list; what it does concerns no other.
LEMMA OneBuilds ==
  ASSUME Typed, Heap, NEW w \in Writers, UsesList(w),
         NEW place, wpc' = [wpc EXCEPT ![w] = place]
  PROVE  /\ \A v \in Writers \ {w} : Building(v)'
         /\ UsesList(w)' => Settled'
<1>1. \A v \in Writers \ {w} : ~UsesList(v)'
  BY Alone DEF UsesList
<1>2. \A v \in Writers \ {w} : Building(v)'
  BY <1>1 DEF Building, UsesList
<1>. QED  BY <1>2 DEF Settled

\* Taking a list down: the text is known, nothing is linked.
LEMMA DestroyText ==
  ASSUME Typed, Heap, ~clashed', \A v \in Writers : Building(v) /\ Called(v),
         NEW w \in Writers,
         BeginDestroy(w) \/ DestroyNode(w) \/ FreeNode(w) \/ EndDestroy(w)
  PROVE  Settled' /\ \A v \in Writers : Building(v)'
<1>. USE DEF Typed, TypeOK, Goto
<1>1. CASE BeginDestroy(w)
  <2>1. \A v \in Writers \ {w} : ~UsesList(v)' /\ wpc'[w] = "unlink"
    BY <1>1 DEF BeginDestroy, NoteClash, UsesList
  <2>. QED  BY <1>1, <2>1 DEF BeginDestroy, Settled, Building, UsesList
<1>2. CASE DestroyNode(w) \/ FreeNode(w)
  <2>1. PICK place \in {"unlink", "free"} : wpc' = [wpc EXCEPT ![w] = place]
    BY <1>2 DEF DestroyNode, FreeNode
  <2>2. UsesList(w) /\ UsesList(w)' /\ goal' = goal /\ asked' = asked
    BY <1>2, <2>1 DEF UsesList, DestroyNode, FreeNode
  <2>3. Building(w)'
    BY <2>1, <2>2 DEF Building
  <2>. QED  BY <2>1, <2>2, <2>3, OneBuilds
<1>3. CASE EndDestroy(w)
  <2>1. PICK place \in {"idle", "tail"} :
          wpc' = [wpc EXCEPT ![w] = place] /\ (place = "idle" => job[w] = "none")
    BY <1>3 DEF EndDestroy
  <2>2. UsesList(w) /\ goal' = goal /\ asked' = asked /\ goal = asked[w] /\ chain' = <<>>
    BY <1>3 DEF UsesList, EndDestroy, Building
  <2>3. Building(w)' /\ \A v \in Writers \ {w} : Building(v)'
    BY <2>1, <2>2, OneBuilds DEF Building
  <2>4. CASE place = "tail"
    BY <2>1, <2>2, <2>3, <2>4, OneBuilds DEF UsesList
  <2>5. CASE place = "idle"
    <3>1. goal = <<>>
      BY <2>1, <2>2, <2>5 DEF Called
    <3>2. Rules' = <<>>
      BY <2>2 DEF Rules
    <3>3. Accepted(<<>>) = <<>>
      BY NoText
    <3>. QED  BY <2>2, <2>3, <3>1, <3>2, <3>3 DEF Settled
  <2>. QED  BY <2>1, <2>4, <2>5
<1>. QED  BY <1>1, <1>2, <1>3

\* From the empty list to the first line.
LEMMA BeginText ==
  ASSUME Typed, Heap, \A v \in Writers : Building(v) /\ Called(v) /\ OwnBuffer(v),
         NEW w \in Writers, FindTail(w) \/ SeekTail(w) \/ CopyText(w)
  PROVE  Settled' /\ \A v \in Writers : Building(v)'
<1>. USE DEF Typed, TypeOK, Goto
<1>0. UsesList(w) /\ goal = asked[w] /\ chain = <<>> /\ asked[w] \in Seq(Line)
  BY DEF FindTail, SeekTail, CopyText, UsesList, Building, Heap, Placed
<1>1. CASE FindTail(w) \/ SeekTail(w)
  <2>1. PICK place \in {"seek", "copy"} : wpc' = [wpc EXCEPT ![w] = place]
    BY <1>1 DEF FindTail, SeekTail
  <2>2. UsesList(w)' /\ goal' = goal /\ asked' = asked
    BY <1>1, <2>1 DEF UsesList, FindTail, SeekTail
  <2>3. Building(w)'
    BY <1>0, <2>1, <2>2 DEF Building
  <2>. QED  BY <1>0, <2>1, <2>2, <2>3, OneBuilds
<1>2. CASE CopyText(w)
  <2>1. Source(w) = asked[w]
    BY <1>2, <1>0 DEF CopyText, Source, data_buf, Called, OwnBuffer, UsesBuffer
  <2>2. CASE Len(Source(w)) > PageLines
    <3>1. wpc' = [wpc EXCEPT ![w] = "oops"] /\ goal' = NULL
      BY <1>2, <2>2 DEF CopyText
    <3>. QED  BY <1>0, <3>1, OneBuilds DEF Settled, Building, UsesList
  <2>3. CASE ~ (Len(Source(w)) > PageLines)
    <3>1. /\ wpc' = [wpc EXCEPT ![w] = "line"] /\ goal' = goal /\ asked' = asked
          /\ tmp'[w] = goal /\ chain' = <<>>
      BY <1>0, <1>2, <2>1, <2>3 DEF CopyText, listVars
    <3>2. Rules' = <<>>
      BY <3>1 DEF Rules
    <3>3. ReadUpTo(w, 0)' /\ 0 \in 0 .. Len(goal')
      BY <1>0, <3>1, <3>2, WholeText, RulesStep DEF ReadUpTo
    <3>4. Building(w)'
      BY <1>0, <3>1, <3>3 DEF Building
    <3>. QED  BY <1>0, <3>1, <3>4, OneBuilds DEF UsesList
  <2>. QED  BY <2>2, <2>3
<1>. QED  BY <1>1, <1>2

\* The lines that are read: one is passed over, one becomes a node, the node is
\* linked.
LEMMA LoopText ==
  ASSUME Typed, Heap, \A v \in Writers : Building(v),
         NEW w \in Writers, SkipLine(w) \/ LinkNode(w) \/ \E a \in Addr : NewNode(w, a)
  PROVE  Settled' /\ \A v \in Writers : Building(v)'
<1>. USE DEF Typed, TypeOK, Goto
<1>1. /\ UsesList(w) /\ goal = asked[w] /\ goal \in Seq(Line) /\ tmp[w] # <<>>
      /\ goal' = goal /\ asked' = asked
  BY DEF SkipLine, LinkNode, NewNode, UsesList, Building, LinkHasNode
<1>2. PICK n \in 0 .. Len(goal) : ReadUpTo(w, n)
  BY DEF SkipLine, LinkNode, NewNode, Building
<1>3. /\ n < Len(goal) /\ n + 1 \in 0 .. Len(goal) /\ n \in 0 .. Len(goal) - 1
      /\ Head(tmp[w]) = goal[n + 1]
      /\ Tail(tmp[w]) = SubSeq(goal, (n + 1) + 1, Len(goal))
  BY <1>1, <1>2, NextLine DEF ReadUpTo
<1>4. ASSUME HasAt(Head(tmp[w])) PROVE \A i \in 1 .. n + 1 : HasAt(goal[i])
  <2>1. \A i \in 1 .. n + 1 : i \in 1 .. n \/ i = n + 1
    OBVIOUS
  <2>. QED  BY <1>2, <1>3, <1>4, <2>1 DEF ReadUpTo
<1>5. CASE SkipLine(w)
  <2>1. /\ wpc' = [wpc EXCEPT ![w] = "line"] /\ tmp'[w] = Tail(tmp[w])
        /\ UNCHANGED <<chain, entry>> /\ HasAt(Head(tmp[w])) /\ ~Opens(Head(tmp[w]))
    BY <1>5 DEF SkipLine, Rest, listVars
  <2>2. Rules' = RulesOf(goal)[n + 1]
    BY <1>1, <1>2, <1>3, <2>1, RulesStep DEF ReadUpTo, Rules
  <2>3. ReadUpTo(w, n + 1)'
    BY <1>1, <1>3, <1>4, <2>1, <2>2 DEF ReadUpTo
  <2>4. Building(w)'
    BY <1>1, <1>3, <2>1, <2>3 DEF Building
  <2>. QED  BY <1>1, <2>1, <2>4, OneBuilds DEF UsesList
<1>6. ASSUME NEW a \in Addr, NewNode(w, a)
      PROVE  Settled' /\ \A v \in Writers : Building(v)'
  <2>1. /\ wpc' = [wpc EXCEPT ![w] = "link"] /\ UNCHANGED <<chain, tmp>> /\ aux'[w] = a
        /\ entry' = [entry EXCEPT ![a] = EntryOf(Head(tmp[w]))] /\ a \notin live
        /\ HasAt(Head(tmp[w])) /\ Opens(Head(tmp[w])) /\ wpc[w] = "line"
    BY <1>6 DEF NewNode
  <2>2. Rules' = Rules
    <3>1. ~Dismantling
      BY <1>1, <2>1, Alone
    <3>2. \A i \in DOMAIN chain : entry'[chain[i]] = entry[chain[i]]
      BY <2>1, <3>1 DEF Heap, Standing
    <3>. QED  BY <2>1, <3>2 DEF Rules
  <2>3. ReadUpTo(w, n)'
    BY <1>1, <1>2, <2>1, <2>2 DEF ReadUpTo
  <2>4. Building(w)'
    BY <1>1, <2>1, <2>3 DEF Building
  <2>. QED  BY <1>1, <2>1, <2>4, OneBuilds DEF UsesList
<1>7. CASE LinkNode(w)
  <2>1. /\ wpc' = [wpc EXCEPT ![w] = "line"] /\ tmp'[w] = Tail(tmp[w])
        /\ entry' = entry /\ chain' = Append(chain, aux[w]) /\ aux[w] \in Addr
        /\ HasAt(Head(tmp[w])) /\ Opens(Head(tmp[w]))
        /\ entry[aux[w]] = EntryOf(Head(tmp[w]))
    BY <1>7 DEF LinkNode, Building, LinkHasNode
  <2>2. Rules' = Append(Rules, EntryOf(Head(tmp[w])))
    <3>1. /\ DOMAIN chain' = 1 .. Len(chain) + 1 /\ Len(chain) \in Nat
          /\ \A i \in 1 .. Len(chain) : chain'[i] = chain[i]
          /\ chain'[Len(chain) + 1] = aux[w]
      BY <2>1
    <3>2. Rules' = [i \in 1 .. Len(chain) + 1 |->
                      IF i = Len(chain) + 1 THEN EntryOf(Head(tmp[w])) ELSE Rules[i]]
      BY <2>1, <3>1 DEF Rules
    <3>3. EntryOf(Head(tmp[w])) \in Entry
      BY <1>1, EntryOfType
    <3>4. Rules \in Seq(Entry) /\ Len(Rules) = Len(chain)
      BY RulesAreEntries
    <3>5. \A line \in Entry : Append(Rules, line) =
            [i \in 1 .. Len(Rules) + 1 |-> IF i = Len(Rules) + 1 THEN line ELSE Rules[i]]
      BY <3>4, AppendIs
    <3>. QED
      <4>. DEFINE e == EntryOf(Head(tmp[w]))
      <4>1. Append(Rules, e) = [i \in 1 .. Len(chain) + 1 |->
                                  IF i = Len(chain) + 1 THEN e ELSE Rules[i]]
        BY <3>3, <3>4, <3>5
      <4>. QED  BY <3>2, <4>1
  <2>3. Rules' = RulesOf(goal)[n + 1]
    BY <1>1, <1>2, <1>3, <2>1, <2>2, RulesStep DEF ReadUpTo
  <2>4. ReadUpTo(w, n + 1)'
    BY <1>1, <1>3, <1>4, <2>1, <2>3 DEF ReadUpTo
  <2>5. Building(w)'
    BY <1>1, <1>3, <2>1, <2>4 DEF Building
  <2>. QED  BY <1>1, <2>1, <2>5, OneBuilds DEF UsesList
<1>. QED  BY <1>5, <1>6, <1>7

\* The loop ends where the text does, or at a line that is no rule: the list is
\* the accepted text.  A handler that dies leaves nothing to compare with.
LEMMA EndText ==
  ASSUME Typed, Heap, \A v \in Writers : Building(v), NEW w \in Writers,
         LastLine(w) \/ AllocFault(w) \/ \E a \in Addr : NoLetterFault(w, a)
  PROVE  Settled' /\ \A v \in Writers : Building(v)'
<1>. USE DEF Typed, TypeOK, Goto
<1>1. /\ UsesList(w) /\ goal = asked[w] /\ goal \in Seq(Line)
      /\ LastLine(w) => wpc[w] = "line"
  BY DEF LastLine, AllocFault, NoLetterFault, UsesList, Building
<1>2. PICK place \in {"idle"} \cup Dead : wpc' = [wpc EXCEPT ![w] = place]
  BY DEF LastLine, AllocFault, NoLetterFault, Leave
<1>3. \A v \in Writers : Building(v)'
  BY <1>1, <1>2, OneBuilds DEF Building, UsesList
<1>4. CASE AllocFault(w) \/ \E a \in Addr : NoLetterFault(w, a)
  BY <1>3, <1>4 DEF AllocFault, NoLetterFault, Settled
<1>5. CASE LastLine(w)
  <2>1. PICK n \in 0 .. Len(goal) : ReadUpTo(w, n)
    BY <1>1, <1>5 DEF Building
  <2>2. n < Len(goal) => ~HasAt(goal[n + 1])
    <3>1. tmp[w] = <<>> => n = Len(goal)
      BY <1>1, <2>1, NextLine DEF ReadUpTo
    <3>2. tmp[w] # <<>> => Head(tmp[w]) = goal[n + 1]
      BY <1>1, <2>1, NextLine DEF ReadUpTo
    <3>3. tmp[w] # <<>> => ~HasAt(Head(tmp[w]))
      BY <1>5 DEF LastLine, EndsText
    <3>. QED  BY <3>1, <3>2, <3>3
  <2>3. LinesRead(goal) = n
    BY <1>1, <2>1, <2>2, LinesReadIs DEF ReadUpTo
  <2>4. Rules' = Rules /\ goal' = goal
    BY <1>5 DEF LastLine, listVars, Rules
  <2>. QED  BY <1>3, <2>1, <2>3, <2>4 DEF Settled, Accepted, ReadUpTo
<1>. QED  BY <1>3, <1>4, <1>5
-----------------------------------------------------------------------------
(* All steps.                                                              *)

\* A step that is not a handler's leaves the list, the text and the handlers.
LEMMA CheckText ==
  ASSUME Settled, \A v \in Writers : Building(v),
         UNCHANGED vars \/ (\E r \in Readers : ReaderCall(r) \/ ReaderStep(r) \/ Return(r))
  PROVE  Settled' /\ \A v \in Writers : Building(v)'
<1>1. UNCHANGED <<listVars, writerVars>>
  BY DEF vars, ReaderCall, ReaderStep, CallWhileDisabled, CallBadDescriptor, Call, Start,
         Visit, Advance, Notify, NotifyStarves,
              ReaderFault, Return
<1>2. Rules' = Rules /\ goal' = goal
  BY <1>1 DEF Rules, listVars, writerVars
<1>3. /\ wpc' = wpc /\ tmp' = tmp /\ aux' = aux /\ asked' = asked
      /\ entry' = entry
  BY <1>1 DEF listVars, writerVars
<1>4. Settled'
  BY ONLY <1>2, <1>3, Settled DEF Settled, UsesList
<1>5. \A v \in Writers, n \in Nat : ReadUpTo(v, n)' = ReadUpTo(v, n)
  BY ONLY <1>2, <1>3 DEF ReadUpTo
<1>6. \A v \in Writers : Building(v)'
  BY ONLY <1>2, <1>3, <1>5, \A v \in Writers : Building(v) DEF Building, UsesList
<1>. QED  BY ONLY <1>4, <1>6

\* A handler that enters, dispatches or is started again is not in the list.
LEMMA CallText ==
  ASSUME Typed, Settled, \A v \in Writers : Building(v), NEW w \in Writers,
         WriterCall(w) \/ Dispatch(w) \/ RestartWriter(w)
  PROVE  Settled' /\ \A v \in Writers : Building(v)'
<1>. USE DEF Typed, TypeOK, Goto, UsesList, listVars
<1>1. CASE EmptyWrite(w)
  BY <1>1, Untouched DEF EmptyWrite
<1>2. ASSUME NEW text \in Texts, ProtectWrite(w, text)
      PROVE  Settled' /\ \A v \in Writers : Building(v)'
  BY <1>2, Untouched DEF ProtectWrite, CopyFromUser
<1>3. ASSUME NEW text \in Texts \cup ControlTexts, CtrlWrite(w, text)
      PROVE  Settled' /\ \A v \in Writers : Building(v)'
  BY <1>3, Untouched DEF CtrlWrite, CopyFromUser
<1>4. ASSUME NEW text \in Texts \cup ControlTexts, WriteFaults(w, text)
      PROVE  Settled' /\ \A v \in Writers : Building(v)'
  BY <1>4, Untouched DEF WriteFaults
<1>5. CASE Dispatch(w)
  BY <1>5, Untouched DEF Dispatch
<1>6. CASE RestartWriter(w)
  BY <1>6, Untouched DEF RestartWriter, Leave
<1>. QED  BY <1>1, <1>2, <1>3, <1>4, <1>5, <1>6 DEF WriterCall

\* Every step keeps the list and the text together.
LEMMA TextKept ==
  ASSUME Typed, HeapShape, TextInv, [Next]_vars
  PROVE  TextInv'
<1>1. \A w \in Writers : Called(w)'
  BY CalledKept DEF TextInv
<1>2. SUFFICES ASSUME ~clashed' PROVE Faithful'
  BY <1>1 DEF TextInv
<1>3. Heap /\ Faithful /\ \A w \in Writers : Called(w)
  BY <1>2, ClashStays DEF HeapShape, TextInv
<1>4. \A w \in Writers : OwnBuffer(w)'
  BY <1>2, <1>3, BufferKept DEF Faithful
<1>. DEFINE Kept == Settled' /\ \A w \in Writers : Building(w)'
<1>5. ASSUME NEW w \in Writers, WriterStep(w) PROVE Kept
  <2>1. CASE BeginDestroy(w) \/ DestroyNode(w) \/ FreeNode(w) \/ EndDestroy(w)
    BY <1>2, <1>3, <2>1, DestroyText DEF Faithful
  <2>2. CASE FindTail(w) \/ SeekTail(w) \/ CopyText(w)
    BY <1>3, <2>2, BeginText DEF Faithful
  <2>3. CASE SkipLine(w) \/ LinkNode(w) \/ \E a \in Addr : NewNode(w, a)
    BY <1>3, <2>3, LoopText DEF Faithful
  <2>4. CASE LastLine(w) \/ AllocFault(w) \/ \E a \in Addr : NoLetterFault(w, a)
    BY <1>3, <2>4, EndText DEF Faithful
  <2>5. CASE Dispatch(w)
    BY <1>3, <2>5, CallText DEF Faithful
  <2>6. CASE WriterFault(w)
    BY <1>3, <2>6, NoWildPointer
  <2>. QED  BY <1>5, <2>1, <2>2, <2>3, <2>4, <2>5, <2>6 DEF WriterStep
<1>6. ASSUME NEW w \in Writers, WriterCall(w) \/ RestartWriter(w) PROVE Kept
  BY <1>3, <1>6, CallText DEF Faithful
<1>7. ASSUME UNCHANGED vars \/ \E r \in Readers : ReaderCall(r) \/ ReaderStep(r) \/ Return(r)
      PROVE  Kept
  BY <1>3, <1>7, CheckText DEF Faithful
<1>8. Kept
  <2>. HIDE DEF Kept
  <2>. QED  BY <1>5, <1>6, <1>7 DEF Next
<1>. QED  BY <1>4, <1>8 DEF Faithful

\* init_communicate leaves an empty list, which is what no text asks for.
LEMMA InitText == Init => TextInv
<1>. SUFFICES ASSUME Init PROVE TextInv
  OBVIOUS
<1>1. \A w \in Writers : Called(w) /\ OwnBuffer(w) /\ Building(w)
  BY DEF Init, Called, OwnBuffer, Building, UsesBuffer, UsesList
<1>2. Settled
  BY NoText DEF Init, Settled, Rules
<1>. QED  BY <1>1, <1>2 DEF TextInv, Faithful

-----------------------------------------------------------------------------
(* The faults of the handlers.                                             *)

\* Only its own step kills a handler.
LEMMA OnlyOwnStepKills ==
  ASSUME Typed, [Next]_vars, NEW w \in Writers, wpc[w] \notin Dead, wpc'[w] \in Dead
  PROVE  WriterCall(w) \/ WriterStep(w)
<1>. USE DEF Typed, TypeOK, Goto
<1>1. CASE UNCHANGED vars
  BY <1>1 DEF vars, writerVars
<1>2. ASSUME NEW r \in Readers, ReaderCall(r) \/ ReaderStep(r) \/ Return(r)
      PROVE  wpc' = wpc
  BY <1>2 DEF ReaderCall, ReaderStep, CallWhileDisabled, CallBadDescriptor, Call, Start,
              Visit, Advance, Notify, NotifyStarves,
              ReaderFault, Return, writerVars
<1>3. ASSUME NEW v \in Writers, v # w, WriterCall(v) \/ WriterStep(v) \/ RestartWriter(v)
      PROVE  wpc'[w] = wpc[w]
  BY <1>3 DEF WriterCall, EmptyWrite, ProtectWrite, CtrlWrite, CopyFromUser, WriteFaults,
              RestartWriter, Leave, WriterStep, Dispatch, BeginDestroy, DestroyNode,
              FreeNode, EndDestroy, FindTail, SeekTail, CopyText, LastLine, SkipLine,
              LinkNode, AllocFault, WriterFault, NewNode, NoLetterFault
<1>4. ~RestartWriter(w)
  BY DEF RestartWriter
<1>. QED  BY <1>1, <1>2, <1>3, <1>4 DEF Next

\* The texts handlers die of when memory does not fail them.
LEMMA FaultText ==
  ASSUME Typed, Heap, Faithful, \A v \in Writers : Called(v), NEW w \in Writers,
         WriterCall(w) \/ WriterStep(w), wpc[w] \notin Dead, wpc'[w] \in Dead
  PROVE  wpc'[w] = "starved" \/ Unparsable(IF wpc[w] = "idle" THEN raw_data_buff' ELSE goal)
<1>. USE DEF Typed, TypeOK, Goto
<1>1. CASE WriterCall(w)
  <2>1. PICK text \in Texts \cup ControlTexts, place \in {"begin", "dispatch"} :
          CopyFromUser(w, text, place)
    <3>1. ~EmptyWrite(w)
      BY DEF EmptyWrite
    <3>2. \A text \in Texts \cup ControlTexts : ~WriteFaults(w, text)
      BY DEF WriteFaults
    <3>. QED  BY <1>1, <3>1, <3>2 DEF WriterCall, ProtectWrite, CtrlWrite
  <2>2. wpc[w] = "idle" /\ raw_data_buff' = text /\ Len(text) > BufferLines
    <3>1. wpc'[w] = IF Len(text) > BufferLines THEN "oops" ELSE place
      BY <2>1 DEF CopyFromUser
    <3>2. place \notin Dead
      OBVIOUS
    <3>. QED  BY <2>1, <3>1, <3>2 DEF CopyFromUser
  <2>3. Len(text) \in Nat
    BY <2>1, ControlType
  <2>4. Len(text) > PageLines
    <3>1. PageLines \in Nat /\ BufferLines \in Nat /\ PageLines <= BufferLines
      BY ConstantsAssumption, TextAssumption
    <3>. HIDE DEF Typed, TypeOK
    <3>. QED  BY <2>2, <2>3, <3>1
  <2>. QED  BY <2>2, <2>4 DEF Unparsable
<1>2. CASE WriterStep(w)
  <2>1. \/ CopyText(w) \/ AllocFault(w) \/ WriterFault(w)
        \/ \E a \in Addr : NoLetterFault(w, a)
    BY <1>2 DEF WriterStep, Dispatch, BeginDestroy, DestroyNode, FreeNode, EndDestroy,
                FindTail, SeekTail, LastLine, Leave, SkipLine, LinkNode, NewNode
  <2>2. CASE CopyText(w)
    <3>1. UsesList(w) /\ wpc[w] = "copy" /\ Len(Source(w)) > PageLines
      BY <2>2 DEF CopyText, UsesList
    <3>2. goal = asked[w]
      BY <3>1 DEF Faithful, Building
    <3>3. Source(w) = asked[w]
      BY <3>1 DEF Faithful, OwnBuffer, UsesBuffer, Called, Source, data_buf
    <3>. QED  BY <3>1, <3>2, <3>3 DEF Unparsable
  <2>3. CASE AllocFault(w)
    BY <2>3 DEF AllocFault
  <2>4. CASE WriterFault(w)
    BY <2>4, NoWildPointer
  <2>5. CASE \E a \in Addr : NoLetterFault(w, a)
    <3>1. /\ wpc[w] = "line" /\ UsesList(w) /\ tmp[w] # <<>>
          /\ ~HasAt(Head(tmp[w])) /\ Opens(Head(tmp[w]))
      BY <2>5 DEF NoLetterFault, UsesList
    <3>2. goal = asked[w] /\ goal \in Seq(Line)
      BY <3>1 DEF Faithful, Building
    <3>3. PICK n \in 0 .. Len(goal) : ReadUpTo(w, n)
      BY <3>1 DEF Faithful, Building
    <3>4. Head(tmp[w]) = goal[n + 1] /\ n + 1 \in 1 .. Len(goal)
      BY <3>1, <3>2, <3>3, NextLine DEF ReadUpTo
    <3>5. \A j \in 1 .. (n + 1) - 1 : HasAt(goal[j])
      BY <3>3 DEF ReadUpTo
    <3>. QED  BY <3>1, <3>2, <3>4, <3>5 DEF Unparsable
  <2>. QED  BY <2>1, <2>2, <2>3, <2>4, <2>5
<1>. QED  BY <1>1, <1>2

-----------------------------------------------------------------------------
(* The theorems.                                                           *)

\* A caller's text, the scratch buffer, what is left to read and the list agree
\* at every step of every handler, until two of them clash.
LEMMA TextAlways == Spec => []TextInv
<1>1. Typed /\ HeapShape /\ TextInv /\ [Next]_vars => TextInv'
  BY TextKept
<1>. QED  BY InitText, <1>1, TypedAlways, HeapSafe, PTL DEF Spec

\* While no handler is in it, the list is the accepted part of the text the last
\* caller to take it down wrote, for texts of any length: ListMatchesText, what
\* proc_protect_write, destroy_list and create_list come to.
THEOREM ListFaithful == Spec => []ListMatchesText
<1>1. HeapShape /\ TextInv => ListMatchesText
  BY DEF HeapShape, TextInv, Heap, Faithful, Settled, ListMatchesText
<1>. QED  BY <1>1, TextAlways, HeapSafe, PTL

\* A handler is killed by its caller's text, by the NULL of a vmalloc, or in a
\* clash, and by nothing else that proc_protect_write, proc_ctrl_write, destroy_list or
\* create_list does: WriterFaultExplained, for texts of any length.
THEOREM WriterFaultSafe == Spec => WriterFaultExplained
<1>. DEFINE Explained ==
       \A w \in Writers :
         wpc[w] \notin Dead /\ wpc'[w] \in Dead =>
           \/ clashed' \/ wpc'[w] = "starved"
           \/ Unparsable(IF wpc[w] = "idle" THEN raw_data_buff' ELSE goal)
<1>1. Typed /\ HeapShape /\ TextInv /\ [Next]_vars => Explained
  <2>. SUFFICES ASSUME Typed, HeapShape, TextInv, [Next]_vars, NEW w \in Writers,
                       wpc[w] \notin Dead, wpc'[w] \in Dead, ~clashed'
                PROVE  wpc'[w] = "starved"
                       \/ Unparsable(IF wpc[w] = "idle" THEN raw_data_buff' ELSE goal)
    OBVIOUS
  <2>1. Heap /\ Faithful /\ \A v \in Writers : Called(v)
    BY ClashStays DEF HeapShape, TextInv
  <2>2. WriterCall(w) \/ WriterStep(w)
    BY OnlyOwnStepKills
  <2>. QED  BY <2>1, <2>2, FaultText
<1>. QED  BY <1>1, TypedAlways, HeapSafe, TextAlways, PTL DEF Spec, WriterFaultExplained

-----------------------------------------------------------------------------
(***************************************************************************)
(* The list, read and written pointer by pointer, implements AccessPolicy, *)
(* where rules are a sequence and a check is answered in one step: every   *)
(* step of ProtectList that no clash precedes is a step of the policy, or  *)
(* changes nothing of it.                                                  *)
(***************************************************************************)

-----------------------------------------------------------------------------
(* The policy's view of the list.                                          *)

\* What the policy sees of the rules and the checks.
RulesSeen == IF Dismantling THEN <<>> ELSE Rules
ChecksSeen == [r \in Readers |-> Seen(r)]

\* What a task has not asked for is not there.
Unasked(r) ==
  /\ rpc[r] = "idle" => ~verdict[r] /\ notified[r] = NULL
  /\ rpc[r] \in {"idle", "start"} => ~overlapped[r]

\* Nothing the policy sees has changed.
LEMMA SameView ==
  ASSUME RulesSeen' = RulesSeen, Dismantling' <=> Dismantling,
         protect_enabeled' = protect_enabeled, ChecksSeen' = ChecksSeen
  PROVE  UNCHANGED Policy!vars
<1>1. Dismantling' = Dismantling
  BY DEF Dismantling
<1>. QED  BY <1>1 DEF Policy!vars, RulesSeen, ChecksSeen

\* A step that moves one check is seen as that.
LEMMA OneCheck ==
  ASSUME Typed, NEW r \in Readers,
         \A s \in Readers \ {r} : /\ rpc'[s] = rpc[s] /\ req'[s] = req[s]
                                 /\ overlapped'[s] = overlapped[s]
                                 /\ verdict'[s] = verdict[s] /\ notified'[s] = notified[s]
  PROVE  ChecksSeen' = [ChecksSeen EXCEPT ![r] = Seen(r)']
<1>1. ASSUME NEW s \in Readers \ {r} PROVE Seen(s)' = Seen(s)
  BY DEF Seen
<1>2. \A s \in Readers : ChecksSeen'[s] = IF s = r THEN Seen(r)' ELSE ChecksSeen[s]
  <2>. HIDE DEF Seen
  <2>. QED  BY <1>1 DEF ChecksSeen
<1>3. ChecksSeen' = [s \in Readers |-> ChecksSeen'[s]]
  BY DEF ChecksSeen
<1>4. [ChecksSeen EXCEPT ![r] = Seen(r)'] =
        [s \in Readers |-> IF s = r THEN Seen(r)' ELSE ChecksSeen[s]]
  BY DEF ChecksSeen
<1>. QED  BY <1>2, <1>3, <1>4

\* A step that moves no check.
LEMMA NoCheck ==
  ASSUME UNCHANGED <<checkVars, overlapped>> PROVE ChecksSeen' = ChecksSeen
  BY DEF ChecksSeen, Seen, checkVars

\* The list is unchanged as long as its nodes and their contents are.
LEMMA SameRules ==
  ASSUME chain' = chain, \A i \in DOMAIN chain : entry'[chain[i]] = entry[chain[i]]
  PROVE  Rules' = Rules
  BY DEF Rules

-----------------------------------------------------------------------------
(* The write handlers.                                                     *)

\* destroy_list withdraws the rules and disturbs the walks it meets.
LEMMA BeginWithdraws ==
  ASSUME Typed, NEW w \in Writers, BeginDestroy(w)
  PROVE  Policy!Withdraw
<1>1. Dismantling' /\ UNCHANGED protect_enabeled
  BY DEF BeginDestroy, Goto, ctrlVars, Dismantling, Typed, TypeOK
<1>. DEFINE C == {r \in Readers : Walking(r)}
<1>2. ASSUME NEW r \in Readers
      PROVE  /\ Seen(r)' = [Seen(r) EXCEPT !.disturbed = @ \/ r \in C]
             /\ r \in C => Seen(r).phase = "open"
  BY DEF BeginDestroy, checkVars, Seen, Phase, Walking
<1>3. /\ C \in SUBSET {r \in Readers : ChecksSeen[r].phase = "open"}
      /\ ChecksSeen' = [r \in Readers |-> [ChecksSeen[r] EXCEPT !.disturbed = @ \/ r \in C]]
  <2>. HIDE DEF C
  <2>1. C \subseteq Readers
    BY DEF C
  <2>. QED  BY <1>2, <2>1 DEF ChecksSeen
<1>4. RulesSeen' = <<>>
  BY <1>1 DEF RulesSeen
<1>. HIDE DEF C
<1>. QED  BY <1>1, <1>3, <1>4 DEF Policy!Withdraw, RulesSeen, ChecksSeen

\* Taking nodes off changes no rule: they are withdrawn already.
LEMMA DestroyHidden ==
  ASSUME Typed, Heap, NEW w \in Writers, DestroyNode(w) \/ FreeNode(w)
  PROVE  UNCHANGED Policy!vars
<1>1. PICK place \in {"unlink", "free"} : wpc' = [wpc EXCEPT ![w] = place]
  BY DEF DestroyNode, FreeNode, Goto
<1>2. UsesList(w) /\ wpc[w] \in {"unlink", "free"}
  BY DEF DestroyNode, FreeNode, UsesList
<1>3. Dismantling /\ Dismantling'
  BY <1>1, <1>2, Alone
<1>4. UNCHANGED <<checkVars, overlapped, protect_enabeled>>
  BY DEF DestroyNode, FreeNode, ctrlVars
<1>. QED  BY <1>3, <1>4, NoCheck, SameView DEF RulesSeen

\* *top = NULL ends the withdrawal.
LEMMA EndSettles ==
  ASSUME Typed, Heap, NEW w \in Writers, EndDestroy(w)
  PROVE  Policy!Settle
<1>1. PICK place \in {"idle", "tail"} : wpc' = [wpc EXCEPT ![w] = place]
  BY DEF EndDestroy, Goto
<1>2. UsesList(w) /\ wpc[w] = "unlink"
  BY DEF EndDestroy, UsesList
<1>3. Dismantling /\ ~Dismantling'
  BY <1>1, <1>2, Alone
<1>4. UNCHANGED <<checkVars, overlapped, protect_enabeled>> /\ chain' = <<>>
  BY DEF EndDestroy, ctrlVars
<1>5. Rules' = <<>>
  BY <1>4 DEF Rules
<1>6. RulesSeen' = RulesSeen /\ ChecksSeen' = ChecksSeen
  BY <1>3, <1>4, <1>5, NoCheck DEF RulesSeen
<1>. QED  BY <1>3, <1>4, <1>6 DEF Policy!Settle, RulesSeen, ChecksSeen

\* Linking a node adds its rule at the end.
LEMMA LinkExtends ==
  ASSUME Typed, Heap, NEW w \in Writers, LinkNode(w)
  PROVE  Policy!Extend
<1>1. /\ wpc' = [wpc EXCEPT ![w] = "line"] /\ UsesList(w) /\ wpc[w] = "link"
      /\ UNCHANGED <<checkVars, overlapped, protect_enabeled>>
      /\ chain' = Append(chain, aux[w]) /\ entry' = entry /\ aux[w] \in Addr
  BY DEF LinkNode, Goto, UsesList, ctrlVars, Typed, LinkHasNode
<1>2. ~Dismantling /\ ~Dismantling'
  BY <1>1, Alone
<1>3. entry[aux[w]] \in Entry /\ Rules' = Append(Rules, entry[aux[w]])
  <2>1. entry[aux[w]] \in Entry
    BY <1>1 DEF Typed, TypeOK
  <2>2. /\ DOMAIN chain' = 1 .. Len(chain) + 1 /\ Len(chain) \in Nat
        /\ \A i \in 1 .. Len(chain) : chain'[i] = chain[i]
        /\ chain'[Len(chain) + 1] = aux[w]
    BY <1>1 DEF Typed, TypeOK
  <2>3. Rules' = [i \in 1 .. Len(chain) + 1 |->
                    IF i = Len(chain) + 1 THEN entry[aux[w]] ELSE Rules[i]]
    BY <1>1, <2>2 DEF Rules, Typed, TypeOK
  <2>4. Rules \in Seq(Entry) /\ Len(Rules) = Len(chain)
    BY RulesAreEntries
  <2>. QED  BY <2>1, <2>3, <2>4, AppendIs
<1>4. RulesSeen' = Append(RulesSeen, entry[aux[w]])
  BY <1>2, <1>3 DEF RulesSeen
<1>5. /\ Dismantling' = FALSE /\ Dismantling = FALSE
      /\ UNCHANGED <<protect_enabeled, ChecksSeen>>
      /\ \E e \in Entry : RulesSeen' = Append(RulesSeen, e)
  BY <1>1, <1>2, <1>3, <1>4, NoCheck DEF Dismantling
<1>. QED  BY <1>5 DEF Policy!Extend, RulesSeen, ChecksSeen

\* The other steps inside the list do not show.
LEMMA BuildingHidden ==
  ASSUME Typed, Heap, NEW w \in Writers,
         \/ FindTail(w) \/ SeekTail(w) \/ CopyText(w) \/ LastLine(w) \/ SkipLine(w)
         \/ AllocFault(w) \/ \E a \in Addr : NewNode(w, a) \/ NoLetterFault(w, a)
  PROVE  UNCHANGED Policy!vars
<1>1. UsesList(w) /\ wpc[w] \in {"tail", "seek", "copy", "line"}
  BY DEF FindTail, SeekTail, CopyText, LastLine, SkipLine, AllocFault, NewNode, NoLetterFault,
         UsesList
<1>2. PICK place \in {"seek", "copy", "line", "idle", "link"} \cup Dead :
        wpc' = [wpc EXCEPT ![w] = place]
  <2>1. CASE SkipLine(w) \/ SeekTail(w)
    <3>1. wpc' = [wpc EXCEPT ![w] = wpc[w]] \/ wpc' = [wpc EXCEPT ![w] = "copy"]
      BY <2>1 DEF SkipLine, SeekTail, Goto, Typed, TypeOK
    <3>2. wpc[w] \in {"line", "seek"}
      BY <2>1 DEF SkipLine, SeekTail
    <3>. QED  BY <3>1, <3>2
  <2>2. CASE ~SkipLine(w) /\ ~SeekTail(w)
    BY <2>2 DEF FindTail, CopyText, LastLine, AllocFault, NewNode, NoLetterFault, Leave, Goto
  <2>. QED  BY <2>1, <2>2
<1>3. ~Dismantling /\ ~Dismantling'
  BY <1>1, <1>2, Alone
<1>4. /\ UNCHANGED <<checkVars, overlapped, protect_enabeled>> /\ chain' = chain
      /\ \A a \in live : entry'[a] = entry[a]
  <2>1. ASSUME NEW a \in Addr, NewNode(w, a) \/ NoLetterFault(w, a)
        PROVE  /\ UNCHANGED <<checkVars, overlapped, protect_enabeled>> /\ chain' = chain
               /\ \A b \in live : entry'[b] = entry[b]
    BY <2>1 DEF NewNode, NoLetterFault, ctrlVars, Typed, TypeOK
  <2>2. ASSUME \/ FindTail(w) \/ SeekTail(w) \/ CopyText(w) \/ LastLine(w) \/ SkipLine(w)
               \/ AllocFault(w)
        PROVE  UNCHANGED <<checkVars, overlapped, protect_enabeled, listVars>>
    BY <2>2 DEF FindTail, SeekTail, CopyText, LastLine, SkipLine, AllocFault, ctrlVars
  <2>3. CASE \/ FindTail(w) \/ SeekTail(w) \/ CopyText(w) \/ LastLine(w) \/ SkipLine(w)
             \/ AllocFault(w)
    BY <2>2, <2>3 DEF listVars
  <2>. QED  BY <2>1, <2>3
<1>5. Rules' = Rules
  <2>1. \A i \in DOMAIN chain : entry'[chain[i]] = entry[chain[i]]
    BY <1>3, <1>4 DEF Heap, Standing
  <2>. QED  BY <1>4, <2>1, SameRules
<1>. QED  BY <1>3, <1>4, <1>5, NoCheck, SameView DEF RulesSeen

\* Outside the list only the switch shows.
LEMMA OutsideSwitches ==
  ASSUME Typed, NEW w \in Writers, WriterCall(w) \/ RestartWriter(w) \/ Dispatch(w)
  PROVE  Policy!Switch
<1>1. /\ UNCHANGED <<listVars, checkVars, overlapped>>
      /\ protect_enabeled' \in BOOLEAN
      /\ \E place \in WriterPlaces \ {"unlink", "free"} : wpc' = [wpc EXCEPT ![w] = place]
      /\ wpc[w] \notin {"unlink", "free"}
  <2>. USE DEF Goto, WriterPlaces, ctrlVars
  <2>0. protect_enabeled \in BOOLEAN /\ wpc = [wpc EXCEPT ![w] = wpc[w]]
    BY DEF Typed, TypeOK
  <2>1. CASE EmptyWrite(w)
    BY <2>0, <2>1 DEF EmptyWrite
  <2>2. ASSUME NEW text \in Texts \cup ControlTexts,
               ProtectWrite(w, text) \/ CtrlWrite(w, text)
        PROVE  /\ UNCHANGED <<listVars, checkVars, overlapped, protect_enabeled>>
               /\ \E place \in WriterPlaces \ {"unlink", "free"} :
                     wpc' = [wpc EXCEPT ![w] = place]
               /\ wpc[w] \notin {"unlink", "free"}
    <3>1. PICK place \in {"begin", "dispatch"} : CopyFromUser(w, text, place)
      BY <2>2 DEF ProtectWrite, CtrlWrite
    <3>2. UNCHANGED <<listVars, checkVars, overlapped, protect_enabeled>>
      BY <2>2 DEF ProtectWrite, CtrlWrite
    <3>3. wpc[w] = "idle" /\ \E q \in {"begin", "dispatch", "oops"} : wpc' = [wpc EXCEPT ![w] = q]
      BY <3>1 DEF CopyFromUser
    <3>. QED  BY <3>2, <3>3
  <2>3. ASSUME NEW text \in Texts \cup ControlTexts, WriteFaults(w, text)
        PROVE  /\ UNCHANGED <<listVars, checkVars, overlapped, protect_enabeled>>
               /\ \E place \in WriterPlaces \ {"unlink", "free"} :
                     wpc' = [wpc EXCEPT ![w] = place]
               /\ wpc[w] \notin {"unlink", "free"}
    BY <2>0, <2>3 DEF WriteFaults
  <2>4. CASE Dispatch(w)
    BY <2>0, <2>4 DEF Dispatch
  <2>5. CASE RestartWriter(w)
    BY <2>0, <2>5 DEF RestartWriter, Leave
  <2>. QED  BY <2>0, <2>1, <2>2, <2>3, <2>4, <2>5 DEF WriterCall
<1>2. Dismantling' = Dismantling
  BY <1>1 DEF Dismantling, Typed, TypeOK
<1>3. RulesSeen' = RulesSeen
  BY <1>1, <1>2 DEF RulesSeen, Rules, listVars
<1>. QED  BY <1>1, <1>2, <1>3, NoCheck DEF Policy!Switch, RulesSeen, ChecksSeen

-----------------------------------------------------------------------------
(* The checks.                                                             *)

\* A step of a check leaves the rules and the switch alone.
LEMMA CheckFrame ==
  ASSUME Typed, NEW r \in Readers, UNCHANGED <<listVars, writerVars, ctrlVars>>,
         \A s \in Readers \ {r} : /\ rpc'[s] = rpc[s] /\ req'[s] = req[s]
                                 /\ overlapped'[s] = overlapped[s]
                                 /\ verdict'[s] = verdict[s] /\ notified'[s] = notified[s]
  PROVE  /\ RulesSeen' = RulesSeen /\ Dismantling' = Dismantling
         /\ protect_enabeled' = protect_enabeled
         /\ ChecksSeen' = [ChecksSeen EXCEPT ![r] = Seen(r)']
<1>1. Dismantling' = Dismantling
  BY DEF Dismantling, writerVars
<1>2. Rules' = Rules
  BY DEF Rules, listVars
<1>. QED  BY <1>1, <1>2, OneCheck DEF RulesSeen, ctrlVars

\* Only the check that steps moves.
LEMMA OthersStay ==
  ASSUME Typed, NEW r \in Readers, ReaderCall(r) \/ ReaderStep(r) \/ Return(r)
  PROVE  /\ UNCHANGED <<listVars, writerVars, ctrlVars>>
         /\ \A s \in Readers \ {r} :
              /\ rpc'[s] = rpc[s] /\ req'[s] = req[s] /\ overlapped'[s] = overlapped[s]
              /\ verdict'[s] = verdict[s] /\ notified'[s] = notified[s]
<1>. USE DEF Typed, TypeOK, CheckGoto, Answer
<1>1. CASE ReaderCall(r)
  BY <1>1 DEF ReaderCall, CallWhileDisabled, CallBadDescriptor, Call
<1>2. CASE Start(r)
  BY <1>2 DEF Start, LoopOn
<1>3. CASE Visit(r) \/ Notify(r) \/ NotifyStarves(r) \/ ReaderFault(r)
  BY <1>3 DEF Visit, Notify, NotifyStarves, ReaderFault
<1>4. CASE Advance(r)
  BY <1>4 DEF Advance, LoopOn
<1>5. CASE Return(r)
  BY <1>5 DEF Return
<1>. QED  BY <1>1, <1>2, <1>3, <1>4, <1>5 DEF ReaderStep

\* A hook asks; while protection is off some questions are answered at once.
LEMMA CallAsks ==
  ASSUME Typed, NEW r \in Readers, Unasked(r), NEW q \in Requests,
         CallWhileDisabled(r, q) \/ CallBadDescriptor(r, q) \/ Call(r, q)
  PROVE  Policy!Ask(r, q)
<1>1. /\ RulesSeen' = RulesSeen /\ Dismantling' = Dismantling
      /\ protect_enabeled' = protect_enabeled
      /\ ChecksSeen' = [ChecksSeen EXCEPT ![r] = Seen(r)']
  BY OthersStay, CheckFrame DEF ReaderCall
<1>. DEFINE phase == IF q.kind = "fd" /\ ~protect_enabeled THEN "closed"
                     ELSE IF q.key = NULL THEN "dead" ELSE "open"
<1>2. /\ rpc[r] = "idle" /\ req'[r] = q /\ Phase(rpc[r])' = phase
      /\ overlapped'[r] = overlapped[r] /\ verdict'[r] = verdict[r]
      /\ notified'[r] = notified[r]
  BY DEF CallWhileDisabled, CallBadDescriptor, Call, Answer, CheckGoto, Switched, Phase,
         Unasked, Typed, TypeOK
<1>. HIDE DEF phase
<1>3. Seen(r)' = [[Seen(r) EXCEPT !.q = q] EXCEPT !.phase = phase] /\ Seen(r).phase = "idle"
  <2>1. Phase(rpc[r]) = "idle"
    BY <1>2 DEF Phase
  <2>2. Seen(r)' = [phase |-> phase, q |-> q, disturbed |-> overlapped[r],
                    refused |-> verdict[r], message |-> notified[r]]
    BY <1>2 DEF Seen
  <2>3. [Seen(r) EXCEPT !.q = q] = [phase |-> Phase(rpc[r]), q |-> q,
           disturbed |-> overlapped[r], refused |-> verdict[r], message |-> notified[r]]
    BY DEF Seen
  <2>4. Seen(r).phase = "idle"
    BY <2>1 DEF Seen
  <2>5. [[phase |-> Phase(rpc[r]), q |-> q, disturbed |-> overlapped[r],
           refused |-> verdict[r], message |-> notified[r]] EXCEPT !.phase = phase] =
        [phase |-> phase, q |-> q, disturbed |-> overlapped[r],
           refused |-> verdict[r], message |-> notified[r]]
    OBVIOUS
  <2>6. [[Seen(r) EXCEPT !.q = q] EXCEPT !.phase = phase] = Seen(r)'
    BY <2>2, <2>3, <2>5
  <2>. QED  BY <2>4, <2>6
<1>4. /\ ChecksSeen[r].phase = "idle"
      /\ ChecksSeen' = [ChecksSeen EXCEPT ![r].q = q, ![r].phase = phase]
  BY <1>1, <1>3 DEF ChecksSeen
<1>. QED  BY <1>1, <1>4 DEF Policy!Ask, RulesSeen, ChecksSeen, phase

\* What the list answers is what the policy calls right.
LEMMA RightSeen ==
  ASSUME Typed', NEW r \in Readers, ~Dismantling, AnsweredRight(r)
  PROVE  Policy!Right(req[r], [refused |-> verdict'[r], message |-> notified'[r]])
<1>1. verdict'[r] \in BOOLEAN
  BY DEF Typed, TypeOK
<1>2. CASE verdict'[r]
  <2>1. verdict'[r] = TRUE
    BY <1>1, <1>2
  <2>. QED  BY <1>2, <2>1 DEF AnsweredRight, FirstMatch, Policy!Right, Policy!IsFirstMatch
<1>3. CASE ~verdict'[r]
  <2>1. verdict'[r] = FALSE
    BY <1>1, <1>3
  <2>. QED  BY <1>3, <2>1 DEF AnsweredRight, FirstMatch, Policy!Right, Policy!IsFirstMatch
<1>. QED  BY <1>2, <1>3

\* A walk that ends closes its check: disturbed if a list was being taken down
\* under it, else with the right answer.
LEMMA AnswerCloses ==
  ASSUME Typed, Typed', Heap, NEW r \in Readers, Unasked(r), Concludes(r),
         Start(r) \/ Advance(r) \/ Notify(r)
  PROVE  Policy!Close(r)
<1>1. /\ RulesSeen' = RulesSeen /\ Dismantling' = Dismantling
      /\ protect_enabeled' = protect_enabeled
      /\ ChecksSeen' = [ChecksSeen EXCEPT ![r] = Seen(r)']
  BY OthersStay, CheckFrame DEF ReaderStep
<1>. DEFINE d == overlapped'[r]
            f == verdict'[r]
            m == notified'[r]
<1>2. d \in BOOLEAN /\ f \in BOOLEAN
  BY DEF Typed, TypeOK
<1>3. m \in {NULL} \cup {[path |-> e.path, type |-> e.type] : e \in Entry}
  <2>1. CASE Start(r) \/ Advance(r)
    BY <2>1 DEF Start, Advance, LoopOn, Answer, CheckGoto, Concludes, Typed, TypeOK
  <2>2. CASE Notify(r)
    <3>1. m = [path |-> entry[p[r]].path, type |-> entry[p[r]].type]
      BY <2>2 DEF Notify, Answer, Typed, TypeOK
    <3>2. entry[p[r]] \in Entry
      BY <2>2 DEF Notify, Readable, Typed, TypeOK
    <3>. HIDE DEF m
    <3>. QED  BY <3>1, <3>2
  <2>. QED  BY <2>1, <2>2
<1>4. /\ Phase(rpc[r]) = "open" /\ Phase(rpc[r])' = "closed" /\ req'[r] = req[r]
      /\ rpc[r] = "start" \/ Walking(r)
  BY DEF Start, Advance, Notify, Phase, Concludes, Walking
<1>5. /\ ChecksSeen[r] = Seen(r) /\ Seen(r).phase = "open" /\ Seen(r).q = req[r]
      /\ Seen(r).disturbed = overlapped[r]
  BY <1>4 DEF ChecksSeen, Seen
<1>6. ChecksSeen' = [ChecksSeen EXCEPT ![r].phase = "closed", ![r].disturbed = d,
                                       ![r].refused = f, ![r].message = m]
  <2>1. Seen(r)' = [phase |-> "closed", q |-> req[r], disturbed |-> d, refused |-> f,
                    message |-> m]
    BY <1>4 DEF Seen
  <2>2. Seen(r) = [phase |-> Phase(rpc[r]), q |-> req[r], disturbed |-> overlapped[r],
                   refused |-> verdict[r], message |-> notified[r]]
    BY DEF Seen
  <2>. HIDE DEF d, f, m
  <2>3. Seen(r)' = [[[[Seen(r) EXCEPT !.phase = "closed"] EXCEPT !.disturbed = d]
                       EXCEPT !.refused = f] EXCEPT !.message = m]
    <3>1. [Seen(r) EXCEPT !.phase = "closed"]
            = [phase |-> "closed", q |-> req[r], disturbed |-> overlapped[r],
               refused |-> verdict[r], message |-> notified[r]]
      BY <2>2
    <3>2. [[phase |-> "closed", q |-> req[r], disturbed |-> overlapped[r],
            refused |-> verdict[r], message |-> notified[r]] EXCEPT !.disturbed = d]
            = [phase |-> "closed", q |-> req[r], disturbed |-> d,
               refused |-> verdict[r], message |-> notified[r]]
      OBVIOUS
    <3>3. [[phase |-> "closed", q |-> req[r], disturbed |-> d,
            refused |-> verdict[r], message |-> notified[r]] EXCEPT !.refused = f]
            = [phase |-> "closed", q |-> req[r], disturbed |-> d,
               refused |-> f, message |-> notified[r]]
      OBVIOUS
    <3>4. [[phase |-> "closed", q |-> req[r], disturbed |-> d,
            refused |-> f, message |-> notified[r]] EXCEPT !.message = m]
            = [phase |-> "closed", q |-> req[r], disturbed |-> d,
               refused |-> f, message |-> m]
      OBVIOUS
    <3>. QED  BY <2>1, <3>1, <3>2, <3>3, <3>4
  <2>. QED  BY <1>1, <1>5, <2>3 DEF ChecksSeen
<1>7. IF overlapped[r] \/ Dismantling THEN d
      ELSE ~d /\ Policy!Right(req[r], [refused |-> f, message |-> m])
  <2>1. CASE Start(r)
    <3>1. ~overlapped[r] /\ (d <=> Dismantling)
      BY <2>1 DEF Start, Unasked, Typed, TypeOK
    <3>2. ~Dismantling => AnsweredRight(r)
      BY <2>1, <3>1, RightAnswer
    <3>. QED  BY <3>1, <3>2, RightSeen
  <2>2. CASE Advance(r) \/ Notify(r)
    <3>1. d = overlapped[r]
      BY <2>2 DEF Advance, Notify
    <3>2. ~overlapped[r] => ~Dismantling
      BY <2>2, OnTrackReadable DEF Advance, Notify, Walking
    <3>3. ~overlapped[r] => AnsweredRight(r)
      BY <2>2, <3>1, RightAnswer
    <3>4. ~overlapped[r] => ~d /\ Policy!Right(req[r], [refused |-> f, message |-> m])
      BY <3>1, <3>2, <3>3, RightSeen
    <3>5. overlapped[r] => d
      BY <3>1
    <3>. QED  BY <3>2, <3>4, <3>5
  <2>. QED  BY <2>1, <2>2
<1>. HIDE DEF d, f, m
<1>8. /\ ChecksSeen[r].phase = "open"
      /\ IF ChecksSeen[r].disturbed \/ Dismantling THEN d
         ELSE ~d /\ Policy!Right(ChecksSeen[r].q, [refused |-> f, message |-> m])
  BY <1>5, <1>7
<1>. QED  BY <1>1, <1>2, <1>3, <1>6, <1>8 DEF Policy!Close, RulesSeen, ChecksSeen

\* A walk that goes on shows only when it started in a list being taken down.
LEMMA WalkDisturbed ==
  ASSUME Typed, Heap, NEW r \in Readers, Unasked(r), ~Concludes(r),
         Start(r) \/ Advance(r) \/ Visit(r)
  PROVE  Policy!Disturb(r) \/ UNCHANGED Policy!vars
<1>1. /\ RulesSeen' = RulesSeen /\ Dismantling' = Dismantling
      /\ protect_enabeled' = protect_enabeled
      /\ ChecksSeen' = [ChecksSeen EXCEPT ![r] = Seen(r)']
  BY OthersStay, CheckFrame DEF ReaderStep
<1>2. rpc[r] \in {"start", "visit", "advance"} /\ rpc'[r] \in {"visit", "notify", "advance"}
  BY DEF Start, Advance, Visit, LoopOn, Answer, CheckGoto, Concludes, Typed, TypeOK
<1>3. Phase(rpc[r]) = "open" /\ Phase(rpc[r])' = "open"
  BY <1>2 DEF Phase
<1>4. req'[r] = req[r] /\ verdict'[r] = verdict[r] /\ notified'[r] = notified[r]
  BY <1>2 DEF Start, Advance, Visit, LoopOn, Answer, CheckGoto, Typed, TypeOK
<1>5. CASE overlapped'[r] = overlapped[r]
  <2>1. Seen(r)' = Seen(r)
    BY <1>3, <1>4, <1>5 DEF Seen
  <2>2. ChecksSeen' = ChecksSeen
    BY <1>1, <2>1 DEF ChecksSeen
  <2>. QED  BY <1>1, <2>2, SameView
<1>6. CASE overlapped'[r] # overlapped[r]
  <2>1. Start(r)
    BY <1>6 DEF Advance, Visit
  <2>2. ~overlapped[r] /\ overlapped'[r] = Dismantling
    BY <2>1 DEF Start, Unasked, Typed, TypeOK
  <2>3. Dismantling /\ overlapped'[r] = TRUE
    BY <1>6, <2>2 DEF Dismantling, Typed, TypeOK
  <2>. DEFINE d == TRUE
  <2>. HIDE DEF d
  <2>4. Seen(r)' = [Seen(r) EXCEPT !.disturbed = d] /\ Seen(r).phase = "open"
    <3>1. Seen(r)' = [phase |-> "open", q |-> req[r], disturbed |-> d,
                      refused |-> verdict[r], message |-> notified[r]]
      BY <1>3, <1>4, <2>3 DEF Seen, d
    <3>2. Seen(r) = [phase |-> "open", q |-> req[r], disturbed |-> overlapped[r],
                     refused |-> verdict[r], message |-> notified[r]]
      BY <1>3 DEF Seen
    <3>3. [[phase |-> "open", q |-> req[r], disturbed |-> overlapped[r],
            refused |-> verdict[r], message |-> notified[r]] EXCEPT !.disturbed = d]
            = [phase |-> "open", q |-> req[r], disturbed |-> d,
               refused |-> verdict[r], message |-> notified[r]]
      OBVIOUS
    <3>4. Seen(r).phase = "open"
      BY <3>2
    <3>. QED  BY <3>1, <3>2, <3>3, <3>4
  <2>5. /\ ChecksSeen[r].phase = "open"
        /\ ChecksSeen' = [ChecksSeen EXCEPT ![r].disturbed = TRUE]
    BY <1>1, <2>4 DEF ChecksSeen, d
  <2>. QED  BY <1>1, <2>3, <2>5 DEF Policy!Disturb, RulesSeen, ChecksSeen
<1>. QED  BY <1>5, <1>6

\* A walk that faults was disturbed; one that has no memory for its message was
\* disturbed too, or has found the rule that refuses it.
LEMMA FaultDies ==
  ASSUME Typed, Heap, NEW r \in Readers, NotifyStarves(r) \/ ReaderFault(r)
  PROVE  Policy!Die(r)
<1>1. /\ RulesSeen' = RulesSeen /\ Dismantling' = Dismantling
      /\ protect_enabeled' = protect_enabeled
      /\ ChecksSeen' = [ChecksSeen EXCEPT ![r] = Seen(r)']
  BY OthersStay, CheckFrame DEF ReaderStep
<1>2. /\ Phase(rpc[r]) = "open" /\ Phase(rpc[r])' = "dead"
      /\ req'[r] = req[r] /\ verdict'[r] = verdict[r] /\ notified'[r] = notified[r]
      /\ overlapped'[r] = overlapped[r]
  BY DEF NotifyStarves, ReaderFault, CheckGoto, Phase, Walking, Typed, TypeOK
<1>3. overlapped[r] \/ \E i \in DOMAIN RulesSeen : Match(req[r], RulesSeen[i])
  <2>1. CASE ReaderFault(r)
    BY <2>1, OnTrackReadable DEF ReaderFault
  <2>2. CASE NotifyStarves(r) /\ ~overlapped[r]
    <3>1. PICK i \in DOMAIN Rules : FirstMatch(req[r], i)
      BY <2>2, DueRefusal
    <3>2. RulesSeen = Rules
      BY <2>2, OnTrackReadable DEF NotifyStarves, Walking, RulesSeen
    <3>. QED  BY <3>1, <3>2 DEF FirstMatch
  <2>. QED  BY <2>1, <2>2
<1>4. /\ Seen(r)' = [Seen(r) EXCEPT !.phase = "dead"] /\ Seen(r).phase = "open"
      /\ Seen(r).disturbed = overlapped[r] /\ Seen(r).q = req[r]
  <2>1. Seen(r)' = [phase |-> "dead", q |-> req[r], disturbed |-> overlapped[r],
                    refused |-> verdict[r], message |-> notified[r]]
    BY <1>2 DEF Seen
  <2>2. Seen(r) = [phase |-> "open", q |-> req[r], disturbed |-> overlapped[r],
                   refused |-> verdict[r], message |-> notified[r]]
    BY <1>2 DEF Seen
  <2>3. [[phase |-> "open", q |-> req[r], disturbed |-> overlapped[r],
          refused |-> verdict[r], message |-> notified[r]] EXCEPT !.phase = "dead"]
          = [phase |-> "dead", q |-> req[r], disturbed |-> overlapped[r],
             refused |-> verdict[r], message |-> notified[r]]
    OBVIOUS
  <2>4. Seen(r).phase = "open" /\ Seen(r).disturbed = overlapped[r] /\ Seen(r).q = req[r]
    BY <2>2
  <2>. QED  BY <2>1, <2>2, <2>3, <2>4
<1>5. /\ ChecksSeen[r].phase = "open" /\ ChecksSeen[r].disturbed = overlapped[r]
      /\ ChecksSeen[r].q = req[r]
      /\ ChecksSeen' = [ChecksSeen EXCEPT ![r].phase = "dead"]
  BY <1>1, <1>4 DEF ChecksSeen
<1>6. ChecksSeen[r].disturbed
        \/ \E i \in DOMAIN RulesSeen : Match(ChecksSeen[r].q, RulesSeen[i])
  BY <1>3, <1>5
<1>. QED  BY <1>1, <1>5, <1>6 DEF Policy!Die, RulesSeen, ChecksSeen

\* The hook has its answer and the check is forgotten.
LEMMA ReturnForgets ==
  ASSUME Typed, NEW r \in Readers, Return(r)
  PROVE  Policy!Forget(r)
<1>1. /\ RulesSeen' = RulesSeen /\ Dismantling' = Dismantling
      /\ protect_enabeled' = protect_enabeled
      /\ ChecksSeen' = [ChecksSeen EXCEPT ![r] = Seen(r)']
  BY OthersStay, CheckFrame
<1>2. Phase(rpc[r]) \in {"closed", "dead"} /\ Phase(rpc[r])' = "idle"
  BY DEF Return, CheckGoto, Phase, Typed, TypeOK
<1>3. Seen(r)' = Policy!Idle /\ Seen(r).phase \in {"closed", "dead"}
  BY <1>2 DEF Return, Seen, Policy!Idle, Typed, TypeOK
<1>4. ChecksSeen[r].phase \in {"closed", "dead"}
  BY <1>3 DEF ChecksSeen
<1>. QED  BY <1>1, <1>3, <1>4 DEF Policy!Forget, RulesSeen, ChecksSeen

-----------------------------------------------------------------------------
(* All steps.                                                              *)

\* A check that has not begun has no answer and met no destroy_list.
LEMMA UnaskedKept ==
  ASSUME Typed, \A r \in Readers : Unasked(r), [Next]_vars
  PROVE  \A r \in Readers : Unasked(r)'
<1>. USE DEF Unasked, Typed, TypeOK
<1>1. CASE UNCHANGED vars
  BY <1>1 DEF vars, checkVars
<1>2. ASSUME NEW w \in Writers, BeginDestroy(w) PROVE \A r \in Readers : Unasked(r)'
  BY <1>2 DEF BeginDestroy, checkVars, Walking
<1>3. ASSUME NEW w \in Writers, WriterCall(w) \/ WriterStep(w) \/ RestartWriter(w),
             ~BeginDestroy(w)
      PROVE  UNCHANGED <<checkVars, overlapped>>
  BY <1>3 DEF WriterCall, EmptyWrite, ProtectWrite, CtrlWrite, WriteFaults, RestartWriter,
              WriterStep, Dispatch, DestroyNode, FreeNode, EndDestroy, FindTail, SeekTail,
              CopyText, LastLine, SkipLine, LinkNode, AllocFault, WriterFault, NewNode,
              NoLetterFault
<1>4. ASSUME NEW r \in Readers, ReaderCall(r) \/ ReaderStep(r) \/ Return(r)
      PROVE  \A s \in Readers : Unasked(s)'
  <2>1. \A s \in Readers \ {r} : Unasked(s)'
    BY <1>4, OthersStay
  <2>. USE DEF CheckGoto, Answer
  <2>2. CASE ReaderCall(r)
    BY <2>1, <2>2 DEF ReaderCall, CallWhileDisabled, CallBadDescriptor, Call
  <2>3. CASE Start(r) \/ Advance(r)
    BY <2>1, <2>3 DEF Start, Advance, LoopOn
  <2>4. CASE Visit(r) \/ Notify(r) \/ NotifyStarves(r) \/ ReaderFault(r)
    BY <2>1, <2>4 DEF Visit, Notify, NotifyStarves, ReaderFault
  <2>5. CASE Return(r)
    BY <2>1, <2>5 DEF Return
  <2>. QED  BY <1>4, <2>2, <2>3, <2>4, <2>5 DEF ReaderStep
<1>. QED  BY <1>1, <1>2, <1>3, <1>4 DEF Next, checkVars

\* Every step that no clash precedes is a step of the policy or does not show.
LEMMA PolicyStep ==
  ASSUME Typed, Typed', Heap, ~clashed', \A r \in Readers : Unasked(r), [Next]_vars
  PROVE  [Policy!Next]_Policy!vars
<1>1. CASE UNCHANGED vars
  <2>1. /\ UNCHANGED <<listVars, writerVars, checkVars, overlapped, protect_enabeled>>
    BY <1>1 DEF vars, ctrlVars
  <2>2. (Dismantling' <=> Dismantling) /\ Rules' = Rules
    BY <2>1 DEF Dismantling, Rules, listVars, writerVars
  <2>. QED  BY <2>1, <2>2, NoCheck, SameView DEF RulesSeen
<1>2. ASSUME NEW w \in Writers, WriterCall(w) \/ WriterStep(w) \/ RestartWriter(w)
      PROVE  [Policy!Next]_Policy!vars
  <2>1. CASE WriterCall(w) \/ RestartWriter(w) \/ Dispatch(w)
    BY <2>1, OutsideSwitches DEF Policy!Next
  <2>2. CASE BeginDestroy(w)
    BY <2>2, BeginWithdraws DEF Policy!Next
  <2>3. CASE DestroyNode(w) \/ FreeNode(w)
    BY <2>3, DestroyHidden
  <2>4. CASE EndDestroy(w)
    BY <2>4, EndSettles DEF Policy!Next
  <2>5. CASE LinkNode(w)
    BY <2>5, LinkExtends DEF Policy!Next
  <2>6. CASE WriterFault(w)
    BY <2>6, NoWildPointer
  <2>7. CASE \/ FindTail(w) \/ SeekTail(w) \/ CopyText(w) \/ LastLine(w) \/ SkipLine(w)
             \/ AllocFault(w) \/ \E a \in Addr : NewNode(w, a) \/ NoLetterFault(w, a)
    BY <2>7, BuildingHidden
  <2>. QED  BY <1>2, <2>1, <2>2, <2>3, <2>4, <2>5, <2>6, <2>7 DEF WriterStep
<1>3. ASSUME NEW r \in Readers, ReaderCall(r) \/ ReaderStep(r) \/ Return(r)
      PROVE  [Policy!Next]_Policy!vars
  <2>1. CASE ReaderCall(r)
    BY <2>1, CallAsks DEF ReaderCall, Policy!Next
  <2>2. CASE Concludes(r) /\ (Start(r) \/ Advance(r) \/ Notify(r))
    BY <2>2, AnswerCloses DEF Policy!Next
  <2>3. CASE ~Concludes(r) /\ (Start(r) \/ Advance(r) \/ Visit(r))
    BY <2>3, WalkDisturbed DEF Policy!Next
  <2>4. CASE NotifyStarves(r) \/ ReaderFault(r)
    BY <2>4, FaultDies DEF Policy!Next
  <2>5. CASE Return(r)
    BY <2>5, ReturnForgets DEF Policy!Next
  <2>6. Visit(r) => ~Concludes(r)
    BY DEF Visit, CheckGoto, Concludes, Typed, TypeOK
  <2>7. Notify(r) => Concludes(r)
    BY DEF Notify, Answer, CheckGoto, Concludes, Typed, TypeOK
  <2>. QED  BY <1>3, <2>1, <2>2, <2>3, <2>4, <2>5, <2>6, <2>7 DEF ReaderStep
<1>. QED  BY <1>1, <1>2, <1>3 DEF Next

\* init_communicate leaves a policy without rules, switched on.
LEMMA PolicyInit == Init => Policy!Init /\ \A r \in Readers : Unasked(r)
<1>. SUFFICES ASSUME Init PROVE Policy!Init /\ \A r \in Readers : Unasked(r)
  OBVIOUS
<1>1. ~Dismantling /\ Dismantling = FALSE /\ Rules = <<>>
  BY DEF Init, Dismantling, Rules
<1>2. ASSUME NEW r \in Readers PROVE Seen(r) = Policy!Idle
  BY DEF Init, Seen, Phase, Policy!Idle
<1>3. ChecksSeen = [r \in Readers |-> Policy!Idle]
  BY <1>2 DEF ChecksSeen
<1>4. Policy!Init
  BY <1>1, <1>3 DEF Init, Policy!Init, ChecksSeen
<1>5. \A r \in Readers : Unasked(r)
  BY DEF Init, Unasked
<1>. QED  BY <1>4, <1>5

-----------------------------------------------------------------------------
\* As long as no two handlers clash, the list of communicate.c and its walks
\* implement AccessPolicy, whatever the numbers of tasks, rules and nodes: rules are
\* withdrawn as a whole and come back one by one, and a check that was not disturbed
\* is answered as in one step, or dies for want of memory when it is due a refusal.
THEOREM PolicyImplemented == Spec /\ [](~clashed) => ImplementsPolicy
<1>. DEFINE AllUnasked == \A r \in Readers : Unasked(r)
<1>1. Typed /\ AllUnasked /\ [Next]_vars => AllUnasked'
  BY UnaskedKept
<1>2. /\ Typed /\ Typed' /\ HeapShape /\ ~clashed /\ ~clashed' /\ AllUnasked /\ [Next]_vars
      => [Policy!Next]_Policy!vars
  BY PolicyStep DEF HeapShape
<1>3. Init => Policy!Init /\ AllUnasked
  BY PolicyInit
<1>. QED
  BY <1>1, <1>2, <1>3, TypedAlways, HeapSafe, PTL DEF Spec, ImplementsPolicy, Policy!Spec

\* With a single task that writes to the /proc files (one manager, and nobody at
\* the control file meanwhile) no two handlers clash, and the policy is implemented
\* without a proviso.
COROLLARY OneManagerPolicy ==
  ASSUME \A v, w \in Writers : v = w
  PROVE  Spec => ImplementsPolicy
<1>1. Init => ~clashed
  BY DEF Init
<1>2. ~clashed /\ [Next]_vars => ~clashed'
  <2>. SUFFICES ASSUME ~clashed, [Next]_vars PROVE ~clashed'
    OBVIOUS
  <2>1. CASE UNCHANGED vars
    BY <2>1 DEF vars, writerVars
  <2>2. ASSUME NEW w \in Writers, WriterCall(w) PROVE ~clashed'
    BY <2>2 DEF WriterCall, EmptyWrite, ProtectWrite, CtrlWrite, CopyFromUser, WriteFaults,
                NoteClash
  <2>3. ASSUME NEW w \in Writers, WriterStep(w) PROVE ~clashed'
    BY <2>3 DEF WriterStep, Dispatch, BeginDestroy, DestroyNode, FreeNode, EndDestroy,
                FindTail, SeekTail, CopyText, LastLine, SkipLine, LinkNode, AllocFault,
                WriterFault, NewNode, NoLetterFault, NoteClash
  <2>4. ASSUME NEW w \in Writers, RestartWriter(w) PROVE ~clashed'
    BY <2>4 DEF RestartWriter
  <2>5. ASSUME NEW r \in Readers, ReaderCall(r) \/ ReaderStep(r) \/ Return(r)
        PROVE  ~clashed'
    BY <2>5, OthersStay DEF writerVars, ReaderCall, ReaderStep, CallWhileDisabled,
            CallBadDescriptor, Call, Start, Visit, Advance, Notify, NotifyStarves,
            ReaderFault, Return
  <2>. QED  BY <2>1, <2>2, <2>3, <2>4, <2>5 DEF Next
<1>. QED  BY <1>1, <1>2, PolicyImplemented, PTL DEF Spec
=============================================================================
