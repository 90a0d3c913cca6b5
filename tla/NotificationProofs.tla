--------------------------- MODULE NotificationProofs ---------------------------
(***************************************************************************)
(* Theorems about Notification, for every number of hooks and receivers    *)
(* and every size of the socket's queue; and, at the end, about the life   *)
(* of the module that has the socket (Interception), for any tasks, hooked *)
(* system calls and number of loads.                                       *)
(***************************************************************************)
EXTENDS Notification, Interception, SequenceTheorems, TLAPS

USE DEF history

-----------------------------------------------------------------------------
(* The inductive invariant.                                                *)

\* The number of errors that were not printed over is that of the error waiting
\* in the socket and of the line about to be printed again.  A socket that takes
\* nothing has reported that, and the report is not forgotten.
Pending(r) == rpc[r] = "printf" /\ nlh[r] = Shown(r)
Told(r) == Repeats(r) # {} \/ missed[r] > 0
Counted(r) ==
  /\ missed[r] = (IF sk_err[r] THEN 1 ELSE 0) + (IF Pending(r) THEN 1 ELSE 0)
  /\ sk_err[r] => congested[r]
  /\ congested[r] => Told(r)
  /\ rpc[r] = "off" => printed[r] = <<>>
  /\ rpc[r] # "printf" => nlh[r] = Shown(r)

\* m may come after line l.
Follows(m, l) == m # l /\ ~Earlier(m, l)

\* What is in the queue is new to the user, and in its sender's order; so is the
\* line in the buffer unless it was printed.
Ordered(r) ==
  /\ \A j \in DOMAIN queue[r] :
       /\ \A i \in DOMAIN printed[r] : Follows(queue[r][j], printed[r][i])
       /\ \A i \in 1 .. j - 1 : Follows(queue[r][j], queue[r][i])
       /\ Follows(queue[r][j], nlh[r])
  /\ rpc[r] = "printf" /\ ~Pending(r) =>
       /\ nlh[r] \in Message
       /\ \A i \in DOMAIN printed[r] : Follows(nlh[r], printed[r][i])

\* A line was sent, and before the message its sender is busy with for r.
ToCome(s, r) == spc[s] = "alloc" \/ (spc[s] = "cast" /\ r \in todo[s])
WasSent(l, r) ==
  l \in Message => /\ l.number <= sent[l.from]
                   /\ ToCome(l.from, r) => l.number < sent[l.from]
Past(r) ==
  /\ \A i \in DOMAIN printed[r] : WasSent(printed[r][i], r)
  /\ \A j \in DOMAIN queue[r] : WasSent(queue[r][j], r)
  /\ WasSent(nlh[r], r)

\* A message that was to come is somewhere, or its loss was told.
Accounted(r) ==
  \A m \in offered[r] :
    \/ \E i \in DOMAIN printed[r] : printed[r][i] = m
    \/ \E i \in DOMAIN queue[r] : queue[r][i] = m
    \/ rpc[r] = "printf" /\ nlh[r] = m
    \/ \E s \in Casting : r \in todo[s] /\ Current(s) = m
    \/ Told(r)

\* A hook has a message to send from the moment it has something to say.
Numbered == \A s \in Senders : spc[s] # "idle" => sent[s] > 0

Inv ==
  /\ TypeOK /\ Numbered
  /\ \A r \in Receivers : Counted(r) /\ Ordered(r) /\ Past(r) /\ Accounted(r)

-----------------------------------------------------------------------------
(* Types.                                                                  *)

\* A message on its way is one.
LEMMA CurrentType ==
  ASSUME TypeOK, Numbered, NEW s \in Senders, spc[s] # "idle"
  PROVE  Current(s) \in Message
<1>1. sent[s] \in 1 .. MaxSent
  BY NotificationAssumption DEF TypeOK, Numbered
<1>. QED  BY <1>1 DEF Current, Message

\* Every step leaves every variable a value of its kind.
LEMMA TypeKept ==
  ASSUME TypeOK, Numbered, \A r \in Receivers : Counted(r), [Next]_vars
  PROVE  TypeOK' /\ Numbered'
<1>. USE NotificationAssumption DEF TypeOK, Numbered
<1>1. CASE UNCHANGED vars
  BY <1>1 DEF vars, senderVars, socketVars, receiverVars
<1>. USE DEF senderVars, socketVars, receiverVars
<1>2. CASE NotificationInit
  BY <1>2 DEF NotificationInit
<1>3. ASSUME NEW s \in Senders, MessageWithStr(s) PROVE TypeOK' /\ Numbered'
  BY <1>3 DEF MessageWithStr
<1>4. ASSUME NEW s \in Senders, AllocFails(s) \/ EndCast(s) PROVE TypeOK' /\ Numbered'
  BY <1>4 DEF AllocFails, EndCast, Sent
<1>5. ASSUME NEW s \in Senders, StartCast(s) PROVE TypeOK' /\ Numbered'
  <2>1. Current(s) \in Message
    BY <1>5, CurrentType DEF StartCast
  <2>. QED  BY <1>5, <2>1 DEF StartCast
<1>6. ASSUME NEW s \in Senders, NEW r \in Receivers, Deliver(s, r)
      PROVE  TypeOK' /\ Numbered'
  <2>1. Current(s) \in Message
    BY <1>6, CurrentType DEF Deliver
  <2>2. /\ Append(queue[r], Current(s)) \in Seq(Message)
        /\ Len(Append(queue[r], Current(s))) <= Room
    BY <1>6, <2>1 DEF Deliver
  <2>3. /\ queue' \in [Receivers -> Seq(Message)]
        /\ \A q \in Receivers : Len(queue'[q]) <= Room
    BY <1>6, <2>2 DEF Deliver, Payload
  <2>. QED  BY <1>6, <2>3 DEF Deliver
<1>7. ASSUME NEW s \in Senders, NEW r \in Receivers, Overrun(s, r)
      PROVE  TypeOK' /\ Numbered'
  <2>1. sk_err' \in [Receivers -> BOOLEAN] /\ missed' \in [Receivers -> Nat]
    <3>1. CASE congested[r]
      <4>1. sk_err' = sk_err /\ missed' = missed
        BY <1>7, <3>1, Zenon DEF Overrun
      <4>. QED  BY <4>1
    <3>2. CASE ~congested[r]
      <4>1. /\ sk_err' = [sk_err EXCEPT ![r] = TRUE]
            /\ missed' = [missed EXCEPT ![r] = @ + 1]
        BY <1>7, <3>2, Zenon DEF Overrun
      <4>2. missed' \in [Receivers -> Nat]
        BY <4>1
      <4>3. sk_err' \in [Receivers -> BOOLEAN]
        BY <4>1
      <4>. QED  BY <4>2, <4>3
    <3>. QED  BY <3>1, <3>2
  <2>2. /\ congested' \in [Receivers -> BOOLEAN]
        /\ todo' \in [Senders -> SUBSET Receivers]
    BY <1>7 DEF Overrun
  <2>. QED  BY <1>7, <2>1, <2>2 DEF Overrun
<1>8. ASSUME NEW r \in Receivers, Start(r) \/ Kill(r) PROVE TypeOK' /\ Numbered'
  <2>1. Blank \in Line /\ <<>> \in Seq(Line) /\ <<>> \in Seq(Message)
    BY DEF Line
  <2>2. CASE Start(r)
    BY <2>1, <2>2 DEF Start
  <2>3. CASE Kill(r)
    <3>1. /\ queue' \in [Receivers -> Seq(Message)]
          /\ \A q \in Receivers : Len(queue'[q]) <= Room
      <4>1. queue' \in [Receivers -> Seq(Message)]
        BY <2>1, <2>3 DEF Kill
      <4>2. ASSUME NEW q \in Receivers PROVE Len(queue'[q]) <= Room
        BY <2>3 DEF Kill
      <4>. QED  BY <4>1, <4>2
    <3>2. printed' \in [Receivers -> Seq(Line)] /\ nlh' \in [Receivers -> Line]
      BY <2>1, <2>3 DEF Kill
    <3>. QED  BY <2>3, <3>1, <3>2 DEF Kill
  <2>. QED  BY <1>8, <2>2, <2>3
<1>9. ASSUME NEW r \in Receivers, Receive(r) PROVE TypeOK' /\ Numbered'
  <2>1. /\ Head(queue[r]) \in Line /\ Tail(queue[r]) \in Seq(Message)
        /\ Len(Tail(queue[r])) <= Room
    BY <1>9 DEF Receive, Line
  <2>2. /\ queue' \in [Receivers -> Seq(Message)]
        /\ \A q \in Receivers : Len(queue'[q]) <= Room
    BY <1>9, <2>1 DEF Receive
  <2>. QED  BY <1>9, <2>1, <2>2 DEF Receive, Wake
<1>10. ASSUME NEW r \in Receivers, ReceiveFails(r) PROVE TypeOK' /\ Numbered'
  BY <1>10 DEF ReceiveFails, Wake, GoOn
<1>11. ASSUME NEW r \in Receivers, Printf(r) PROVE TypeOK' /\ Numbered'
  <2>1. nlh[r] = Shown(r) => missed[r] > 0
    BY <1>11 DEF Printf, Counted, Pending
  <2>2. missed' \in [Receivers -> Nat] /\ printed' \in [Receivers -> Seq(Line)]
    BY <1>11, <2>1 DEF Printf
  <2>. QED  BY <1>11, <2>2 DEF Printf
<1>. QED
  BY <1>1, <1>2, <1>3, <1>4, <1>5, <1>6, <1>7, <1>8, <1>9, <1>10, <1>11
  DEF Next, Sendnlmsg, ReceiverStep

-----------------------------------------------------------------------------
(* Receivers a step does not concern.                                      *)

Same(r) ==
  /\ rpc'[r] = rpc[r] /\ queue'[r] = queue[r] /\ congested'[r] = congested[r]
  /\ sk_err'[r] = sk_err[r] /\ nlh'[r] = nlh[r] /\ printed'[r] = printed[r]
  /\ missed'[r] = missed[r]

\* Such a receiver keeps its count and its order.
LEMMA SameKept ==
  ASSUME NEW r, Same(r)
  PROVE  /\ Counted(r) => Counted(r)'
         /\ Ordered(r) => Ordered(r)'
         /\ Told(r)' <=> Told(r)
<1>. USE DEF Same
<1>1. Shown(r)' = Shown(r) /\ Repeats(r)' = Repeats(r)
  BY DEF Shown, Repeats
<1>2. (Pending(r)' <=> Pending(r)) /\ (Told(r)' <=> Told(r))
  BY <1>1 DEF Pending, Told
<1>. QED  BY <1>1, <1>2 DEF Counted, Ordered

\* What was sent stays so.
LEMMA SamePast ==
  ASSUME TypeOK, NEW r \in Receivers, Past(r),
         printed'[r] = printed[r], queue'[r] = queue[r], nlh'[r] = nlh[r],
         \A l : WasSent(l, r) => WasSent(l, r)'
  PROVE  Past(r)'
  BY DEF Past

\* A hook that has one message fewer to come, or none more, has sent the others.
LEMMA SentStays ==
  ASSUME TypeOK, NEW r \in Receivers,
         \A s \in Senders : sent'[s] = sent[s] /\ (ToCome(s, r)' => ToCome(s, r)),
         NEW l, WasSent(l, r)
  PROVE  WasSent(l, r)'
  BY DEF WasSent, Message

\* Neither is a message lost that was printed, waits or is still to come.
LEMMA SameAccounted ==
  ASSUME NEW r \in Receivers, Accounted(r), Same(r), offered'[r] = offered[r],
         \A s \in Casting : r \in todo[s] =>
            s \in Casting' /\ r \in todo'[s] /\ Current(s)' = Current(s)
  PROVE  Accounted(r)'
<1>1. Told(r)' <=> Told(r)
  BY SameKept
<1>. QED  BY <1>1 DEF Accounted, Same

-----------------------------------------------------------------------------
(* The hooks' steps.                                                       *)

Good(r) == Counted(r) /\ Ordered(r) /\ Past(r) /\ Accounted(r)

\* What a hook does by itself changes no receiver's socket.
LEMMA HooksKeep ==
  ASSUME Inv, NEW s \in Senders, NEW r \in Receivers,
         \/ MessageWithStr(s) \/ AllocFails(s) \/ EndCast(s) \/ StartCast(s)
  PROVE  Good(r)'
<1>. USE DEF senderVars, socketVars, receiverVars
<1>1. Same(r)
  BY DEF Same, MessageWithStr, AllocFails, EndCast, StartCast
<1>2. Counted(r)' /\ Ordered(r)'
  BY <1>1, SameKept DEF Inv
<1>3. CASE MessageWithStr(s)
  <2>1. ASSUME NEW l, WasSent(l, r) PROVE WasSent(l, r)'
    <3>1. sent[s] \in Nat /\ sent'[s] = sent[s] + 1
      BY <1>3 DEF MessageWithStr, Inv, TypeOK
    <3>2. \A t \in Senders \ {s} : sent'[t] = sent[t] /\ spc'[t] = spc[t]
      BY <1>3 DEF MessageWithStr, Inv, TypeOK
    <3>3. todo' = todo
      BY <1>3 DEF MessageWithStr
    <3>4. CASE l \in Message
      <4>1. l.from \in Senders /\ l.number \in Nat /\ l.number <= sent[l.from]
        BY <2>1, <3>4 DEF WasSent, Message
      <4>2. CASE l.from = s
        BY <3>1, <4>1, <4>2 DEF WasSent
      <4>3. CASE l.from # s
        <5>1. /\ sent'[l.from] = sent[l.from]
              /\ ToCome(l.from, r)' => ToCome(l.from, r)
          BY <3>2, <3>3, <4>1, <4>3 DEF ToCome
        <5>. QED  BY <2>1, <3>4, <4>1, <5>1 DEF WasSent
      <4>. QED  BY <4>2, <4>3
    <3>5. CASE l \notin Message
      BY <3>5 DEF WasSent
    <3>. QED  BY <3>4, <3>5
  <2>2. Past(r)'
    BY <1>1, <2>1, SamePast DEF Same, Inv
  <2>3. ASSUME NEW t \in Casting
        PROVE  t \in Casting' /\ todo'[t] = todo[t] /\ Current(t)' = Current(t)
    BY <1>3 DEF MessageWithStr, Casting, Current, Inv, TypeOK
  <2>4. Accounted(r)'
    BY <1>1, <1>3, <2>3, SameAccounted DEF Inv, MessageWithStr
  <2>. QED  BY <1>2, <2>2, <2>4 DEF Good
<1>4. CASE AllocFails(s) \/ EndCast(s)
  <2>1. \A t \in Senders : sent'[t] = sent[t] /\ (ToCome(t, r)' => ToCome(t, r))
    BY <1>4 DEF AllocFails, EndCast, Sent, ToCome, Inv, TypeOK
  <2>2. Past(r)'
    BY <1>1, <2>1, SentStays, SamePast DEF Same, Inv
  <2>3. ASSUME NEW t \in Casting, r \in todo[t]
        PROVE  t \in Casting' /\ r \in todo'[t] /\ Current(t)' = Current(t)
    BY <1>4, <2>3 DEF AllocFails, EndCast, Casting, Current, Inv, TypeOK
  <2>4. Accounted(r)'
    BY <1>1, <1>4, <2>3, SameAccounted DEF Inv, AllocFails, EndCast
  <2>. QED  BY <1>2, <2>2, <2>4 DEF Good
<1>5. CASE StartCast(s)
  <2>1. \A t \in Senders : sent'[t] = sent[t] /\ (ToCome(t, r)' => ToCome(t, r))
    BY <1>5 DEF StartCast, ToCome, Inv, TypeOK
  <2>2. Past(r)'
    BY <1>1, <2>1, SentStays, SamePast DEF Same, Inv
  <2>3. ASSUME NEW t \in Casting
        PROVE  t \in Casting' /\ todo'[t] = todo[t] /\ Current(t)' = Current(t)
    BY <1>5 DEF StartCast, Casting, Current, Inv, TypeOK
  <2>4. Told(r)' <=> Told(r)
    BY <1>1, SameKept
  <2>5. CASE Bound(r)
    <3>1. offered'[r] = offered[r] \cup {Current(s)}
      BY <1>5, <2>5 DEF StartCast
    <3>2. s \in Casting' /\ r \in todo'[s] /\ Current(s)' = Current(s)
      BY <1>5, <2>5 DEF StartCast, Casting, Current, Inv, TypeOK
    <3>3. ASSUME NEW m \in offered[r]
          PROVE  \/ \E i \in DOMAIN printed'[r] : printed'[r][i] = m
                 \/ \E i \in DOMAIN queue'[r] : queue'[r][i] = m
                 \/ rpc'[r] = "printf" /\ nlh'[r] = m
                 \/ \E t \in Casting' : r \in todo'[t] /\ Current(t)' = m
                 \/ Told(r)'
      BY <1>1, <2>3, <2>4 DEF Same, Inv, Accounted
    <3>4. Accounted(r)'
      BY <3>1, <3>2, <3>3 DEF Accounted
    <3>. QED  BY <1>2, <2>2, <3>4 DEF Good
  <2>6. CASE ~Bound(r)
    <3>1. Accounted(r)'
      BY <1>1, <1>5, <2>3, <2>6, SameAccounted DEF Inv, StartCast
    <3>. QED  BY <1>2, <2>2, <3>1 DEF Good
  <2>. QED  BY <2>5, <2>6
<1>. QED  BY <1>3, <1>4, <1>5

\* A receiver whose socket and buffer stay as they are keeps what is said of it.
LEMMA Untouched ==
  ASSUME Inv, NEW r \in Receivers, Same(r), offered'[r] = offered[r],
         spc' = spc, sent' = sent,
         \A t \in Senders : r \in todo'[t] <=> r \in todo[t]
  PROVE  Good(r)'
<1>1. Counted(r)' /\ Ordered(r)'
  BY SameKept DEF Inv
<1>2. \A t \in Senders : sent'[t] = sent[t] /\ (ToCome(t, r)' => ToCome(t, r))
  BY DEF ToCome
<1>3. Past(r)'
  BY <1>2, SentStays, SamePast DEF Same, Inv
<1>4. ASSUME NEW t \in Casting, r \in todo[t]
      PROVE  t \in Casting' /\ r \in todo'[t] /\ Current(t)' = Current(t)
  BY <1>4 DEF Casting, Current
<1>5. Accounted(r)'
  BY <1>4, SameAccounted DEF Inv
<1>. QED  BY <1>1, <1>3, <1>5 DEF Good

\* A message on its way to a receiver is newer than what is there.
LEMMA NewFollows ==
  ASSUME Inv, NEW s \in Senders, NEW r \in Receivers, ToCome(s, r),
         NEW l \in Line, WasSent(l, r)
  PROVE  Follows(Current(s), l)
<1>1. Current(s) \in Message /\ Current(s).from = s /\ Current(s).number = sent[s]
  BY CurrentType DEF ToCome, Inv, Current
<1>2. CASE l \in Message
  <2>1. l.from = s => l.number < sent[s]
    BY <1>2 DEF WasSent
  <2>2. l.number \in Nat /\ sent[s] \in Nat
    BY <1>2 DEF Message, Inv, TypeOK
  <2>. QED  BY <1>1, <2>1, <2>2 DEF Follows, Earlier
<1>3. CASE l \notin Message
  <2>1. l.from = NULL
    BY <1>3 DEF Line, Blank, Garbage
  <2>. QED  BY <1>1, <1>3, <2>1, NotificationAssumption DEF Follows, Earlier
<1>. QED  BY <1>2, <1>3

\* A message reaches a queue behind those that came before it.
LEMMA DeliverKeeps ==
  ASSUME Inv, NEW s \in Senders, NEW r \in Receivers, Deliver(s, r)
  PROVE  \A q \in Receivers : Good(q)'
<1>. USE DEF senderVars, socketVars, receiverVars
<1>. DEFINE c == Current(s)
            n == Len(queue[r])
<1>1. ASSUME NEW q \in Receivers \ {r} PROVE Good(q)'
  BY <1>1, Untouched DEF Deliver, Same, Inv, TypeOK
<1>2. /\ queue[r] \in Seq(Message) /\ printed[r] \in Seq(Line) /\ nlh[r] \in Line
      /\ c \in Message /\ ToCome(s, r)
  BY CurrentType DEF Deliver, ToCome, Inv, TypeOK
<1>3. /\ queue'[r] = Append(queue[r], c)
      /\ rpc' = rpc /\ printed' = printed /\ nlh' = nlh /\ missed' = missed
      /\ sk_err' = sk_err /\ congested' = congested /\ offered' = offered
      /\ spc' = spc /\ sent' = sent
      /\ todo'[s] = todo[s] \ {r} /\ \A t \in Senders \ {s} : todo'[t] = todo[t]
  BY DEF Deliver, Payload, Inv, TypeOK
<1>4. /\ n \in Nat /\ DOMAIN queue[r] = 1 .. n /\ DOMAIN queue'[r] = 1 .. n + 1
      /\ \A i \in 1 .. n : queue'[r][i] = queue[r][i]
      /\ queue'[r][n + 1] = c
  BY <1>2, <1>3, AppendProperties, LenProperties
<1>5. /\ \A i \in DOMAIN printed[r] : Follows(c, printed[r][i])
      /\ \A i \in 1 .. n : Follows(c, queue[r][i])
      /\ Follows(c, nlh[r])
  <2>1. /\ \A i \in DOMAIN printed[r] :
             printed[r][i] \in Line /\ WasSent(printed[r][i], r)
        /\ \A i \in 1 .. n : queue[r][i] \in Line /\ WasSent(queue[r][i], r)
        /\ WasSent(nlh[r], r)
    BY <1>2, <1>4 DEF Inv, Past, Line
  <2>. HIDE DEF c
  <2>2. ASSUME NEW l \in Line, WasSent(l, r) PROVE Follows(c, l)
    BY <1>2, <2>2, NewFollows DEF c
  <2>. QED  BY <1>2, <2>1, <2>2
<1>. HIDE DEF c, n
<1>6. Shown(r)' = Shown(r) /\ Repeats(r)' = Repeats(r) /\ (Pending(r)' <=> Pending(r))
  BY <1>3 DEF Shown, Repeats, Pending
<1>7. Counted(r)' /\ (Told(r)' <=> Told(r))
  BY <1>3, <1>6 DEF Counted, Told, Inv
<1>8. Ordered(r)'
  <2>1. Ordered(r)
    BY DEF Inv
  <2>2. ASSUME NEW j \in 1 .. n + 1
        PROVE  /\ \A i \in DOMAIN printed[r] : Follows(queue'[r][j], printed[r][i])
               /\ \A i \in 1 .. j - 1 : Follows(queue'[r][j], queue'[r][i])
               /\ Follows(queue'[r][j], nlh[r])
    <3>1. CASE j = n + 1
      <4>1. queue'[r][j] = c /\ 1 .. j - 1 = 1 .. n
        BY <1>4, <3>1
      <4>2. \A i \in 1 .. n : queue'[r][i] = queue[r][i]
        BY <1>4
      <4>. QED  BY ONLY <1>5, <4>1, <4>2
    <3>2. CASE j \in 1 .. n
      <4>1. \A i \in 1 .. j - 1 : i \in 1 .. n
        BY <1>4, <3>2
      <4>. QED  BY <1>4, <2>1, <3>2, <4>1 DEF Ordered
    <3>. QED  BY <1>4, <3>1, <3>2
  <2>3. \A j \in DOMAIN queue'[r] :
          /\ \A i \in DOMAIN printed'[r] : Follows(queue'[r][j], printed'[r][i])
          /\ \A i \in 1 .. j - 1 : Follows(queue'[r][j], queue'[r][i])
          /\ Follows(queue'[r][j], nlh'[r])
    BY <1>3, <1>4, <2>2
  <2>4. rpc'[r] = "printf" /\ ~Pending(r)' =>
          /\ nlh'[r] \in Message
          /\ \A i \in DOMAIN printed'[r] : Follows(nlh'[r], printed'[r][i])
    BY <1>3, <1>6, <2>1 DEF Ordered
  <2>. QED  BY <2>3, <2>4 DEF Ordered, Follows, Earlier
<1>9. Past(r)'
  <2>1. \A t \in Senders : sent'[t] = sent[t] /\ (ToCome(t, r)' => ToCome(t, r))
    BY <1>3 DEF ToCome
  <2>2. \A l : WasSent(l, r) => WasSent(l, r)'
    BY <2>1, SentStays DEF Inv
  <2>3. ASSUME NEW l, l = c PROVE WasSent(l, r)'
    <3>1. ~ToCome(s, r)'
      BY <1>3 DEF ToCome, Deliver
    <3>2. c.from = s /\ c.number = sent'[s] /\ sent'[s] \in Nat
      BY <1>3 DEF c, Current, Inv, TypeOK
    <3>. QED  BY <2>3, <3>1, <3>2 DEF WasSent
  <2>4. \A j \in DOMAIN queue'[r] : j \in DOMAIN queue[r] \/ j = n + 1
    BY <1>4
  <2>5. \A j \in DOMAIN queue'[r] : \A l : l = queue'[r][j] => WasSent(l, r)'
    BY <1>4, <2>2, <2>3, <2>4 DEF Inv, Past
  <2>6. \A j \in DOMAIN queue'[r] : WasSent(queue[r][j], r)'
    BY <2>5 DEF WasSent
  <2>7. \A i \in DOMAIN printed'[r] : \A l : l = printed'[r][i] => WasSent(l, r)'
    BY <1>3, <2>2 DEF Inv, Past
  <2>8. \A i \in DOMAIN printed'[r] : WasSent(printed[r][i], r)'
    BY <2>7 DEF WasSent
  <2>9. \A l : l = nlh'[r] => WasSent(l, r)'
    BY <1>3, <2>2 DEF Inv, Past
  <2>10. WasSent(nlh[r], r)'
    BY <2>9 DEF WasSent
  <2>. QED  BY <2>6, <2>8, <2>10 DEF Past
<1>10. Accounted(r)'
  <2>1. ASSUME NEW m \in offered[r]
        PROVE  \/ \E i \in DOMAIN printed'[r] : printed'[r][i] = m
               \/ \E i \in DOMAIN queue'[r] : queue'[r][i] = m
               \/ rpc'[r] = "printf" /\ nlh'[r] = m
               \/ \E t \in Casting' : r \in todo'[t] /\ Current(t)' = m
               \/ Told(r)'
    <3>1. CASE \E i \in DOMAIN queue[r] : queue[r][i] = m
      BY <1>4, <3>1
    <3>2. CASE \E t \in Casting : r \in todo[t] /\ Current(t) = m
      <4>1. PICK t \in Casting : r \in todo[t] /\ Current(t) = m
        BY <3>2
      <4>2. CASE t = s
        BY <1>4, <4>1, <4>2 DEF c
      <4>3. CASE t # s
        BY <1>3, <4>1, <4>3 DEF Casting, Current
      <4>. QED  BY <4>2, <4>3
    <3>. QED  BY <1>3, <1>7, <3>1, <3>2 DEF Inv, Accounted
  <2>. QED  BY <1>3, <2>1 DEF Accounted
<1>. QED  BY <1>1, <1>7, <1>8, <1>9, <1>10 DEF Good

\* A broadcast that does not fit is told of, once until the queue was empty.
LEMMA OverrunKeeps ==
  ASSUME Inv, NEW s \in Senders, NEW r \in Receivers, Overrun(s, r)
  PROVE  \A q \in Receivers : Good(q)'
<1>. USE DEF senderVars, socketVars, receiverVars
<1>1. ASSUME NEW q \in Receivers \ {r} PROVE Good(q)'
  <2>1. Same(q)
    <3>1. missed'[q] = missed[q] /\ sk_err'[q] = sk_err[q]
      BY <1>1 DEF Overrun, Inv, TypeOK
    <3>. QED  BY <1>1, <3>1 DEF Overrun, Same, Inv, TypeOK
  <2>. QED  BY <1>1, <2>1, Untouched DEF Overrun, Inv, TypeOK
<1>2. /\ queue' = queue /\ rpc' = rpc /\ printed' = printed /\ nlh' = nlh
      /\ spc' = spc /\ sent' = sent /\ congested'[r]
      /\ \A t \in Senders : todo'[t] \subseteq todo[t]
  BY DEF Overrun, Inv, TypeOK
<1>3. Shown(r)' = Shown(r) /\ Repeats(r)' = Repeats(r) /\ (Pending(r)' <=> Pending(r))
  BY <1>2 DEF Shown, Repeats, Pending
<1>4. Ordered(r)'
  BY <1>2, <1>3 DEF Ordered, Inv
<1>5. Past(r)'
  <2>1. \A t \in Senders : sent'[t] = sent[t] /\ (ToCome(t, r)' => ToCome(t, r))
    BY <1>2 DEF ToCome
  <2>. QED  BY <1>2, <2>1, SentStays, SamePast DEF Inv
<1>6. Counted(r)' /\ Told(r)'
  <2>0. Counted(r) /\ missed[r] \in Nat
    BY DEF Inv, TypeOK
  <2>1. CASE congested[r]
    <3>1. sk_err' = sk_err /\ missed' = missed
      BY <2>1, Zenon DEF Overrun
    <3>2. Told(r)' <=> Told(r)
      BY <1>3, <3>1 DEF Told
    <3>. QED  BY <1>2, <1>3, <2>0, <2>1, <3>1, <3>2 DEF Counted
  <2>2. CASE ~congested[r]
    <3>1. /\ sk_err' = [sk_err EXCEPT ![r] = TRUE]
          /\ missed' = [missed EXCEPT ![r] = @ + 1]
      BY <2>2, Zenon DEF Overrun
    <3>2. sk_err'[r] /\ missed'[r] = missed[r] + 1
      BY <3>1 DEF Inv, TypeOK
    <3>3. Told(r)'
      BY <2>0, <3>2 DEF Told
    <3>4. missed[r] = IF Pending(r) THEN 1 ELSE 0
      BY <2>0, <2>2 DEF Counted
    <3>5. missed'[r] = (IF sk_err'[r] THEN 1 ELSE 0) + (IF Pending(r)' THEN 1 ELSE 0)
      BY <1>3, <3>2, <3>4
    <3>. QED  BY <1>2, <1>3, <2>0, <3>3, <3>5 DEF Counted
  <2>. QED  BY <2>1, <2>2
<1>7. Accounted(r)'
  BY <1>6 DEF Accounted
<1>. QED  BY <1>1, <1>4, <1>5, <1>6, <1>7 DEF Good

-----------------------------------------------------------------------------
(* The receivers' steps.                                                   *)

\* A receiver's step sends nothing, and what was sent and is still known of
\* was known of before.
LEMMA KnownPast ==
  ASSUME Inv, NEW r \in Receivers, UNCHANGED senderVars,
         \A i \in DOMAIN printed'[r] : \/ printed'[r][i] \in {nlh[r], Blank}
                                      \/ \E k \in DOMAIN printed[r] : printed'[r][i] = printed[r][k],
         \A j \in DOMAIN queue'[r] :
            \E k \in DOMAIN queue[r] : queue'[r][j] = queue[r][k],
         \/ nlh'[r] \in {nlh[r], Blank}
         \/ \E k \in DOMAIN queue[r] : nlh'[r] = queue[r][k]
  PROVE  Past(r)'
<1>1. \A t \in Senders : sent'[t] = sent[t] /\ (ToCome(t, r)' => ToCome(t, r))
  BY DEF senderVars, ToCome
<1>2. \A l : WasSent(l, r) => WasSent(l, r)'
  BY <1>1, SentStays DEF Inv
<1>3. WasSent(Blank, r)
  BY DEF WasSent, Message, Blank
<1>4. Past(r)
  BY DEF Inv
<1>5. \A i \in DOMAIN printed'[r] : \A l : l = printed'[r][i] => WasSent(l, r)'
  BY <1>2, <1>3, <1>4 DEF Past
<1>6. \A j \in DOMAIN queue'[r] : \A l : l = queue'[r][j] => WasSent(l, r)'
  BY <1>2, <1>4 DEF Past
<1>7. \A l : l = nlh'[r] => WasSent(l, r)'
  BY <1>2, <1>3, <1>4 DEF Past
<1>8. \A i \in DOMAIN printed'[r] : WasSent(printed[r][i], r)'
  BY <1>5 DEF WasSent
<1>9. \A j \in DOMAIN queue'[r] : WasSent(queue[r][j], r)'
  BY <1>6 DEF WasSent
<1>10. WasSent(nlh[r], r)'
  BY <1>7 DEF WasSent
<1>. QED  BY <1>8, <1>9, <1>10 DEF Past

\* A receiver that starts has printed nothing and holds nothing.
LEMMA StartKeeps ==
  ASSUME Inv, NEW r \in Receivers, Start(r)
  PROVE  \A q \in Receivers : Good(q)'
<1>. USE DEF senderVars, socketVars, receiverVars
<1>1. ASSUME NEW q \in Receivers \ {r} PROVE Good(q)'
  BY <1>1, Untouched DEF Start, Same, Inv, TypeOK
<1>2. /\ printed' = printed /\ queue' = queue /\ congested' = congested
      /\ sk_err' = sk_err /\ missed' = missed /\ offered' = offered
      /\ spc' = spc /\ sent' = sent /\ todo' = todo
      /\ rpc[r] = "off" /\ rpc'[r] = "recvmsg" /\ nlh'[r] = Blank
  BY DEF Start, Inv, TypeOK
<1>3. Counted(r) /\ Ordered(r) /\ Accounted(r)
  BY DEF Inv
<1>4. nlh[r] = Blank /\ Shown(r) = Blank
  BY <1>2, <1>3 DEF Counted, Shown
<1>5. Shown(r)' = Shown(r) /\ Repeats(r)' = Repeats(r) /\ ~Pending(r) /\ ~Pending(r)'
  BY <1>2 DEF Shown, Repeats, Pending
<1>6. Told(r)' <=> Told(r)
  BY <1>2, <1>5 DEF Told
<1>7. Counted(r)'
  BY <1>2, <1>3, <1>4, <1>5, <1>6 DEF Counted
<1>8. Ordered(r)'
  BY <1>2, <1>3, <1>4 DEF Ordered
<1>9. Past(r)'
  BY <1>2, KnownPast
<1>10. Accounted(r)'
  BY <1>2, <1>3, <1>6 DEF Accounted, Casting, Current
<1>. QED  BY <1>1, <1>7, <1>8, <1>9, <1>10 DEF Good

\* A receiver that is killed leaves nothing.
LEMMA KillKeeps ==
  ASSUME Inv, NEW r \in Receivers, Kill(r)
  PROVE  \A q \in Receivers : Good(q)'
<1>. USE DEF senderVars, socketVars, receiverVars
<1>1. ASSUME NEW q \in Receivers \ {r} PROVE Good(q)'
  BY <1>1, Untouched DEF Kill, Same, Inv, TypeOK
<1>2. /\ printed'[r] = <<>> /\ queue'[r] = <<>> /\ ~congested'[r] /\ ~sk_err'[r]
      /\ missed'[r] = 0 /\ offered'[r] = {} /\ rpc'[r] = "off" /\ nlh'[r] = Blank
      /\ UNCHANGED senderVars
  BY DEF Kill, Inv, TypeOK
<1>3. Shown(r)' = Blank /\ ~Pending(r)'
  BY <1>2 DEF Shown, Pending
<1>4. Counted(r)' /\ Ordered(r)' /\ Accounted(r)'
  BY <1>2, <1>3 DEF Counted, Ordered, Accounted
<1>5. Past(r)'
  BY <1>2, KnownPast
<1>. QED  BY <1>1, <1>4, <1>5 DEF Good

\* What is received is new to the user.
LEMMA ReceiveKeeps ==
  ASSUME Inv, NEW r \in Receivers, Receive(r)
  PROVE  \A q \in Receivers : Good(q)'
<1>. USE DEF senderVars, socketVars, receiverVars
<1>1. ASSUME NEW q \in Receivers \ {r} PROVE Good(q)'
  BY <1>1, Untouched DEF Receive, Wake, Same, Inv, TypeOK
<1>2. /\ queue[r] \in Seq(Message) /\ queue[r] # <<>>
      /\ rpc[r] = "recvmsg" /\ rpc'[r] = "printf" /\ ~sk_err[r] /\ sk_err' = sk_err
      /\ nlh'[r] = Head(queue[r]) /\ queue'[r] = Tail(queue[r])
      /\ congested'[r] => congested[r]
      /\ printed' = printed /\ missed' = missed /\ offered' = offered
      /\ UNCHANGED senderVars
  BY DEF Receive, Wake, Inv, TypeOK
<1>. DEFINE n == Len(queue[r])
<1>3. /\ n \in Nat /\ n > 0 /\ DOMAIN queue[r] = 1 .. n
      /\ DOMAIN queue'[r] = 1 .. n - 1
      /\ \A i \in 1 .. n - 1 : queue'[r][i] = queue[r][i + 1]
      /\ nlh'[r] = queue[r][1]
  BY <1>2, HeadTailProperties, LenProperties
<1>. HIDE DEF n
<1>4. Counted(r) /\ Ordered(r) /\ Accounted(r)
  BY DEF Inv
<1>5. Shown(r)' = Shown(r) /\ Repeats(r)' = Repeats(r)
  BY <1>2 DEF Shown, Repeats
<1>6. nlh[r] = Shown(r) /\ ~Pending(r)
  BY <1>2, <1>4 DEF Counted, Pending
<1>7. /\ nlh'[r] \in Message /\ nlh'[r] # Shown(r)
      /\ \A i \in DOMAIN printed[r] : Follows(queue[r][1], printed[r][i])
  BY <1>2, <1>3, <1>4, <1>6, HeadTailProperties DEF Ordered, Follows
<1>8. ~Pending(r)' /\ (Told(r)' <=> Told(r))
  BY <1>2, <1>5, <1>7 DEF Pending, Told
<1>9. Counted(r)'
  <2>1. missed'[r] = 0 /\ ~sk_err'[r]
    BY <1>2, <1>4, <1>6 DEF Counted
  <2>. QED  BY <1>2, <1>4, <1>8, <2>1 DEF Counted
<1>10. Ordered(r)'
  <2>1. ASSUME NEW j \in 1 .. n - 1
        PROVE  /\ \A i \in DOMAIN printed[r] : Follows(queue[r][j + 1], printed[r][i])
               /\ \A i \in 1 .. j - 1 : Follows(queue[r][j + 1], queue[r][i + 1])
               /\ Follows(queue[r][j + 1], queue[r][1])
    <3>1. j + 1 \in 1 .. n /\ 1 \in 1 .. j /\ \A i \in 1 .. j - 1 : i + 1 \in 1 .. j
      BY <1>3
    <3>2. (j + 1) - 1 = j
      OBVIOUS
    <3>. QED  BY <1>3, <1>4, <3>1, <3>2 DEF Ordered
  <2>2. \A j \in DOMAIN queue'[r] :
          /\ \A i \in DOMAIN printed'[r] : Follows(queue'[r][j], printed'[r][i])
          /\ \A i \in 1 .. j - 1 : Follows(queue'[r][j], queue'[r][i])
          /\ Follows(queue'[r][j], nlh'[r])
    <3>1. ASSUME NEW j \in 1 .. n - 1, NEW i \in 1 .. j - 1
          PROVE  queue'[r][i] = queue[r][i + 1]
      BY <1>3
    <3>. QED  BY <1>2, <1>3, <2>1, <3>1
  <2>3. \A i \in DOMAIN printed'[r] : Follows(nlh'[r], printed'[r][i])
    BY <1>2, <1>3, <1>7
  <2>. QED  BY <1>7, <2>2, <2>3 DEF Ordered, Follows, Earlier
<1>11. Past(r)'
  <2>1. \A j \in DOMAIN queue'[r] :
           \E k \in DOMAIN queue[r] : queue'[r][j] = queue[r][k]
    <3>1. \A j \in 1 .. n - 1 : j + 1 \in 1 .. n
      BY <1>3
    <3>. QED  BY <1>3, <3>1
  <2>2. \E k \in DOMAIN queue[r] : nlh'[r] = queue[r][k]
    BY <1>3
  <2>. QED  BY <1>2, <2>1, <2>2, KnownPast
<1>12. Accounted(r)'
  <2>1. ASSUME NEW m, NEW i \in DOMAIN queue[r], queue[r][i] = m
        PROVE  \/ \E k \in DOMAIN queue'[r] : queue'[r][k] = m
               \/ rpc'[r] = "printf" /\ nlh'[r] = m
    <3>1. CASE i = 1
      BY <1>2, <1>3, <2>1, <3>1
    <3>2. CASE i # 1
      <4>1. i - 1 \in 1 .. n - 1 /\ (i - 1) + 1 = i
        BY <1>3, <2>1, <3>2
      <4>. QED  BY <1>3, <2>1, <4>1
    <3>. QED  BY <3>1, <3>2
  <2>. QED  BY <1>2, <1>4, <1>8, <2>1 DEF Accounted, Casting, Current
<1>. QED  BY <1>1, <1>9, <1>10, <1>11, <1>12 DEF Good

\* An error leaves the line in the buffer to be printed again.
LEMMA ReceiveFailsKeeps ==
  ASSUME Inv, NEW r \in Receivers, ReceiveFails(r)
  PROVE  \A q \in Receivers : Good(q)'
<1>. USE DEF senderVars, socketVars, receiverVars
<1>1. ASSUME NEW q \in Receivers \ {r} PROVE Good(q)'
  BY <1>1, Untouched DEF ReceiveFails, Wake, Same, Inv, TypeOK
<1>2. /\ rpc[r] = "recvmsg" /\ rpc'[r] = "printf" /\ sk_err[r] /\ ~sk_err'[r]
      /\ nlh' = nlh /\ queue' = queue /\ printed' = printed /\ missed' = missed
      /\ (congested'[r] => congested[r]) /\ offered' = offered
      /\ UNCHANGED senderVars
  BY DEF ReceiveFails, Wake, GoOn, Inv, TypeOK
<1>3. Counted(r) /\ Ordered(r) /\ Accounted(r)
  BY DEF Inv
<1>4. Shown(r)' = Shown(r) /\ Repeats(r)' = Repeats(r)
  BY <1>2 DEF Shown, Repeats
<1>5. ~Pending(r) /\ Pending(r)' /\ (Told(r)' <=> Told(r))
  BY <1>2, <1>3, <1>4 DEF Counted, Pending, Told
<1>6. Counted(r)'
  <2>1. missed'[r] = 1
    BY <1>2, <1>3, <1>5 DEF Counted
  <2>. QED  BY <1>2, <1>3, <1>5, <2>1 DEF Counted
<1>7. Ordered(r)'
  BY <1>2, <1>3, <1>5 DEF Ordered
<1>8. Past(r)'
  BY <1>2, KnownPast
<1>9. Accounted(r)'
  BY <1>2, <1>3, <1>5 DEF Accounted, Casting, Current
<1>. QED  BY <1>1, <1>6, <1>7, <1>8, <1>9 DEF Good

\* A line is printed: a message, or what was printed last, and then one error
\* fewer is owed.
LEMMA PrintfKeeps ==
  ASSUME Inv, NEW r \in Receivers, Printf(r)
  PROVE  \A q \in Receivers : Good(q)'
<1>. USE DEF senderVars, socketVars, receiverVars
<1>1. ASSUME NEW q \in Receivers \ {r} PROVE Good(q)'
  BY <1>1, Untouched DEF Printf, Same, Inv, TypeOK
<1>2. /\ rpc[r] = "printf" /\ rpc'[r] = "recvmsg" /\ printed[r] \in Seq(Line)
      /\ nlh[r] \in Line /\ nlh' = nlh /\ queue' = queue /\ offered' = offered
      /\ congested' = congested /\ sk_err' = sk_err
      /\ printed'[r] = Append(printed[r], nlh[r])
      /\ missed[r] \in Nat
      /\ missed'[r] = (IF nlh[r] = Shown(r) THEN missed[r] - 1 ELSE missed[r])
      /\ UNCHANGED senderVars
  BY DEF Printf, Inv, TypeOK
<1>. DEFINE n == Len(printed[r])
<1>3. /\ n \in Nat /\ DOMAIN printed[r] = 1 .. n /\ DOMAIN printed'[r] = 1 .. n + 1
      /\ \A i \in 1 .. n : printed'[r][i] = printed[r][i]
      /\ printed'[r][n + 1] = nlh[r]
      /\ Len(printed'[r]) = n + 1 /\ printed'[r] # <<>>
  BY <1>2, AppendProperties, LenProperties
<1>4. Shown(r) = IF n = 0 THEN Blank ELSE printed[r][n]
  BY <1>2, EmptySeq DEF Shown
<1>. HIDE DEF n
<1>5. Counted(r) /\ Ordered(r) /\ Accounted(r)
  BY DEF Inv
<1>6. Shown(r)' = nlh[r] /\ ~Pending(r)' /\ (Pending(r) <=> nlh[r] = Shown(r))
  BY <1>2, <1>3 DEF Shown, Pending
<1>7. Told(r) => Told(r)'
  <2>1. ASSUME NEW i \in Repeats(r) PROVE i \in Repeats(r)'
    <3>1. i \in 1 .. n /\ (i # 1 => i - 1 \in 1 .. n)
      BY <1>3, <2>1 DEF Repeats
    <3>2. printed[r][i] = IF i = 1 THEN Blank ELSE printed[r][i - 1]
      BY <2>1 DEF Repeats
    <3>3. printed'[r][i] = IF i = 1 THEN Blank ELSE printed'[r][i - 1]
      BY <1>3, <3>1, <3>2
    <3>4. i \in DOMAIN printed'[r]
      BY <1>3, <3>1
    <3>. QED  BY <3>3, <3>4 DEF Repeats
  <2>2. nlh[r] = Shown(r) => n + 1 \in Repeats(r)'
    <3>1. (n + 1) - 1 = n /\ n + 1 \in DOMAIN printed'[r] /\ (n + 1 = 1 <=> n = 0)
      BY <1>3
    <3>2. n # 0 => n \in 1 .. n
      BY <1>3
    <3>. QED  BY <1>3, <1>4, <3>1, <3>2 DEF Repeats
  <2>. QED  BY <1>2, <2>1, <2>2 DEF Told
<1>8. Counted(r)'
  <2>1. missed'[r] = IF sk_err[r] THEN 1 ELSE 0
    BY <1>2, <1>5, <1>6 DEF Counted
  <2>. QED  BY <1>2, <1>5, <1>6, <1>7, <2>1 DEF Counted
<1>9. Ordered(r)'
  <2>1. ASSUME NEW j \in DOMAIN queue[r], NEW i \in 1 .. n + 1
        PROVE  Follows(queue[r][j], printed'[r][i])
    <3>1. CASE i = n + 1
      BY <1>3, <1>5, <3>1 DEF Ordered
    <3>2. CASE i \in 1 .. n
      BY <1>3, <1>5, <3>2 DEF Ordered
    <3>. QED  BY <1>3, <3>1, <3>2
  <2>2. \A j \in DOMAIN queue[r] :
          /\ \A i \in 1 .. j - 1 : Follows(queue[r][j], queue[r][i])
          /\ Follows(queue[r][j], nlh[r])
    BY <1>5 DEF Ordered
  <2>3. \A j \in DOMAIN queue'[r] :
          /\ \A i \in DOMAIN printed'[r] : Follows(queue'[r][j], printed'[r][i])
          /\ \A i \in 1 .. j - 1 : Follows(queue'[r][j], queue'[r][i])
          /\ Follows(queue'[r][j], nlh'[r])
    BY <1>2, <1>3, <2>1, <2>2
  <2>. QED  BY <1>2, <2>3 DEF Ordered, Follows, Earlier
<1>10. Past(r)'
  <2>1. \A i \in DOMAIN printed'[r] : \/ printed'[r][i] \in {nlh[r], Blank}
                                     \/ \E k \in DOMAIN printed[r] : printed'[r][i] = printed[r][k]
    <3>1. ASSUME NEW i \in 1 .. n + 1
          PROVE  \/ printed'[r][i] \in {nlh[r], Blank}
                 \/ \E k \in 1 .. n : printed'[r][i] = printed[r][k]
      <4>1. CASE i = n + 1
        BY <1>3, <4>1
      <4>2. CASE i \in 1 .. n
        BY <1>3, <4>2
      <4>. QED  BY <1>3, <4>1, <4>2
    <3>. QED  BY <1>3, <3>1
  <2>. QED  BY <1>2, <2>1, KnownPast
<1>11. Accounted(r)'
  <2>1. \A i \in 1 .. n : i \in 1 .. n + 1
    BY <1>3
  <2>2. n + 1 \in 1 .. n + 1
    BY <1>3
  <2>. QED  BY <1>2, <1>3, <1>5, <1>7, <2>1, <2>2 DEF Accounted, Casting, Current
<1>. QED  BY <1>1, <1>8, <1>9, <1>10, <1>11 DEF Good

-----------------------------------------------------------------------------
(* The theorems.                                                           *)

LEMMA InitInv == Init => Inv
<1>. SUFFICES ASSUME Init PROVE Inv
  OBVIOUS
<1>1. Blank \in Line /\ <<>> \in Seq(Line) /\ <<>> \in Seq(Message)
  BY DEF Line
<1>2. TypeOK
  <2>1. \A r \in Receivers : Len(queue[r]) <= Room
    BY NotificationAssumption DEF Init
  <2>. QED  BY <1>1, <2>1, NotificationAssumption DEF Init, TypeOK
<1>3. Numbered
  BY DEF Init, Numbered
<1>4. ASSUME NEW r \in Receivers
      PROVE  Counted(r) /\ Ordered(r) /\ Past(r) /\ Accounted(r)
  <2>1. /\ printed[r] = <<>> /\ queue[r] = <<>> /\ ~congested[r] /\ ~sk_err[r]
        /\ missed[r] = 0 /\ offered[r] = {} /\ rpc[r] = "off" /\ nlh[r] = Blank
    BY DEF Init
  <2>2. Shown(r) = Blank /\ ~Pending(r)
    BY <2>1 DEF Shown, Pending
  <2>3. WasSent(Blank, r)
    BY DEF WasSent, Message, Blank
  <2>. QED  BY <2>1, <2>2, <2>3 DEF Counted, Ordered, Past, Accounted
<1>. QED  BY <1>2, <1>3, <1>4 DEF Inv

LEMMA NextInv == Inv /\ [Next]_vars => Inv'
<1>. SUFFICES ASSUME Inv, [Next]_vars PROVE Inv'
  OBVIOUS
<1>1. TypeOK' /\ Numbered'
  BY TypeKept DEF Inv
<1>2. \A r \in Receivers : Good(r)'
  <2>1. CASE UNCHANGED vars
    BY <2>1, Untouched DEF vars, Same, senderVars, socketVars, receiverVars
  <2>2. CASE NotificationInit
    BY <2>2, Untouched DEF NotificationInit, Same, senderVars, socketVars, receiverVars
  <2>3. ASSUME NEW s \in Senders, MessageWithStr(s) \/ Sendnlmsg(s)
        PROVE  \A r \in Receivers : Good(r)'
    BY <2>3, HooksKeep, DeliverKeeps, OverrunKeeps DEF Sendnlmsg
  <2>4. ASSUME NEW r \in Receivers, Start(r) \/ ReceiverStep(r) \/ Kill(r)
        PROVE  \A q \in Receivers : Good(q)'
    BY <2>4, StartKeeps, ReceiveKeeps, ReceiveFailsKeeps, PrintfKeeps, KillKeeps
    DEF ReceiverStep
  <2>. QED  BY <2>1, <2>2, <2>3, <2>4 DEF Next
<1>. QED  BY <1>1, <1>2 DEF Inv, Good

LEMMA AlwaysInv == Spec => []Inv
BY InitInv, NextInv, PTL DEF Spec

\* A message whose broadcast was to a receiver is printed, waits, or its loss
\* shows, however many hooks send and receivers listen, and however little a
\* socket takes.
THEOREM NothingSilentlyLost == Spec => []NoSilentLoss
<1>1. Inv => NoSilentLoss
  BY DEF Inv, Accounted, Told, NoSilentLoss
<1>. QED  BY <1>1, AlwaysInv, PTL

\* What a receiver prints is what a notice board may show: every line is new
\* and in its sender's order, or the line before it again, as often as
\* messages began to be lost.
THEOREM BoardImplemented == Spec => ImplementsBoard
<1>. USE DEF Board!Next, Board!vars
<1>1. Init => Board!Init
  BY DEF Init, Board!Init
<1>2. Inv /\ [Next]_vars => [Board!Next]_(Board!vars)
  <2>. SUFFICES ASSUME Inv, [Next]_vars PROVE [Board!Next]_(Board!vars)
    OBVIOUS
  <2>. USE DEF senderVars, socketVars, receiverVars
  <2>1. CASE UNCHANGED vars
    BY <2>1 DEF vars
  <2>2. CASE NotificationInit
    BY <2>2 DEF NotificationInit
  <2>3. ASSUME NEW s \in Senders, MessageWithStr(s) \/ Sendnlmsg(s)
        PROVE  [Board!Next]_(Board!vars)
    <3>1. CASE MessageWithStr(s) \/ AllocFails(s) \/ StartCast(s) \/ EndCast(s)
      BY <3>1 DEF MessageWithStr, AllocFails, StartCast, EndCast
    <3>2. ASSUME NEW r \in Receivers, Deliver(s, r) PROVE [Board!Next]_(Board!vars)
      BY <3>2 DEF Deliver
    <3>3. ASSUME NEW r \in Receivers, Overrun(s, r) PROVE [Board!Next]_(Board!vars)
      <4>1. CASE congested[r]
        <5>1. missed' = missed /\ printed' = printed
          BY <3>3, <4>1, Zenon DEF Overrun
        <5>. QED  BY <5>1
      <4>2. CASE ~congested[r]
        <5>1. missed' = [missed EXCEPT ![r] = @ + 1] /\ printed' = printed
          BY <3>3, <4>2, Zenon DEF Overrun
        <5>2. Board!Miss(r)
          BY <5>1 DEF Board!Miss
        <5>. QED  BY <5>2
      <4>. QED  BY <4>1, <4>2
    <3>. QED  BY <2>3, <3>1, <3>2, <3>3 DEF Sendnlmsg
  <2>4. ASSUME NEW r \in Receivers, Start(r) \/ ReceiverStep(r) \/ Kill(r)
        PROVE  [Board!Next]_(Board!vars)
    <3>1. CASE Start(r) \/ Receive(r) \/ ReceiveFails(r)
      BY <3>1 DEF Start, Receive, ReceiveFails
    <3>2. CASE Kill(r)
      <4>1. Board!Leave(r)
        BY <3>2 DEF Kill, Board!Leave
      <4>. QED  BY <4>1
    <3>3. CASE Printf(r)
      <4>1. /\ printed' = [printed EXCEPT ![r] = Append(@, nlh[r])]
            /\ missed' = [missed EXCEPT ![r] = IF nlh[r] = Shown(r) THEN @ - 1 ELSE @]
            /\ missed \in [Receivers -> Nat] /\ rpc[r] = "printf"
            /\ Counted(r) /\ Ordered(r)
        BY <3>3 DEF Printf, Inv, TypeOK
      <4>2. CASE nlh[r] = Shown(r)
        <5>1. missed[r] > 0
          BY <4>1, <4>2 DEF Counted, Pending
        <5>2. missed' = [missed EXCEPT ![r] = @ - 1]
          BY <4>1, <4>2
        <5>3. printed' = [printed EXCEPT ![r] =
                            Append(@, IF @ = <<>> THEN Blank ELSE @[Len(@)])]
          BY <4>1, <4>2 DEF Shown
        <5>4. Board!Repeat(r)
          BY <5>1, <5>2, <5>3 DEF Board!Repeat
        <5>. QED  BY <5>4
      <4>3. CASE nlh[r] # Shown(r)
        <5>1. missed' = missed
          BY <4>1, <4>3
        <5>2. /\ nlh[r] \in Message
              /\ \A i \in DOMAIN printed[r] : Follows(nlh[r], printed[r][i])
          BY <4>1, <4>3 DEF Ordered, Pending
        <5>3. Board!Show(r, nlh[r])
          BY <4>1, <5>1, <5>2 DEF Board!Show, Follows
        <5>. QED  BY <5>2, <5>3
      <4>. QED  BY <4>2, <4>3
    <3>. QED  BY <2>4, <3>1, <3>2, <3>3 DEF ReceiverStep
  <2>. QED  BY <2>1, <2>2, <2>3, <2>4 DEF Next
<1>. QED  BY <1>1, <1>2, AlwaysInv, PTL DEF Spec, ImplementsBoard, Board!Spec

-----------------------------------------------------------------------------
(* Interception: loading and unloading.  Types come first; Sound says,     *)
(* phase by phase, what the module has set up and who may be inside it.    *)

USE DEF resVars, modVars, taskVars, past, listVars

\* The phases in which no load has hooked anything yet, or all is unhooked.
Unhooked ==
  {"out", "save", "destroy", "vfree", "remove", "drain", "release", "unmap", "killed"}
Up == {"hook", "buffers", "procs", "socket", "in"}

\* The table and the saved calls.
TableSound ==
  /\ \A s \in Syscalls : table[s] \in {0, text}
  /\ phase \notin {"out", "save"} => \A s \in Syscalls : saved[s] = 0
  /\ phase = "unhook" => \A i \in 1 .. at - 1 : table[Order[i]] = 0
  /\ phase \in Unhooked => \A s \in Syscalls : table[s] = 0

\* What is allocated, open or written.
ResourcesSound ==
  /\ procs \subseteq {text}
  /\ phase \notin {"socket", "in", "unhook", "destroy", "killed", "vfree", "remove"} =>
       procs = {}
  /\ phase \in {"procs", "socket", "in", "unhook", "destroy", "killed", "vfree"} =>
       buffers # "none"
  /\ phase \in {"out", "save", "remove", "drain", "release", "unmap"} => buffers = "none"
  /\ socket = "released" => phase \in {"unmap", "out"}
  /\ socket = "open" =>
       phase \in {"in", "unhook", "destroy", "killed", "vfree", "remove", "drain", "release"}
  /\ phase \in {"vfree", "remove", "drain", "release", "unmap", "out", "save"} =>
       (rules => late)

\* Whoever was not torn is in the mapped text of a module that stays.
TasksSound ==
  \A t \in Tasks :
    /\ code[t] <= loads
    /\ Inside(t) => code[t] # 0 /\ (phase = "save" => code[t] # text)
    /\ Inside(t) /\ ~torn[t] => code[t] = text /\ phase \in Up \cup {"killed"}
    /\ tpc[t] \in Handler /\ ~torn[t] => phase \in {"socket", "in", "killed"}

TextSound == (phase = "out" <=> text = 0) /\ text <= loads

Sound == TextSound /\ (~failed => TableSound /\ ResourcesSound /\ TasksSound)

\* Code addresses are numbers, the kernel's own among them.
LEMMA TextFacts == 0 \in Text /\ Text \subseteq Nat
  BY InterceptionAssumption DEF Text

\* The order the hooks are stored in names every hooked call, at positions.
LEMMA OrderFacts ==
  /\ Len(Order) \in Nat /\ Len(Order) >= 1
  /\ \A i \in 1 .. Len(Order) : Order[i] \in Syscalls
  BY InterceptionAssumption

-----------------------------------------------------------------------------
\* The types hold before the first load.
LEMMA InitTypes == ModuleInit => ModuleTypeOK
<1> SUFFICES ASSUME ModuleInit PROVE ModuleTypeOK
  OBVIOUS
<1>1. Order[1] \in Syscalls
  BY OrderFacts
<1>2. /\ table \in [Syscalls -> Text] /\ saved \in [Syscalls -> Text]
      /\ text \in Text /\ loads \in Text /\ procs \subseteq Text
      /\ at \in 0 .. Len(Order) /\ phase = "out"
  BY OrderFacts, TextFacts DEF ModuleInit
<1>3. /\ tpc \in [Tasks -> Places] /\ code \in [Tasks -> Text]
      /\ call \in [Tasks -> Syscalls]
  BY <1>1, TextFacts DEF ModuleInit, Places
<1>4. freed \in [Tasks -> BOOLEAN] /\ torn \in [Tasks -> BOOLEAN]
  BY DEF ModuleInit
<1>5. met \in [Tasks -> BOOLEAN] /\ tangled \in BOOLEAN
  BY DEF ModuleInit
<1> QED
  BY <1>2, <1>3, <1>4, <1>5 DEF ModuleInit, ModuleTypeOK, Phases

\* Every step keeps the types.
LEMMA StepTypes == ModuleTypeOK /\ [ModuleNext]_moduleVars => ModuleTypeOK'
<1> SUFFICES ASSUME ModuleTypeOK, [ModuleNext]_moduleVars PROVE ModuleTypeOK'
  OBVIOUS
<1> USE DEF ModuleTypeOK
<1>1. CASE LoadText
  <2>1. loads + 1 \in Text
    BY <1>1, InterceptionAssumption DEF LoadText, Text
  <2> QED
    BY <1>1, <2>1 DEF LoadText, Phases
<1>2. CASE LoadStep
  <2>1. CASE NoTable \/ NoBuffers \/ NoProcs \/ NoSocket
    BY <2>1, TextFacts DEF NoTable, NoBuffers, NoProcs, NoSocket, FailLoad, Phases
  <2>2. CASE SaveOrigins
    BY <2>2, OrderFacts DEF SaveOrigins, Phases
  <2>3. CASE Hook
    <3>1. table' \in [Syscalls -> Text]
      BY <2>3 DEF Hook
    <3>2. at' \in 0 .. Len(Order) /\ (phase' \in {"hook", "unhook"} => at' # 0)
      BY <2>3, OrderFacts DEF Hook, NextEntry
    <3> QED
      BY <2>3, <3>1, <3>2 DEF Hook, Phases
  <2>4. CASE AllocBuffers
    BY <2>4 DEF AllocBuffers, Phases
  <2>5. CASE MakeProcs
    BY <2>5 DEF MakeProcs, Phases
  <2>6. CASE OpenSocket
    BY <2>6 DEF OpenSocket, Phases
  <2> QED
    BY <1>2, <2>1, <2>2, <2>3, <2>4, <2>5, <2>6 DEF LoadStep
<1>3. CASE StartUnload
  BY <1>3, OrderFacts DEF StartUnload, Inside, Phases
<1>4. CASE UnloadStep
  <2>1. CASE Unhook
    <3>1. saved[Order[at]] \in Text
      BY <2>1, OrderFacts DEF Unhook
    <3>2. table' \in [Syscalls -> Text]
      BY <2>1, <3>1 DEF Unhook, PutBack
    <3>3. at' \in 0 .. Len(Order) /\ (phase' \in {"hook", "unhook"} => at' # 0)
      BY <2>1, OrderFacts DEF Unhook, NextEntry
    <3> QED
      BY <2>1, <3>2, <3>3 DEF Unhook, Phases
  <2>2. CASE DestroyList \/ DestroyFaults
    BY <2>2 DEF DestroyList, DestroyFaults, TakenDown, AtWork, Destroyed, Phases
  <2>3. CASE FreeBuffers \/ DrainProcs \/ ReleaseSocket \/ UnmapText
    BY <2>3, TextFacts DEF FreeBuffers, DrainProcs, ReleaseSocket, UnmapText, Phases
  <2>4. CASE RemoveProcs
    BY <2>4 DEF RemoveProcs, Removed, Phases
  <2> QED
    BY <1>4, <2>1, <2>2, <2>3, <2>4 DEF UnloadStep
<1>5. ASSUME NEW t \in Tasks, TaskCall(t) \/ TaskStep(t) \/ OriginReturns(t) \/ Bury(t)
      PROVE  ModuleTypeOK'
  <2>0. ASSUME NEW place \in Places, Out(t, place)
        PROVE  /\ tpc' \in [Tasks -> Places] /\ code' \in [Tasks -> Text]
               /\ call' \in [Tasks -> Syscalls] /\ met' \in [Tasks -> BOOLEAN]
               /\ torn' \in [Tasks -> BOOLEAN]
    <3>1. Order[1] \in Syscalls /\ 0 \in Text
      BY OrderFacts, TextFacts
    <3>2. tpc' \in [Tasks -> Places] /\ code' \in [Tasks -> Text]
      BY <2>0, <3>1 DEF Out, TaskGoto
    <3>3. call' \in [Tasks -> Syscalls]
      BY <2>0, <3>1 DEF Out
    <3>4. met' \in [Tasks -> BOOLEAN] /\ torn' \in [Tasks -> BOOLEAN]
      BY <2>0 DEF Out
    <3> QED
      BY <3>2, <3>3, <3>4
  <2>1. ASSUME NEW s \in Syscalls, Enter(t, s) PROVE ModuleTypeOK'
    <3>1. CASE table[s] = 0
      BY <2>1, <3>1 DEF Enter
    <3>2. CASE table[s] # 0
      <4>1. table[s] \in Text /\ "check" \in Places /\ Leaving \in BOOLEAN
        BY DEF Places, Leaving
      <4>2. tpc' \in [Tasks -> Places] /\ code' \in [Tasks -> Text]
        BY <2>1, <3>2, <4>1 DEF Enter, TaskGoto
      <4>3. call' \in [Tasks -> Syscalls] /\ torn' \in [Tasks -> BOOLEAN]
        BY <2>1, <3>2, <4>1 DEF Enter
      <4> QED
        BY <2>1, <4>2, <4>3 DEF Enter
    <3> QED
      BY <3>1, <3>2
  <2>2. ASSUME NEW g \in Text, EnterWrite(t, g) PROVE ModuleTypeOK'
    BY <2>2 DEF EnterWrite, TaskGoto, Leaving, Places
  <2>3. CASE CheckRules(t) \/ Forward(t) \/ Bury(t)
    BY <2>3 DEF CheckRules, Forward, Bury, TaskGoto, Places
  <2>4. CASE WalkRules(t)
    BY <2>4 DEF WalkRules, TaskGoto, Places
  <2>5. ASSUME NEW place \in {"idle"} \cup Dead, Away(t, place),
               UNCHANGED <<modVars, resVars, failed, late>>, stuck' \in BOOLEAN
        PROVE  ModuleTypeOK'
    <3>1. freed' \in [Tasks -> BOOLEAN]
      BY <2>5 DEF Away
    <3> QED
      BY <2>0, <2>5, <3>1 DEF Away, Places, Dead
  <2>6. CASE BadArgument(t) \/ Starves(t) \/ NotifyRefusal(t) \/ WalkFaults(t)
    BY <2>5, <2>6 DEF BadArgument, Starves, NotifyRefusal, WalkFaults, Dead
  <2>7. CASE HookReturns(t) \/ PassBy(t) \/ WriteOverruns(t)
    BY <2>5, <2>7 DEF HookReturns, PassBy, WriteOverruns, Dead
  <2>8. CASE WriteFaults(t) \/ TextGone(t)
    BY <2>5, <2>8 DEF WriteFaults, TextGone, Dead
  <2>9. CASE CopyRules(t) \/ ClearRules(t)
    BY <2>9 DEF CopyRules, ClearRules, EnterList, TaskGoto, AtWork, Places
  <2>10. ASSUME NEW place \in {"idle"} \cup Dead, Out(t, place), TakenDown,
                rules' \in BOOLEAN, tangled' \in BOOLEAN, late' \in BOOLEAN,
                stuck' \in BOOLEAN, UNCHANGED <<modVars, buffers, procs, socket, failed>>
         PROVE  ModuleTypeOK'
    <3>1. freed' \in [Tasks -> BOOLEAN]
      BY <2>10 DEF TakenDown
    <3> QED
      BY <2>0, <2>10, <3>1 DEF Places, Dead
  <2>11. CASE BuildRules(t) \/ BuildDies(t)
    BY <2>10, <2>11 DEF BuildRules, BuildDies, Rebuilt, Leaving, Dead
  <2>12. CASE ListFaults(t)
    BY <2>10, <2>12 DEF ListFaults, Leaving, Dead
  <2>13. CASE OriginReturns(t)
    <3>1. CASE TaskGoto(t, "after") /\ UNCHANGED <<call, code, freed, met, torn>>
      BY <2>13, <3>1 DEF OriginReturns, TaskGoto, Places
    <3>2. CASE Away(t, "idle")
      BY <2>5, <2>13, <3>2 DEF OriginReturns
    <3> QED
      BY <2>13, <3>1, <3>2 DEF OriginReturns
  <2> QED
    BY <1>5, <2>1, <2>2, <2>3, <2>4, <2>6, <2>7, <2>8, <2>9, <2>11, <2>12, <2>13
       DEF TaskCall, TaskStep
<1>6. CASE UNCHANGED moduleVars
  BY <1>6 DEF moduleVars
<1> QED
  BY <1>1, <1>2, <1>3, <1>4, <1>5, <1>6 DEF ModuleNext

\* Loading, unloading and the calls that go on meanwhile keep the types.
THEOREM LifeTyped == ModuleSpec => []ModuleTypeOK
  BY InitTypes, StepTypes, PTL DEF ModuleSpec

-----------------------------------------------------------------------------
\* No module, nothing to be unsound.
LEMMA InitSound == ModuleInit => Sound
  BY DEF ModuleInit, Sound, TextSound, TableSound, ResourcesSound, TasksSound, Inside,
         InText, Handler, InList, Unhooked, Up

\* insmod and rmmod keep the module and its tasks in step.
LEMMA ModuleSound ==
  ASSUME ModuleTypeOK, Sound, LoadText \/ LoadStep \/ StartUnload \/ UnloadStep
  PROVE  Sound'
<1>0. loads \in Nat /\ text \in Nat /\ \A u \in Tasks : code[u] \in Nat
  BY TextFacts DEF ModuleTypeOK
<1> USE <1>0 DEF Sound, ModuleTypeOK, Inside, InText, Handler, InList, Unhooked, Up
<1>1. CASE LoadText
  <2>1. TextSound' /\ text' # 0
    BY <1>1, TextFacts DEF LoadText, TextSound
  <2>2. ASSUME ~failed PROVE TableSound' /\ ResourcesSound'
    BY <1>1, <2>2 DEF LoadText, TableSound, ResourcesSound, TextSound
  <2>3. ASSUME ~failed PROVE TasksSound'
    <3>1. \A u \in Tasks : code[u] <= loads' /\ code[u] # text'
      BY <1>1, <2>3 DEF LoadText, TasksSound
    <3> QED
      BY <1>1, <2>3, <3>1 DEF LoadText, TasksSound
  <2> QED
    BY <1>1, <2>1, <2>2, <2>3 DEF LoadText
<1>2. CASE NoTable
  <2>1. ASSUME ~failed PROVE TableSound' /\ ResourcesSound'
    BY <1>2, <2>1 DEF NoTable, FailLoad, TableSound, ResourcesSound
  <2>2. ASSUME ~failed PROVE TasksSound'
    BY <1>2, <2>2 DEF NoTable, FailLoad, TasksSound
  <2> QED
    BY <1>2, <2>1, <2>2 DEF NoTable, FailLoad, TextSound
<1>3. CASE NoBuffers \/ NoProcs \/ NoSocket
  <2>1. TextSound'
    BY <1>3 DEF NoBuffers, NoProcs, NoSocket, FailLoad, TextSound
  <2>2. failed'
    BY <1>3 DEF NoBuffers, NoProcs, NoSocket, FailLoad
  <2> QED
    BY <2>1, <2>2
<1>4. CASE SaveOrigins
  BY <1>4, OrderFacts DEF SaveOrigins, TextSound, TableSound, ResourcesSound, TasksSound
<1>5. CASE Hook
  BY <1>5, OrderFacts
     DEF Hook, NextEntry, TextSound, TableSound, ResourcesSound, TasksSound
<1>6. CASE AllocBuffers \/ MakeProcs \/ OpenSocket
  BY <1>6 DEF AllocBuffers, MakeProcs, OpenSocket, TextSound, TableSound,
              ResourcesSound, TasksSound
<1>7. CASE StartUnload
  <2>1. ASSUME ~failed PROVE TableSound' /\ ResourcesSound'
    BY <1>7, <2>1 DEF StartUnload, TableSound, ResourcesSound
  <2>2. ASSUME ~failed PROVE TasksSound'
    BY <1>7, <2>2 DEF StartUnload, TasksSound
  <2> QED
    BY <1>7, <2>1, <2>2 DEF StartUnload, TextSound
<1>8. CASE Unhook
  <2>1. ASSUME ~failed PROVE TableSound'
    <3>1. at \in 1 .. Len(Order) /\ Order[at] \in Syscalls /\ saved[Order[at]] = 0
      BY <1>8, <2>1, OrderFacts DEF Unhook, TableSound
    <3>2. table' = [table EXCEPT ![Order[at]] = 0]
      BY <1>8, <3>1 DEF Unhook, PutBack
    <3>3. \A i \in 1 .. at : table'[Order[i]] = 0
      BY <1>8, <2>1, <3>1, <3>2, OrderFacts DEF Unhook, TableSound
    <3>4. \A s \in Syscalls : table'[s] \in {0, text}
      BY <2>1, <3>2 DEF TableSound
    <3>5. CASE at = Len(Order)
      <4>1. \A s \in Syscalls : \E i \in 1 .. at : s = Order[i]
        BY <3>5, InterceptionAssumption DEF Syscalls, Range
      <4>2. \A s \in Syscalls : table'[s] = 0
        BY <3>3, <4>1
      <4> QED
        BY <1>8, <2>1, <3>5, <4>2 DEF Unhook, TableSound
    <3>6. CASE at # Len(Order)
      BY <1>8, <2>1, <3>1, <3>3, <3>4, <3>6 DEF Unhook, NextEntry, TableSound
    <3> QED
      BY <3>5, <3>6
  <2> QED
    BY <1>8, <2>1 DEF Unhook, TextSound, ResourcesSound, TasksSound
<1>9. CASE DestroyList \/ DestroyFaults
  <2> USE DEF DestroyList, DestroyFaults, Destroyed
  <2>1. ASSUME ~failed PROVE TasksSound'
    BY <1>9, <2>1 DEF TasksSound
  <2>2. ASSUME ~failed PROVE TableSound' /\ ResourcesSound'
    BY <1>9, <2>2 DEF TableSound, ResourcesSound
  <2>3. TextSound' /\ (failed' <=> failed)
    BY <1>9 DEF TextSound
  <2> QED
    BY <2>1, <2>2, <2>3
<1>10. CASE FreeBuffers
  BY <1>10 DEF FreeBuffers, TextSound, TableSound, ResourcesSound, TasksSound
<1>11. CASE RemoveProcs
  <2>1. procs \subseteq {text} => procs' = {}
    BY <1>11 DEF RemoveProcs, Removed
  <2> QED
    BY <1>11, <2>1 DEF RemoveProcs, TextSound, TableSound, ResourcesSound, TasksSound
<1>12. CASE DrainProcs
  BY <1>12 DEF DrainProcs, TextSound, TableSound, ResourcesSound, TasksSound
<1>13. CASE ReleaseSocket
  BY <1>13 DEF ReleaseSocket, TextSound, TableSound, ResourcesSound, TasksSound
<1>14. CASE UnmapText
  <2>1. ASSUME ~failed PROVE TableSound' /\ ResourcesSound'
    BY <1>14, <2>1 DEF UnmapText, TableSound, ResourcesSound
  <2>2. ASSUME ~failed PROVE TasksSound'
    BY <1>14, <2>2 DEF UnmapText, TasksSound
  <2> QED
    BY <1>14, <2>1, <2>2 DEF UnmapText, TextSound
<1> QED
  BY <1>1, <1>2, <1>3, <1>4, <1>5, <1>6, <1>7, <1>8, <1>9, <1>10,
     <1>11, <1>12, <1>13, <1>14
     DEF LoadStep, UnloadStep

\* So do the tasks that come, run and go.
LEMMA TaskSound ==
  ASSUME ModuleTypeOK, Sound, NEW t \in Tasks,
         TaskCall(t) \/ TaskStep(t) \/ OriginReturns(t) \/ Bury(t)
  PROVE  Sound'
<1>0. loads \in Nat /\ text \in Nat /\ \A u \in Tasks : code[u] \in Nat
  BY TextFacts DEF ModuleTypeOK
<1> USE <1>0 DEF Sound, Inside, InText, Handler, InList, Unhooked, Up, ModuleTypeOK, TaskGoto
<1>1. ASSUME NEW s \in Syscalls, Enter(t, s) PROVE Sound'
  <2>1. CASE table[s] = 0
    BY <1>1, <2>1 DEF Enter, TextSound, TableSound, ResourcesSound, TasksSound
  <2>2. CASE table[s] # 0
    <3>1. ASSUME ~failed PROVE table[s] = text /\ (Leaving \/ phase \in Up)
      BY <2>2, <3>1 DEF Leaving, Phases, TableSound
    <3>2. ASSUME ~failed PROVE TasksSound'
      BY <1>1, <2>2, <3>1, <3>2 DEF Enter, TextSound, TableSound, TasksSound
    <3> QED
      BY <1>1, <2>2, <3>2 DEF Enter, TextSound, TableSound, ResourcesSound
  <2> QED
    BY <2>1, <2>2
<1>2. ASSUME NEW g \in Text, EnterWrite(t, g) PROVE Sound'
  <2>1. ASSUME ~failed
        PROVE  g = text /\ g # 0 /\ (Leaving \/ phase \in {"socket", "in", "killed"})
    BY <1>2, <2>1 DEF EnterWrite, Leaving, TextSound, ResourcesSound
  <2>2. ASSUME ~failed PROVE TasksSound'
    BY <1>2, <2>1, <2>2 DEF EnterWrite, TextSound, ResourcesSound, TasksSound
  <2>3. /\ TextSound' /\ (failed' <=> failed)
        /\ ~failed => TableSound' /\ ResourcesSound'
    BY <1>2 DEF EnterWrite, TextSound, TableSound, ResourcesSound
  <2> QED
    BY <2>2, <2>3
<1>3. ASSUME UNCHANGED <<modVars, resVars, failed, late>>, ~failed => TasksSound'
      PROVE  Sound'
  <2>1. TextSound' /\ (~failed => TableSound' /\ ResourcesSound')
    BY <1>3 DEF TextSound, TableSound, ResourcesSound
  <2> QED
    BY <1>3, <2>1
<1>4. ASSUME NEW place \in {"idle"} \cup Dead, Out(t, place), UNCHANGED modVars,
             ~failed
      PROVE  TasksSound'
  <2>1. /\ tpc' = [tpc EXCEPT ![t] = place] /\ code' = [code EXCEPT ![t] = 0]
        /\ torn' = [torn EXCEPT ![t] = FALSE]
    BY <1>4 DEF Out
  <2>2. place \notin InText \cup {"origin"}
    BY <1>4 DEF Dead
  <2>3. \A u \in Tasks \ {t} : tpc'[u] = tpc[u] /\ code'[u] = code[u] /\ torn'[u] = torn[u]
    BY <2>1
  <2>4. tpc'[t] = place /\ code'[t] = 0
    BY <2>1
  <2> QED
    BY <1>4, <2>2, <2>3, <2>4 DEF TasksSound
<1>5. CASE CheckRules(t) \/ WalkRules(t) \/ Bury(t)
  <2> USE DEF CheckRules, WalkRules, Bury, Dead
  <2>1. ASSUME ~failed PROVE TasksSound'
    BY <1>5, <2>1 DEF TasksSound
  <2>2. UNCHANGED <<modVars, resVars, failed, late>>
    BY <1>5
  <2> QED
    BY <1>3, <2>1, <2>2
<1>6. CASE Forward(t)
  <2>1. ASSUME ~failed, phase \notin {"out", "save"} PROVE saved[call[t]] = 0
    BY <2>1 DEF TableSound
  <2>2. ASSUME ~failed PROVE phase # "save" /\ phase # "out"
    BY <1>6, <2>2 DEF Forward, Mapped, TextSound, TasksSound
  <2>3. ASSUME ~failed PROVE TasksSound'
    BY <1>6, <2>1, <2>2, <2>3 DEF Forward, TasksSound
  <2>4. UNCHANGED <<modVars, resVars, failed, late>>
    BY <1>6 DEF Forward
  <2> QED
    BY <1>3, <2>3, <2>4
<1>7. ASSUME NEW place \in {"idle"} \cup Dead, Away(t, place),
             UNCHANGED <<modVars, resVars, failed, late>>
      PROVE  Sound'
  BY <1>3, <1>4, <1>7 DEF Away
<1>8. CASE BadArgument(t) \/ Starves(t) \/ NotifyRefusal(t) \/ WalkFaults(t)
  BY <1>7, <1>8 DEF BadArgument, Starves, NotifyRefusal, WalkFaults, Dead
<1>9. CASE HookReturns(t) \/ PassBy(t) \/ WriteOverruns(t) \/ WriteFaults(t) \/ TextGone(t)
  BY <1>7, <1>9 DEF HookReturns, PassBy, WriteOverruns, WriteFaults, TextGone, Dead
<1>10. CASE OriginReturns(t)
  <2>1. CASE TaskGoto(t, "after") /\ UNCHANGED <<call, code, freed, met, torn>>
    <3>1. ASSUME ~failed PROVE TasksSound'
      BY <1>10, <2>1, <3>1 DEF OriginReturns, TasksSound
    <3>2. UNCHANGED <<modVars, resVars, failed, late>>
      BY <1>10 DEF OriginReturns
    <3> QED
      BY <1>3, <3>1, <3>2
  <2>2. CASE Away(t, "idle")
    BY <1>7, <1>10, <2>2 DEF OriginReturns
  <2> QED
    BY <1>10, <2>1, <2>2 DEF OriginReturns
<1>11. CASE CopyRules(t) \/ ClearRules(t)
  <2> USE DEF CopyRules, ClearRules, EnterList
  <2>1. ASSUME ~failed PROVE TasksSound'
    BY <1>11, <2>1 DEF TasksSound
  <2>2. UNCHANGED <<modVars, buffers, procs, socket, rules, failed, late>>
    BY <1>11
  <2>3. TextSound' /\ (~failed => TableSound' /\ ResourcesSound')
    BY <2>2 DEF TextSound, TableSound, ResourcesSound
  <2> QED
    BY <2>1, <2>2, <2>3
<1>12. CASE BuildRules(t) \/ BuildDies(t) \/ ListFaults(t)
  <2> USE DEF BuildRules, BuildDies, ListFaults, Rebuilt
  <2>1. ASSUME ~failed PROVE TasksSound'
    BY <1>4, <1>12, <2>1 DEF Dead
  <2>2. /\ tpc[t] \in InList /\ Mapped(t) /\ late' = (late \/ Leaving)
        /\ UNCHANGED <<modVars, buffers, procs, socket, failed>>
    BY <1>12
  <2>3. ASSUME ~failed PROVE phase # "save" /\ phase # "out"
    BY <2>2, <2>3 DEF Mapped, TextSound, TasksSound
  <2>4. ASSUME ~failed PROVE ResourcesSound'
    BY <2>2, <2>3, <2>4 DEF Leaving, ResourcesSound
  <2>5. TextSound' /\ (failed' <=> failed) /\ (~failed => TableSound')
    BY <2>2 DEF TextSound, TableSound
  <2> QED
    BY <2>1, <2>4, <2>5
<1> QED
  BY <1>1, <1>2, <1>5, <1>6, <1>8, <1>9, <1>10, <1>11, <1>12 DEF TaskCall, TaskStep

\* The inductive invariant holds in every reachable state.
LEMMA SoundAlways == ModuleSpec => [](ModuleTypeOK /\ Sound)
<1>1. ModuleInit => ModuleTypeOK /\ Sound
  BY InitTypes, InitSound
<1>2. ModuleTypeOK /\ Sound /\ [ModuleNext]_moduleVars => (ModuleTypeOK /\ Sound)'
  <2> SUFFICES ASSUME ModuleTypeOK, Sound, [ModuleNext]_moduleVars PROVE Sound'
    BY StepTypes
  <2>1. CASE UNCHANGED moduleVars
    BY <2>1 DEF moduleVars, Sound, TextSound, TableSound, ResourcesSound, TasksSound, Inside
  <2> QED
    BY <2>1, ModuleSound, TaskSound DEF ModuleNext
<1> QED
  BY <1>1, <1>2, PTL DEF ModuleSpec

-----------------------------------------------------------------------------
\* Unless a load has failed half-way, the system call table never leads to text
\* that is not mapped, and the hooks forward to the kernel's own calls.
THEOREM TableMapped == ModuleSpec => []HooksMapped
<1>1. ModuleTypeOK /\ Sound => HooksMapped
  BY DEF Sound, TextSound, TableSound, HooksMapped, Unhooked
<1> QED
  BY <1>1, SoundAlways, PTL

\* Unless a load has failed half-way, unloading leaves the table as it was and
\* nothing behind, but a list that was written while the module was going.
THEOREM UnloadSafe == ModuleSpec => []LeavesNothing
<1>1. ModuleTypeOK /\ Sound => LeavesNothing
  BY DEF Sound, TextSound, TableSound, ResourcesSound, LeavesNothing, Unhooked
<1> QED
  BY <1>1, SoundAlways, PTL

\* A task that gets its memory, and whose arguments and text can be trusted, dies of
\* the module only for one of the reasons the property names, for any tasks, hooked
\* calls and loads: FaultExplained, the hooks and proc_protect_write against lkm_exit
\* and one another.
THEOREM TasksSafe == ModuleSpec => FaultExplained
<1> DEFINE Excused ==
      \A t \in Tasks :
        tpc[t] # "oops" /\ tpc'[t] = "oops" =>
          failed \/ torn[t] \/ freed[t] \/ tangled \/ buffers = "partial"
<1>1. ModuleTypeOK /\ Sound /\ [ModuleNext]_moduleVars => [Excused]_moduleVars
  <2> SUFFICES ASSUME ModuleTypeOK, Sound, ModuleNext, NEW t \in Tasks,
                      tpc[t] # "oops", tpc'[t] = "oops",
                      ~failed, ~torn[t], ~freed[t], ~tangled, buffers # "partial"
               PROVE  FALSE
    OBVIOUS
  <2> USE DEF ModuleTypeOK, TaskGoto
  <2>1. CASE LoadText \/ LoadStep \/ StartUnload \/ UnloadStep
    BY <2>1 DEF LoadText, LoadStep, StartUnload, UnloadStep, NoTable, NoBuffers,
        NoProcs, NoSocket, FailLoad, SaveOrigins, Hook, AllocBuffers, MakeProcs,
        OpenSocket, Unhook, DestroyList, DestroyFaults, FreeBuffers, RemoveProcs,
        DrainProcs, ReleaseSocket, UnmapText
  <2>2. ASSUME NEW u \in Tasks, TaskCall(u) \/ OriginReturns(u) \/ Bury(u) PROVE FALSE
    BY <2>2 DEF TaskCall, Enter, EnterWrite, OriginReturns, Bury, Away, Out
  <2>3. ASSUME NEW u \in Tasks, TaskStep(u) PROVE FALSE
    <3> USE DEF Away, Out
    <3>1. CASE WalkFaults(u)
      <4>1. u = t
        BY <3>1 DEF WalkFaults
      <4> QED
        BY <3>1, <4>1 DEF WalkFaults, Sound, TasksSound, ResourcesSound, Inside, InText, Up
    <3>2. CASE WriteFaults(u)
      <4>1. u = t
        BY <3>2 DEF WriteFaults
      <4>2. tpc[t] \in Handler
        BY <3>2, <4>1 DEF WriteFaults, Handler, InList
      <4> QED
        BY <3>2, <4>1, <4>2 DEF WriteFaults, Sound, TasksSound, ResourcesSound
    <3>3. CASE TextGone(u)
      BY <3>3 DEF TextGone, Sound, TasksSound, Inside, Mapped
    <3>4. CASE ListFaults(u)
      BY <3>4 DEF ListFaults
    <3>5. CASE BadArgument(u) \/ Starves(u) \/ NotifyRefusal(u)
      BY <3>5 DEF BadArgument, Starves, NotifyRefusal
    <3>6. CASE HookReturns(u) \/ PassBy(u) \/ WriteOverruns(u)
      BY <3>6 DEF HookReturns, PassBy, WriteOverruns
    <3>7. CASE CheckRules(u) \/ WalkRules(u) \/ Forward(u)
      BY <3>7 DEF CheckRules, WalkRules, Forward
    <3>8. CASE CopyRules(u) \/ ClearRules(u)
      BY <3>8 DEF CopyRules, ClearRules, EnterList
    <3>9. CASE BuildRules(u) \/ BuildDies(u)
      BY <3>9 DEF BuildRules, BuildDies
    <3> QED
      BY <2>3, <3>1, <3>2, <3>3, <3>4, <3>5, <3>6, <3>7, <3>8, <3>9 DEF TaskStep
  <2> QED
    BY <2>1, <2>2, <2>3 DEF ModuleNext
<1> QED
  BY <1>1, SoundAlways, PTL DEF ModuleSpec, FaultExplained
=============================================================================
