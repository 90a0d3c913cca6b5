------------------------------ MODULE Notification ------------------------------
(***************************************************************************)
(* Notifications from the hooks to the receivers.  sendnlmsg of            *)
(* LKM/notification.c broadcasts what a hook has to say to the netlink     *)
(* group; LKM/user.c, and the child that LKM/complexuser.c, LKM/client.c   *)
(* and User/complexuser.c fork, print what recvmsg puts into their one     *)
(* buffer, whatever recvmsg returned.  Hooks run side by side, receivers   *)
(* come and go, and nobody waits for anybody.  The socket is the kernel's. *)
(***************************************************************************)
EXTENDS Naturals, Sequences, FiniteSets

CONSTANTS
  Senders,     \* tasks in a hook
  Receivers,
  Room,        \* messages the receive buffer of a socket takes
  MaxSent,     \* bound: messages one sender sends
  NULL

ASSUME NotificationAssumption ==
  /\ Room \in Nat \ {0} /\ MaxSent \in Nat
  /\ NULL \notin Senders \cup Receivers

\* The k-th message of a sender; Garbage is one that runs on past its end.
Message == [from : Senders, number : 1 .. MaxSent]
Blank == [from |-> NULL, number |-> 0]
Garbage == [from |-> NULL, number |-> 1]
Line == Message \cup {Blank, Garbage}

VARIABLES
  nl_sk,       \* the kernel's socket, "null" or "open"
  spc,         \* a sender: "idle", "alloc" before its buffer, "cast" in netlink_broadcast
  sent,        \* ... how many messages it had to send
  todo,        \* ... the receivers the broadcast has not reached
  rpc,         \* a receiver: "off", "recvmsg" or "printf"
  queue,       \* ... the receive queue of its socket
  congested,   \* ... takes nothing before the queue is empty
  sk_err,      \* ... the next recvmsg returns ENOBUFS
  nlh,         \* ... its buffer
  printed,     \* ... what it printed
  \* history, read by no guard
  offered,     \* the messages whose broadcast was to a receiver since it was bound
  missed       \* errors it was or will be told of and has not printed over

senderVars   == <<spc, sent, todo>>
socketVars   == <<queue, congested, sk_err>>
receiverVars == <<rpc, nlh, printed>>
history == <<offered, missed>>
vars == <<nl_sk, senderVars, socketVars, receiverVars, history>>

Current(s) == [from |-> s, number |-> sent[s]]
Bound(r) == rpc[r] # "off"
Casting == {s \in Senders : spc[s] = "cast"}

-----------------------------------------------------------------------------
(* The module.                                                             *)

\* notification_init; the hooks are in the table before it.
NotificationInit ==
  /\ nl_sk = "null"
  /\ nl_sk' = "open"
  /\ UNCHANGED <<senderVars, socketVars, receiverVars, history>>

\* A hook refuses a call and has something to say.
MessageWithStr(s) ==
  /\ spc[s] = "idle" /\ sent[s] < MaxSent
  /\ sent' = [sent EXCEPT ![s] = @ + 1]
  /\ spc' = [spc EXCEPT ![s] = IF nl_sk = "null" THEN "idle" ELSE "alloc"]
  /\ UNCHANGED <<nl_sk, todo, socketVars, receiverVars, history>>

AllocFails(s) ==
  /\ spc[s] = "alloc"
  /\ spc' = [spc EXCEPT ![s] = "idle"]
  /\ UNCHANGED <<nl_sk, sent, todo, socketVars, receiverVars, history>>

\* The broadcast is to those bound now; none can be bound or leave during it.
StartCast(s) ==
  /\ spc[s] = "alloc"
  /\ spc' = [spc EXCEPT ![s] = "cast"]
  /\ todo' = [todo EXCEPT ![s] = {r \in Receivers : Bound(r)}]
  /\ offered' = [r \in Receivers |-> IF Bound(r) THEN offered[r] \cup {Current(s)}
                                              ELSE offered[r]]
  /\ UNCHANGED <<nl_sk, sent, socketVars, receiverVars, missed>>

\* "Slip" marks a mistake that could be made in the definition below it; only
\* the experiments with the properties use it.

\* Slip: the string is copied without the NUL at its end.
Unended(m) == Garbage

\* memcpy of slen + 1 bytes.
Payload(m) == m

\* The message fits into the receiver's queue.
Deliver(s, r) ==
  /\ spc[s] = "cast" /\ r \in todo[s]
  /\ Len(queue[r]) < Room /\ ~congested[r]
  /\ queue' = [queue EXCEPT ![r] = Append(@, Payload(Current(s)))]
  /\ todo' = [todo EXCEPT ![s] = @ \ {r}]
  /\ UNCHANGED <<nl_sk, spc, sent, congested, sk_err, receiverVars, history>>

\* It does not, or there is no memory for a copy: the receiver's next recvmsg
\* fails, once until its queue was empty.
Overrun(s, r) ==
  /\ spc[s] = "cast" /\ r \in todo[s]
  /\ todo' = [todo EXCEPT ![s] = @ \ {r}]
  /\ congested' = [congested EXCEPT ![r] = TRUE]
  /\ IF congested[r] THEN UNCHANGED <<sk_err, missed>>
     ELSE /\ sk_err' = [sk_err EXCEPT ![r] = TRUE]
          /\ missed' = [missed EXCEPT ![r] = @ + 1]
  /\ UNCHANGED <<nl_sk, spc, sent, queue, receiverVars, offered>>

\* Slip: what not everybody took is sent to all again.
TryAgain(s) == "alloc"
Sent(s) == "idle"

\* sendnlmsg does not look at the result.
EndCast(s) ==
  /\ spc[s] = "cast" /\ todo[s] = {}
  /\ spc' = [spc EXCEPT ![s] = Sent(s)]
  /\ UNCHANGED <<nl_sk, sent, todo, socketVars, receiverVars, history>>

-----------------------------------------------------------------------------
(* A receiver.                                                             *)

\* socket, bind to the group, a cleared buffer; if one of them fails the
\* program ends and nothing has changed.
Start(r) ==
  /\ rpc[r] = "off" /\ Casting = {}
  /\ rpc' = [rpc EXCEPT ![r] = "recvmsg"]
  /\ nlh' = [nlh EXCEPT ![r] = Blank]
  /\ UNCHANGED <<nl_sk, senderVars, socketVars, printed, history>>

\* A socket whose queue was emptied takes messages again.
Wake(r, rest) == congested' = [congested EXCEPT ![r] = @ /\ rest # <<>>]

Receive(r) ==
  /\ rpc[r] = "recvmsg" /\ ~sk_err[r] /\ queue[r] # <<>>
  /\ nlh' = [nlh EXCEPT ![r] = Head(queue[r])]
  /\ queue' = [queue EXCEPT ![r] = Tail(@)]
  /\ Wake(r, Tail(queue[r]))
  /\ rpc' = [rpc EXCEPT ![r] = "printf"]
  /\ UNCHANGED <<nl_sk, senderVars, sk_err, printed, history>>

\* Slip: after an error the program only waits on.
WaitOn(r) == "recvmsg"
GoOn(r) == "printf"

\* ENOBUFS: the buffer keeps what it had, and the program goes on to print it.
ReceiveFails(r) ==
  /\ rpc[r] = "recvmsg" /\ sk_err[r]
  /\ sk_err' = [sk_err EXCEPT ![r] = FALSE]
  /\ Wake(r, queue[r])
  /\ rpc' = [rpc EXCEPT ![r] = GoOn(r)]
  /\ UNCHANGED <<nl_sk, senderVars, queue, nlh, printed, history>>

\* The line the user saw last.
Shown(r) == IF printed[r] = <<>> THEN Blank ELSE printed[r][Len(printed[r])]

Printf(r) ==
  /\ rpc[r] = "printf"
  /\ printed' = [printed EXCEPT ![r] = Append(@, nlh[r])]
  /\ missed' = [missed EXCEPT ![r] = IF nlh[r] = Shown(r) THEN @ - 1 ELSE @]
  /\ rpc' = [rpc EXCEPT ![r] = "recvmsg"]
  /\ UNCHANGED <<nl_sk, senderVars, socketVars, nlh, offered>>

\* The receiver is killed, by the manager that forked it or by anybody.
Kill(r) ==
  /\ Bound(r) /\ Casting = {}
  /\ rpc' = [rpc EXCEPT ![r] = "off"]
  /\ queue' = [queue EXCEPT ![r] = <<>>]
  /\ congested' = [congested EXCEPT ![r] = FALSE]
  /\ sk_err' = [sk_err EXCEPT ![r] = FALSE]
  /\ nlh' = [nlh EXCEPT ![r] = Blank]
  /\ printed' = [printed EXCEPT ![r] = <<>>]
  /\ missed' = [missed EXCEPT ![r] = 0]
  /\ offered' = [offered EXCEPT ![r] = {}]
  /\ UNCHANGED <<nl_sk, senderVars>>

Init ==
  /\ nl_sk = "null"
  /\ spc = [s \in Senders |-> "idle"] /\ sent = [s \in Senders |-> 0]
  /\ todo = [s \in Senders |-> {}]
  /\ rpc = [r \in Receivers |-> "off"] /\ queue = [r \in Receivers |-> <<>>]
  /\ congested = [r \in Receivers |-> FALSE] /\ sk_err = [r \in Receivers |-> FALSE]
  /\ nlh = [r \in Receivers |-> Blank] /\ printed = [r \in Receivers |-> <<>>]
  /\ offered = [r \in Receivers |-> {}] /\ missed = [r \in Receivers |-> 0]

Sendnlmsg(s) ==
  \/ AllocFails(s) \/ StartCast(s) \/ EndCast(s)
  \/ \E r \in Receivers : Deliver(s, r) \/ Overrun(s, r)

ReceiverStep(r) == Receive(r) \/ ReceiveFails(r) \/ Printf(r)

Next ==
  \/ NotificationInit
  \/ \E s \in Senders : MessageWithStr(s) \/ Sendnlmsg(s)
  \/ \E r \in Receivers : Start(r) \/ ReceiverStep(r) \/ Kill(r)

Spec == Init /\ [][Next]_vars

\* A sender is in the kernel and runs on; a receiver is a program that runs, too.
FairSpec ==
  /\ Spec
  /\ \A s \in Senders : WF_vars(Sendnlmsg(s))
  /\ \A r \in Receivers : WF_vars(ReceiverStep(r))

-----------------------------------------------------------------------------
(* Properties.                                                             *)

\* Every variable has a value of its kind.
TypeOK ==
  /\ nl_sk \in {"null", "open"}
  /\ spc \in [Senders -> {"idle", "alloc", "cast"}]
  /\ sent \in [Senders -> 0 .. MaxSent] /\ todo \in [Senders -> SUBSET Receivers]
  /\ rpc \in [Receivers -> {"off", "recvmsg", "printf"}]
  /\ queue \in [Receivers -> Seq(Message)] /\ \A r \in Receivers : Len(queue[r]) <= Room
  /\ congested \in [Receivers -> BOOLEAN] /\ sk_err \in [Receivers -> BOOLEAN]
  /\ nlh \in [Receivers -> Line] /\ printed \in [Receivers -> Seq(Line)]
  /\ offered \in [Receivers -> SUBSET Message] /\ missed \in [Receivers -> Nat]

Earlier(m, n) == m.from = n.from /\ m.number < n.number

\* What a receiver prints (User/complexuser.c:192-195) are messages, each once and
\* those of one sender in order, and a line again only when messages were lost
\* and once for each time they began to be, although it never looks at what
\* recvmsg returned, hooks send side by side and sockets overflow.
Board == INSTANCE NoticeBoard WITH
  Readers <- Receivers, Before <- Earlier, shown <- printed, owed <- missed
ImplementsBoard == Board!Spec

\* Printed lines that say what the line before them said.
Repeats(r) ==
  {i \in DOMAIN printed[r] :
     printed[r][i] = IF i = 1 THEN Blank ELSE printed[r][i - 1]}

\* No loss on the way to a receiver is silent: a message whose broadcast was to
\* it is printed, in its buffer, in its queue or still to be delivered, or a
\* line was or will be printed twice; and what is in a queue was sent.  What alloc_skb has no memory for
\* (LKM/notification.c:36) is lost before and by all.
NoSilentLoss ==
  /\ TypeOK
  /\ \A r \in Receivers : \A m \in offered[r] :
       \/ \E i \in DOMAIN printed[r] : printed[r][i] = m
       \/ \E i \in DOMAIN queue[r] : queue[r][i] = m
       \/ rpc[r] = "printf" /\ nlh[r] = m
       \/ \E s \in Casting : r \in todo[s] /\ Current(s) = m
       \/ Repeats(r) # {} \/ missed[r] > 0

\* A hook that has something to say never waits for those who listen
\* (LKM/notification.c:54).
SendEnds == \A s \in Senders : spc[s] # "idle" ~> spc[s] = "idle"

\* A line is printed again for each time messages began to be lost, so that its
\* user can tell.
LossShows == \A r \in Receivers : missed[r] > 0 ~> missed[r] = 0
=============================================================================
