----------------------------- MODULE MCNotification -----------------------------
(* A small instance of Notification.  A socket has room for two messages, and   *)
(* a third that comes before one was read is lost.                              *)
EXTENDS Notification

\* Five messages in all, three of one hook and two of the other.
FiveSent == \A s \in Senders : \A t \in Senders \ {s} : sent[s] + sent[t] <= 5
=============================================================================
