SPECIFICATION FairSpec
CONSTANTS
  Senders = {s1, s2}
  Receivers = {r1}
  Room = 2
  MaxSent = 3
  NULL = NULL
INVARIANT NoSilentLoss
PROPERTIES ImplementsBoard SendEnds LossShows
CONSTRAINT FiveSent
