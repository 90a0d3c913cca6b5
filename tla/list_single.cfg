SPECIFICATION FairSpec
CONSTANTS
  NULL = NULL
  i1 = i1  i2 = i2
  Writers = {w1}
  Readers = {r1}
  Addr = {n1, n2}
  Path <- MCPath
  Inode <- MCInode
  InoOf <- MCInoOf
  Lookup <- MCLookup
  Texts <- MCTexts
  Words <- MCWords
  Requests <- MCRequests
  PageLines = 3
  BufferLines = 4
INVARIANT TypeOK
INVARIANT HeapShape
INVARIANT ListMatchesText
PROPERTY FaultNeedsOverlap
PROPERTY WriterFaultExplained
PROPERTY VerdictExact
PROPERTY ImplementsPolicy
PROPERTY CheckEnds
PROPERTY WriteEnds
