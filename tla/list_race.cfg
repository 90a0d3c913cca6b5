SPECIFICATION Spec
CONSTANTS
  NULL = NULL
  i1 = i1  i2 = i2
  Writers = {w1, w2}
  Readers = {}
  Addr = {n1, n2}
  Path <- MCPath
  Inode <- MCInode
  InoOf <- MCInoOf
  Lookup <- MCLookup
  Texts <- RaceTexts
  Words = {"clear", "disable"}
  Requests = {}
  PageLines = 2
  BufferLines = 3
SYMMETRY RaceSymmetry
INVARIANT HeapShape
PROPERTY WriterFaultExplained
