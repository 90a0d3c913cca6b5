SPECIFICATION FairSpec
CONSTANTS
  NULL = NULL
  Managers = {m1, m2}
  Others = {o1}
  Addr = {n1}
  Files <- MCFiles
  MaxFiles = 1
  Words = {"disable", "enable"}
  Path <- MCPath
  Inode = {"i1", "i2", "i3"}
  InoOf <- MCInoOf
  Lookup <- MCLookup
  PageLines = 1
  BufferLines = 2
  ProtectFiles = {"i2", "i3"}
  NameOf <- MCNameOf
INVARIANT InForce
PROPERTIES LockHolds RefreshEnds
CONSTRAINT Unclashed
