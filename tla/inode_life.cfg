SPECIFICATION InodeSpec
CONSTANTS
  File = {"f1", "f2", "f3"}
  Ino <- MCIno
  Paths = {p1, p2}
  Addr = {a1, a2}
  Tasks = {t1, t2}
  NULL = NULL
INVARIANTS InodeTypeOK FdVerdictRight InoVerdictRight
SYMMETRY Symmetric
