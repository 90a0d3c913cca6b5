SPECIFICATION Spec
CONSTANTS
  Managers = {m1, m2}
  Cell = {c1, c2, c3}
  NULL = NULL
  Path <- MCPath
  Inode = {"i1"}
  Lookup <- MCLookup
  PageLines = 3
  Typed = {"gone/", "protect"}
  Answers = {"w", "newline"}
  Trim <- MCTrim
  ProtectFile = "i1"
CONSTRAINT ThreeNodes
SYMMETRY Symmetric
INVARIANTS ListShape InStep
PROPERTY ImplementsBook
