SPECIFICATION Spec
CONSTANTS
  Threads = {t1, t2}
  Calls = {"unlink", "chdir", "renameat"}
  MemoryFails = FALSE
  Object = {"root", "d", "e", "f"}
  Dirs = {"root", "d", "e"}
  Token <- MCToken
  Root = "root"
  FirstTree <- MCTree
  Names <- FewNames
  NewNames <- OneNewName
  DirFds = {NULL}
  RuleSets <- FewRules
  Leftovers <- Clean
  NULL = NULL
PROPERTY RuledObjectsKept
SYMMETRY Symmetric
