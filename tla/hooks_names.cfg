SPECIFICATION Spec
CONSTANTS
  Threads = {t1}
  Calls = {"mkdir", "chdir", "rmdir", "open", "unlink", "unlinkat", "rename", "renameat"}
  MemoryFails = TRUE
  Object = {"root", "d", "e", "f"}
  Dirs = {"root", "d", "e"}
  Token <- MCToken
  Root = "root"
  FirstTree <- MCTree
  Names <- AllNames
  NewNames <- OneNewName
  DirFds = {NULL, "d"}
  RuleSets <- AllRules
  Leftovers <- MCLeftovers
  NULL = NULL
INVARIANT NothingHeld
PROPERTIES RuledObjectsKept RefusedRightly
