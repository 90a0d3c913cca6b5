SPECIFICATION Spec
CONSTANTS
  Dir <- MCDir
  Count = 5
  Short = 4
  Word = 64
  KmallocMax = 8
  EINVAL = 22
INVARIANT NoAllocOnError
