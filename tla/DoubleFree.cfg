\* Readable files, a last block smaller than the one before.
CONSTANTS
  NULL = NULL
  fileLen = 3
  BLOCK = 2
  Quality = {"good"}
SPECIFICATION Spec
INVARIANT FreedOnce
