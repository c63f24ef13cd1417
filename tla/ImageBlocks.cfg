\* Five files in blocks of two: two full blocks and a last one with one image.
CONSTANTS
  NULL = NULL
  fileLen = 5
  BLOCK = 2
  Quality = {"good", "truncated", "unreadable", "unwritable"}
SPECIFICATION Spec
INVARIANTS
  TypeOK
  ImagesUsable
  EveryFileSavedOnce
  MemoryBounded
