\* Three filters of up to three threads on up to five lines.
CONSTANTS
  NFILTERS = 3
  Filters = {"red", "blur", "wrong"}
  Heights = {1, 2, 3, 5}
  ThreadCounts = {1, 2, 3}
  NULL = NULL
SPECIFICATION Spec
INVARIANTS
  TypeOK
  NoSharedLine
PROPERTIES
  ImplementsChain
