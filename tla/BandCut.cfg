\* Two images of up to 5 lines, two filters with up to 4 threads.
CONSTANTS
  NIMAGE = 2
  NFILTERS = 2
  Heights = {1, 2, 3, 4, 5}
  ThreadCounts = {1, 2, 3, 4}
SPECIFICATION CutSpec
INVARIANTS
  EveryLineOnce
