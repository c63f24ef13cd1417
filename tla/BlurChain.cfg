\* blur, blur, red, blur with 1, 2, 1 and 1 threads; one image of three packets.
\* Three copies of the image follow each other; the threads are scheduled fairly.
CONSTANTS
  a1 = a1
  a2 = a2
  b1 = b1
  b2 = b2
  c1 = c1
  d1 = d1
  None = None
  Garbage = Garbage
  NFILTERS = 4
  NIMAGE = 1
  PerImage = 3
  Blur = {0, 1, 3}
  Thread = {a1, b1, b2, c1, d1}
  num_filter <- FourFilters
SPECIFICATION FairSpec
INVARIANTS
  BlurReadsFinishedCopy
  CopiesFreedOnce
PROPERTIES
  ImplementsStages
  TreatmentEnds
