\* red then blur; two images of two packets, two threads per filter.
CONSTANTS
  a1 = a1
  a2 = a2
  b1 = b1
  b2 = b2
  c1 = c1
  d1 = d1
  None = None
  Garbage = Garbage
  NFILTERS = 2
  NIMAGE = 2
  PerImage = 2
  Blur = {1}
  Thread = {a1, a2, b1, b2}
  num_filter <- TwoFilters
SPECIFICATION Spec
SYMMETRY Symmetry
INVARIANTS
  TypeOK
  PacketConservation
  FiltersInOrder
  NoError
  NoPixelRace
  SemaphoresCountSlots
  CanCopiCountsReadyImages
  AllFilteredAtJoin
