\* Windows of four bytes, lengths of at most three, inputs of three windows; what
\* they are compressed to is read in one block and just fits the decoder.
CONSTANTS
  LENGTH = 3
  Newline = 2
  PageSize = 2
  Byte = {0, 2}
  MaxSize = 11
  Beyond = {5, Unmapped}
  Unmapped = Unmapped
  InSize = 14
  OutSize = 2
  OutRoom = 11
SPECIFICATION Spec
INVARIANTS
  TypeOK
  PlainFileDecodes
  SizePassExact
