\* As Encode.cfg, without zero bytes, what is beyond a window never being equal.
CONSTANTS
  LENGTH = 3
  Newline = 2
  PageSize = 3
  Byte = {2, 4}
  MaxSize = 9
  Beyond = {5}
  Unmapped = Unmapped
  InSize = 16
  OutSize = 2
  OutRoom = 16
SPECIFICATION Spec
INVARIANT CompressedFileDecodes
