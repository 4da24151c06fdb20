\* A body of two frames, the second shorter than the first.
SPECIFICATION Spec
CONSTANTS
  OwnChannel = 1
  OtherChannel = {}
  ReturnChannel = {}
  BodySize = {0, 3}
  Fragment = 2
  isAck = TRUE
  MaxContents = 2
  MaxOther = 1
INVARIANTS
  BodyAssembled
